------------------------------ MODULE Recovery ------------------------------
(***************************************************************************)
(* A crash of the live process and what brings its orders back: the        *)
(* snapshot file (src/live/state/snapshot.js), the startup recovery        *)
(* (src/live/sync/startupRecovery.js), the reconciliation passes           *)
(* (src/live/sync/reconciliation.js) and the part of EventLoop.init and    *)
(* tick that runs them, on top of the execution engine.                    *)
(*                                                                         *)
(* Memory is lost in a crash; the file, the exchange and the submissions   *)
(* on the wire survive it.  The shutdown handler is a sweep with a crash   *)
(* after it: its flush is one more write of the snapshot.                  *)
(***************************************************************************)
EXTENDS ExecutionEngine

CONSTANTS
  Tick,           \* the tick loop, the only caller of the engine here
  RecoveredKeys,  \* the keys recoverySignalKey makes
  Closings,       \* how orders are closed by others: traders, or late requests of a crashed process
  MaxBoots        \* how often the process is started

ASSUME TickAssumption == Callers = {Tick}
ASSUME RecoveryAssumption ==
  /\ RecoveredKeys \subseteq Keys
  /\ Closings \subseteq {"filled", "cancelled"}
  /\ MaxBoots \in Nat \ {0}

SignalKeys == Keys \ RecoveredKeys

VARIABLES
  (* on disk *)
  file,       \* orders.open of the snapshot file
  (* in the process *)
  phase,      \* which part of init or tick is suspended in calls[Tick]
  recovered,  \* _recoveryDone; while init runs, that no error was recorded
  remote,     \* remoteOrders of the pass in progress
  writer,     \* the snapshot writer: not started, between writes, writing
  draft,      \* the snapshot it writes
  (* of the exchange's data: the recovery key that market, side and
     creation time of a remote order give *)
  recKey,
  (* of the run *)
  issued,     \* issued[id]: the signal key the order was made for, in any process
  found,      \* the orders the last recovery was told of
  boots

diskVars    == <<file, recKey>>
processVars == <<phase, recovered, remote>>
writerVars  == <<writer, draft>>
ghostVars   == <<issued, found, boots>>
vars        == <<engineVars, diskVars, processVars, writerVars, ghostVars>>

Phases == {"down", "recovery", "positions", "listing", "checking", "tick"}

(* What the file holds: orders that were open when it was written. *)
SavedRecords == {order \in OrderRecords : order.state \notin Terminal}
NoOrders     == [id \in OrderIds |-> NoOrder]

RecoveryTypeOK ==
  /\ TypeOK
  /\ file \in [OrderIds -> SavedRecords] /\ draft \in [OrderIds -> SavedRecords]
  /\ phase \in Phases
  /\ recovered \in BOOLEAN
  /\ writer \in {"off", "idle", "writing"}
  /\ remote \subseteq ExtIds /\ found \subseteq ExtIds
  /\ recKey \in [ExtIds -> RecoveredKeys]
  /\ issued \in [OrderIds -> Keys \cup {None}]
  /\ boots \in 0..MaxBoots

-----------------------------------------------------------------------------
(* Snapshot *)

(* buildSnapshot: the open orders of the store. *)
SnapshotAll == orders                                               \* mutant
Snapshot == [id \in OrderIds |-> IF IsOpenOrder(id) THEN orders[id] ELSE NoOrder]

(***************************************************************************)
(* A timer or a flush that finds a write in flight returns.  (A write that *)
(* would leave the file as it is is left out.)                             *)
(***************************************************************************)
WriteBegins ==
  /\ writer = "idle"
  /\ Snapshot # file
  /\ writer' = "writing"
  /\ draft' = Snapshot
  /\ UNCHANGED <<engineVars, diskVars, processVars, ghostVars>>

(* The rename replaces the file as a whole; a failed write leaves it. *)
WriteEnds(ok) ==
  /\ writer = "writing"
  /\ ok \/ ApiMayFail
  /\ writer' = "idle"
  /\ draft' = NoOrders
  /\ file' = IF ok THEN draft ELSE file
  /\ UNCHANGED <<engineVars, recKey, processVars, ghostVars>>

-----------------------------------------------------------------------------
(* Crash and boot *)

Crash ==
  /\ phase # "down"
  /\ boots < MaxBoots
  /\ orders' = NoOrders
  /\ latest' = [key \in Keys |-> None]
  /\ extIndex' = [e \in ExtIds |-> None]
  /\ marked' = {} /\ tracked' = {} /\ rejects' = 0 /\ riskHalted' = FALSE
  /\ apiErrors' = 0 /\ killed' = FALSE
  /\ calls' = [calls EXCEPT ![Tick] = IdleCall]
  /\ phase' = "down" /\ recovered' = FALSE /\ remote' = {}
  /\ writer' = "off" /\ draft' = NoOrders
  /\ UNCHANGED <<exchangeVars, diskVars, ghostVars>>

(***************************************************************************)
(* applySnapshot: the orders of the file enter the store as they were      *)
(* written, and their keys the deduper.  They come in the order of their   *)
(* creation, and of two records of one external id the later one is        *)
(* indexed: that is the one an earlier recovery made.                      *)
(***************************************************************************)
RestoredIds == {id \in OrderIds : file[id] # NoOrder}

LastRestored(ids) ==
  CHOOSE id \in ids : file[id].key \in RecoveredKeys
                        \/ \A other \in ids : file[other].key \notin RecoveredKeys

RestoredAt(field, value) ==
  LET ids == {id \in RestoredIds : file[id][field] = value} IN
  IF ids = {} THEN None ELSE LastRestored(ids)

(* init: the snapshot is applied and the recovery asks for the open orders. *)
Boot ==
  /\ phase = "down"
  /\ boots' = boots + 1
  /\ orders' = file
  /\ latest' = [key \in Keys |-> RestoredAt("key", key)]
  /\ extIndex' = [e \in ExtIds |-> RestoredAt("ext", e)]
  /\ marked' = {file[id].key : id \in RestoredIds}
  /\ SetCall(Tick, Call("openOrders", None, None, None, {}))
  /\ phase' = "recovery"
  /\ UNCHANGED <<riskVars, switchVars, exchangeVars, diskVars, recovered, remote,
                 writerVars, issued, found>>

-----------------------------------------------------------------------------
(* runStartupRecovery *)

(***************************************************************************)
(* names gives the remote orders that get a record their new order ids:    *)
(* none whose key has an open record already, and one of those that share  *)
(* a key, the first in the list.                                           *)
(***************************************************************************)
Named(names) == {e \in ExtIds : names[e] # None}

(* An order id is new in every process: it contains the time. *)
Fresh(id) == orders[id] = NoOrder /\ issued[id] = None

NamesFirst(listed, names) ==                                        \* mutant
  LET new == Named(names) IN
  /\ new \subseteq listed
  /\ \A e \in new : Fresh(names[e])
  /\ \A e, f \in new : e = f
  /\ listed # {} => new # {}

Names(listed, names) ==
  LET new == Named(names) IN
  /\ new \subseteq listed
  /\ \A e \in new : Fresh(names[e]) /\ ~HasSignalKey(recKey[e])
  /\ \A e, f \in new : names[e] = names[f] \/ recKey[e] = recKey[f] => e = f
  /\ \A e \in listed \ new :
       HasSignalKey(recKey[e]) \/ \E f \in new : recKey[f] = recKey[e]

(***************************************************************************)
(* Every registered order is walked to ORDER_PLACED, or on to PARTIAL_FILL *)
(* (both are working states, the model keeps the first).  A wallet request *)
(* for a position may fail, or a remote order may have a bad shape: then   *)
(* the recovery is not ok.                                                 *)
(***************************************************************************)
RecoveryReturns(names, ok) ==
  LET listed == calls[Tick].seen
      records(id) == {e \in Named(names) : names[e] = id}
  IN
  /\ phase = "recovery"
  /\ Answered(Tick)
  /\ ok \/ ApiMayFail
  /\ Names(listed, names)
  /\ orders' = [id \in OrderIds |->
       IF records(id) = {} THEN orders[id]
       ELSE LET e == CHOOSE e \in records(id) : TRUE IN
            [state |-> OrderPlaced, key |-> recKey[e], ext |-> e]]
  /\ latest' = [key \in Keys |->
       LET hits == {e \in Named(names) : recKey[e] = key} IN
       IF hits = {} THEN latest[key] ELSE names[CHOOSE e \in hits : TRUE]]
  /\ extIndex' = [e \in ExtIds |-> IF names[e] # None THEN names[e] ELSE extIndex[e]]
  /\ marked' = marked \cup {recKey[e] : e \in Named(names)}
  /\ tracked' = listed
  /\ RecordApiSuccess
  /\ recovered' = ok
  /\ found' = listed
  /\ issued' = [id \in OrderIds |-> IF records(id) = {} THEN issued[id] ELSE orders'[id].key]
  /\ phase' = "positions"
  /\ Return(Tick)
  /\ UNCHANGED <<rejects, riskHalted, killed, exchangeVars, diskVars, remote,
                 writerVars, boots>>

(* getOpenOrders threw: the process goes on, and no tick of it will trade. *)
RecoveryFails ==
  /\ phase = "recovery"
  /\ ApiMayFail
  /\ tracked' = {}
  /\ RecordApiFailure
  /\ phase' = "positions"
  /\ Return(Tick)
  /\ UNCHANGED <<storeVars, marked, rejects, riskHalted, killed, exchangeVars,
                 diskVars, recovered, remote, writerVars, issued, found, boots>>

-----------------------------------------------------------------------------
(* Reconciliation: syncPositions, without its positions *)

(* What a tick needs to go beyond its guards. *)
Trading == recovered /\ ~killed /\ ~riskHalted

(* At the end of init, whether the recovery was ok or not, and in ticks that trade. *)
ReconcileBegins ==
  /\ phase = "positions" \/ (phase = "tick" /\ Trading)
  /\ Idle(Tick)
  /\ SetCall(Tick, Call("openOrders", None, None, None, {}))
  /\ phase' = "listing"
  /\ UNCHANGED <<storeVars, marked, riskVars, switchVars, exchangeVars, diskVars,
                 recovered, remote, writerVars, ghostVars>>

(* The open orders whose external id the exchange did not list. *)
Unlisted(listed) == {id \in OrderIds : /\ IsOpenOrder(id)
                                       /\ orders[id].ext # None
                                       /\ orders[id].ext \notin listed}

(***************************************************************************)
(* Listed orders keep working, filled in part or not (fill_drift); the     *)
(* others are asked for one by one.  A request that threw leaves the list  *)
(* empty, and the pass goes on with it.                                    *)
(***************************************************************************)
StartChecks(listed) ==
  /\ remote' = listed
  /\ phase' = "checking"
  /\ SetCall(Tick, [IdleCall EXCEPT !.queue = Unlisted(listed)])
  /\ UNCHANGED <<storeVars, marked, riskVars, rejects, killed, exchangeVars, diskVars,
                 recovered, writerVars, ghostVars>>

ReconcileListed ==
  /\ phase = "listing"
  /\ Answered(Tick)
  /\ RecordApiSuccess
  /\ StartChecks(calls[Tick].seen)

ReconcileUnlisted ==
  /\ phase = "listing"
  /\ ApiMayFail
  /\ RecordApiFailure
  /\ StartChecks({})

CheckNext(id) ==
  /\ phase = "checking"
  /\ Idle(Tick)
  /\ id \in calls[Tick].queue
  /\ SetCall(Tick, Call("status", None, id, orders[id].ext, calls[Tick].queue \ {id}))
  /\ UNCHANGED <<storeVars, marked, riskVars, switchVars, exchangeVars, diskVars,
                 processVars, writerVars, ghostVars>>

(* An order the exchange has closed is closed in the store; "open" changes nothing. *)
StateOf(reply) == IF reply = "filled" THEN Filled ELSE Cancelled
AnyReply(reply)   == TRUE                                           \* mutant
FinalReply(reply) == reply # "open"

NextCheck == SetCall(Tick, [IdleCall EXCEPT !.queue = calls[Tick].queue])

CheckReturns ==
  LET id == calls[Tick].id IN
  /\ phase = "checking"
  /\ At(Tick, "status") /\ Answered(Tick)
  /\ RecordApiSuccess
  /\ IF FinalReply(calls[Tick].reply) /\ IsOpenOrder(id)
       THEN /\ orders' = Transitioned(id, StateOf(calls[Tick].reply))
            /\ tracked' = tracked \ {calls[Tick].ext}
       ELSE UNCHANGED <<orders, tracked>>
  /\ NextCheck
  /\ UNCHANGED <<latest, extIndex, marked, rejects, riskHalted, killed, exchangeVars,
                 diskVars, processVars, writerVars, ghostVars>>

CheckFails ==
  /\ phase = "checking"
  /\ ApiMayFail
  /\ At(Tick, "status")
  /\ RecordApiFailure
  /\ NextCheck
  /\ UNCHANGED <<storeVars, marked, riskVars, killed, exchangeVars, diskVars,
                 processVars, writerVars, ghostVars>>

(***************************************************************************)
(* The open-order set is replaced by the list; remote orders without a     *)
(* record are logged.  The pass at the end of init is over before the      *)
(* snapshot writer starts.                                                 *)
(***************************************************************************)
ReconcileEnds ==
  /\ phase = "checking"
  /\ Idle(Tick)
  /\ calls[Tick].queue = {}
  /\ tracked' = remote
  /\ remote' = {}
  /\ phase' = "tick"
  /\ writer' = IF writer = "off" THEN "idle" ELSE writer
  /\ UNCHANGED <<storeVars, marked, rejects, riskHalted, switchVars, calls,
                 exchangeVars, diskVars, recovered, draft, ghostVars>>

-----------------------------------------------------------------------------
(* The tick, when no pass is in progress *)

(***************************************************************************)
(* A tick trades only in a process whose recovery was ok.  The deduper's   *)
(* entries do not expire here: a key names a time bucket shorter than      *)
(* their time to live, so it does not come again after its entry expired.  *)
(***************************************************************************)
TickCalls ==
  \/ Trading /\ \E key \in SignalKeys : PlaceBegin(Tick, key)
  \/ Trading /\ \E stale \in SUBSET OrderIds : CancelStaleBegin(Tick, stale)
  \/ Trading /\ OpenOrdersBegin(Tick)
  \/ recovered /\ HaltAndCancelAll(Tick, FALSE)

(* An order made now gets an id that no process has used. *)
Issues ==
  /\ \A id \in OrderIds : orders[id] = NoOrder /\ ~Fresh(id) => orders'[id] = NoOrder
  /\ issued' = [id \in OrderIds |->
       IF orders[id] = NoOrder /\ orders'[id] # NoOrder THEN orders'[id].key ELSE issued[id]]

TickStep ==
  /\ phase = "tick"
  /\ TickCalls \/ Continue(Tick)
  /\ Issues
  /\ UNCHANGED <<diskVars, processVars, writerVars, found, boots>>

ExchangeMoves ==
  /\ \/ \E id \in OrderIds, e \in ExtIds : ExchangeAccepts(id, e)
     \/ \E id \in OrderIds : ExchangeDrops(id)
     \/ \E e \in ExtIds, st \in Closings : ExchangeCloses(e, st)
     \/ Respond(Tick)
  /\ UNCHANGED <<diskVars, processVars, writerVars, ghostVars>>

-----------------------------------------------------------------------------
(* Specification *)

RecoveryInit ==
  /\ Init
  /\ file = NoOrders /\ draft = NoOrders /\ writer = "off"
  /\ phase = "down" /\ recovered = FALSE /\ remote = {}
  /\ recKey \in [ExtIds -> RecoveredKeys]
  /\ issued = [id \in OrderIds |-> None]
  /\ found = {}
  /\ boots = 0

RecoveryStep ==
  \/ \E names \in [ExtIds -> OrderIds \cup {None}], ok \in BOOLEAN : RecoveryReturns(names, ok)
  \/ RecoveryFails

ReconcileStep ==
  \/ ReconcileListed \/ ReconcileUnlisted
  \/ \E id \in OrderIds : CheckNext(id)
  \/ CheckReturns \/ CheckFails
  \/ ReconcileEnds

RecoveryNext ==
  \/ Boot \/ Crash
  \/ RecoveryStep
  \/ ReconcileBegins \/ ReconcileStep
  \/ TickStep
  \/ WriteBegins
  \/ \E ok \in BOOLEAN : WriteEnds(ok)
  \/ ExchangeMoves

RecoverySpec == RecoveryInit /\ [][RecoveryNext]_vars

-----------------------------------------------------------------------------
(* Properties *)

(***************************************************************************)
(* A recovery forgets no order: one that was open when the exchange listed *)
(* it, and still is, has a working record in the store, unless another     *)
(* order gives the same recovery key.  The records of the snapshot, stale  *)
(* as they may be, never stand in for the order, and the passes that       *)
(* follow close no record of an order that is open.                        *)
(***************************************************************************)
KnownAfterRecovery ==
  recovered /\ ~killed => \A e \in found :
    exchange[e].st = "open" =>
      \/ extIndex[e] # None /\ IsWorking(extIndex[e])
      \/ \E f \in ExtIds \ {e} : recKey[f] = recKey[e]

(***************************************************************************)
(* Until the kill switch trips, no record of an order that rests on the    *)
(* exchange says it is closed: not the restored one, nor the one that      *)
(* recovery made for the same order.                                       *)
(***************************************************************************)
ClosedRecordsAreGone ==
  ~killed => \A id \in OrderIds :
    orders[id].state \in {Filled, Cancelled} /\ orders[id].ext # None =>
      exchange[orders[id].ext].st # "open"

(***************************************************************************)
(* startupRecovery.js:5-8: after a restart the bot must not place          *)
(* duplicate orders for signals that were already acted on.  So two orders *)
(* made for one signal, by whatever process, should never both rest on the *)
(* exchange.                                                               *)
(***************************************************************************)
NoDuplicateAfterRestart ==
  \A e, f \in ExtIds :
    /\ exchange[e].st = "open" /\ exchange[f].st = "open"
    /\ issued[exchange[e].by] = issued[exchange[f].by]
    => e = f

=============================================================================
