-------------------------- MODULE EventLoopProofs --------------------------
(***************************************************************************)
(* What the event loop keeps true, for any keys, ids, limits and signals.  *)
(* Every step of the loop is a step of the execution engine or changes     *)
(* nothing the engine knows of, so what is proved of the engine holds of   *)
(* the loop; the properties of the loop itself follow from LoopInv.        *)
(***************************************************************************)
EXTENDS EventLoop, ExecutionEngineProofs, FiniteSetTheorems

USE CallersAssumption, NoneAssumption, IdsAssumption
USE DEF Absent, SignalDetected, OrderPlaced, PartialFill, Filled, Cancelled, Failed,
        Terminal, Working, Open, States

-----------------------------------------------------------------------------
(* The loop drives the engine. *)

(* A step of the tick is a call of the engine, or changes nothing there. *)
LEMMA TickDrives ==
  ASSUME LoopTypeOK, TickStep PROVE Begin(Tick) \/ UNCHANGED engineVars
<1>1. CASE TickHalts \/ TickPasses \/ NextRecommendation \/ TickEnds
  BY <1>1 DEF TickHalts, TickPasses, NextRecommendation, TickEnds, Begin
<1>2. CASE Housekeeping
  <2>1. {id \in aged : IsWorking(id)} \in SUBSET OrderIds
    BY DEF LoopTypeOK, LoopVarsOK
  <2> QED BY <1>2, <2>1 DEF Housekeeping, Begin
<1>3. CASE Polling
  BY <1>3 DEF Polling, Begin
<1>4. CASE PlaceRecommendation
  BY <1>4 DEF PlaceRecommendation, Begin
<1> QED BY <1>1, <1>2, <1>3, <1>4 DEF TickStep

(* So is a step of a shutdown handler. *)
LEMMA StopDrives ==
  ASSUME NEW s \in Signals, StopStep(s) PROVE Begin(s) \/ UNCHANGED engineVars
  BY DEF StopStep, StopBegin, StopFlush, StopDone, Begin

(* Every step of the loop is a step of the engine or changes nothing there. *)
LEMMA LoopDrives ==
  ASSUME LoopTypeOK, [LoopNext]_vars PROVE [Next]_engineVars
<1>1. CASE TickStep
  BY <1>1, TickDrives DEF Next
<1>2. CASE \E s \in Signals : StopStep(s)
  BY <1>2, StopDrives DEF Next
<1>3. CASE ExitStep
  BY <1>3 DEF ExitStep, Exit
<1>4. CASE \E c \in Callers : EngineStep(c)
  BY <1>4 DEF EngineStep, Next
<1>5. CASE ExchangeMoves
  BY <1>5 DEF ExchangeMoves, Next
<1>6. CASE KeyOrDayPasses
  BY <1>6 DEF KeyOrDayPasses, Clock, Next
<1>7. CASE \E id \in OrderIds : OrderAges(id)
  BY <1>7 DEF OrderAges
<1>8. CASE UNCHANGED vars
  BY <1>8 DEF vars
<1> QED BY <1>1, <1>2, <1>3, <1>4, <1>5, <1>6, <1>7, <1>8 DEF LoopNext

(* The tick keeps the types of the loop's variables. *)
LEMMA TickTypes ==
  ASSUME LoopVarsOK, TickStep PROVE LoopVarsOK'
<1>1. /\ aged' \subseteq OrderIds /\ stuck' \subseteq aged'
      /\ UNCHANGED <<stops, exited>>
  BY DEF LoopVarsOK, TickStep, KeepAges
<1>2. pc' \in {"sleep", "halted", "housekeeping", "polling", "recs", "translate"}
  <2>1. /\ TickHalts => Goto("halted")
        /\ TickPasses => Goto("housekeeping")
        /\ Housekeeping => Goto("polling")
        /\ Polling \/ PlaceRecommendation => Goto("recs")
        /\ NextRecommendation => Goto("translate")
        /\ TickEnds => Goto("sleep")
    BY DEF TickHalts, TickPasses, Housekeeping, Polling, NextRecommendation,
           PlaceRecommendation, TickEnds
  <2> QED BY <2>1 DEF TickStep, Goto
<1>3. recs' = recs \/ recs' = MaxRecs \/ (recs > 0 /\ recs' = recs - 1)
  <2>1. TickPasses => recs' = MaxRecs
    BY DEF TickPasses
  <2>2. NextRecommendation => recs > 0 /\ recs' = recs - 1
    BY DEF NextRecommendation
  <2>3. TickHalts \/ Housekeeping \/ Polling \/ PlaceRecommendation \/ TickEnds => recs' = recs
    BY DEF TickHalts, Housekeeping, Polling, PlaceRecommendation, TickEnds
  <2> QED BY <2>1, <2>2, <2>3 DEF TickStep
<1> QED BY <1>1, <1>2, <1>3, LoopAssumption DEF LoopVarsOK

(* So does everything else. *)
LEMMA OtherTypes ==
  ASSUME LoopVarsOK, [LoopNext]_vars, ~TickStep PROVE LoopVarsOK'
<1>1. /\ UNCHANGED <<pc, recs>>
      /\ stops' \in [Signals -> {"none", "cancelling", "flushing", "done"}]
      /\ exited' \in BOOLEAN
  BY DEF LoopVarsOK, LoopNext, StopStep, StopBegin, StopFlush, StopDone, SetStop, ExitStep,
         Exit, EngineStep, ExchangeMoves, KeyOrDayPasses, OrderAges, vars, loopVars
<1>2. aged' \subseteq OrderIds /\ stuck' \subseteq aged'
  <2>1. CASE \E id \in OrderIds : OrderAges(id)
    BY <2>1 DEF LoopVarsOK, OrderAges
  <2>2. CASE KeepAges
    BY <2>2 DEF LoopVarsOK, KeepAges
  <2>3. CASE UNCHANGED vars
    BY <2>3 DEF LoopVarsOK, vars
  <2> QED BY <2>1, <2>2, <2>3 DEF LoopNext, StopStep, ExitStep, EngineStep, ExchangeMoves,
             KeyOrDayPasses
<1> QED BY <1>1, <1>2 DEF LoopVarsOK

-----------------------------------------------------------------------------
(* What LoopInv asks of a step. *)

NoNewWorking ==
  \A id \in OrderIds : orders'[id].state \in Working => orders[id].state \in Working

(* The exchange opens only orders that were on the wire. *)
BookShrinks ==
  \A e \in ExtIds : exchange'[e].st = "open" =>
    exchange'[e] = exchange[e] \/ exchange'[e].by \in wire

(* An order that closes is not open at the exchange. *)
ClosesWhatIsGone ==
  \A id \in OrderIds : orders'[id].state \in {Filled, Cancelled} =>
    \/ orders[id].state \in {Filled, Cancelled}
    \/ \A e \in ExtIds : exchange'[e].by = id => exchange'[e].st # "open"

(* Then no order starts to be live. *)
LEMMA LiveShrinks ==
  ASSUME EngineInv, EngineInv', NoNewWorking, BookShrinks
  PROVE  LiveWorking' \subseteq LiveWorking
<1> SUFFICES ASSUME NEW e \in ExtIds, exchange'[e].st = "open",
                    orders'[exchange'[e].by].state \in Working
             PROVE  exchange[e].st = "open" /\ IsWorking(exchange[e].by)
  BY DEF LiveWorking, IsWorking
<1>1. PICK id \in OrderIds : id = exchange'[e].by
  BY DEF EngineInv, TypeOK, ExchangeRecords, WireAndBook
<1>2. orders[id].state \in Working
  BY <1>1 DEF NoNewWorking
<1>3. id \notin wire
  BY <1>2 DEF EngineInv, WireAndBook
<1>4. exchange'[e] = exchange[e]
  BY <1>1, <1>3 DEF BookShrinks
<1> QED BY <1>1, <1>2, <1>4 DEF IsWorking

(* And what is recorded as closed is still gone. *)
LEMMA StillGone ==
  ASSUME EngineInv, EngineInv', ClosedIsGone, NoStop' => NoStop, BookShrinks, ClosesWhatIsGone
  PROVE  ClosedIsGone'
<1> SUFFICES ASSUME NoStop, NEW e \in ExtIds, exchange'[e].st = "open",
                    orders'[exchange'[e].by].state \in {Filled, Cancelled}
             PROVE  FALSE
  BY DEF ClosedIsGone
<1>1. PICK id \in OrderIds : id = exchange'[e].by
  BY DEF EngineInv, TypeOK, ExchangeRecords, WireAndBook
<1>2. orders[id].state \in {Filled, Cancelled}
  BY <1>1 DEF ClosesWhatIsGone
<1>3. id \notin wire \/ orders[id].state = Failed
  BY <1>2 DEF EngineInv, WireAndBook
<1> QED BY <1>1, <1>2, <1>3 DEF BookShrinks, ClosedIsGone

(* The parts of LoopInv that count follow when the live orders shrink. *)
LEMMA InvKept ==
  ASSUME LoopInv, EngineInv', LoopVarsOK', SignalsSweep', ClosedIsGone',
         LiveWorking' \subseteq LiveWorking, LiveWorking' \subseteq tracked',
         ListCovers', SweptClean',
         At(Tick, "submit")' => Cardinality(LiveWorking) < MaxConcurrent
  PROVE  LoopInv'
<1>1. /\ Cardinality(LiveWorking) \in Nat /\ Cardinality(LiveWorking') \in Nat
      /\ Cardinality(LiveWorking') <= Cardinality(LiveWorking)
  <2>1. IsFiniteSet(LiveWorking)
    BY FiniteAssumption, FS_Subset DEF LiveWorking
  <2> QED BY <2>1, FS_Subset, FS_CardinalityType
<1>2. MaxConcurrent \in Nat
  BY LimitsAssumption
<1>3. SubmitHasRoom' /\ ConcurrencyCap'
  BY <1>1, <1>2 DEF LoopInv, SubmitHasRoom, ConcurrencyCap
<1> QED
  BY <1>3 DEF LoopInv, LoopTypeOK, EngineInv, TrackedCoversLive

(***************************************************************************)
(* A step of one caller that moves no order: the new call is not yet       *)
(* answered, and it is no submission.                                      *)
(***************************************************************************)
LEMMA CallerMoves ==
  ASSUME LoopInv, EngineInv', LoopVarsOK', SignalsSweep', NEW c \in Callers,
         \A d \in Callers : d # c => calls'[d] = calls[d],
         calls'[c].op # "submit", ~calls'[c].done,
         NoStop' => NoStop, UNCHANGED <<orders, tracked, exchange>>
  PROVE  LoopInv'
<1>1. NoNewWorking /\ BookShrinks /\ ClosesWhatIsGone
  BY DEF NoNewWorking, BookShrinks, ClosesWhatIsGone
<1>2. LiveWorking' = LiveWorking
  BY DEF LiveWorking, IsWorking
<1>3. /\ At(Tick, "submit")' => At(Tick, "submit")
      /\ At(Tick, "openOrders")' /\ calls'[Tick].done => calls'[Tick] = calls[Tick]
      /\ At(Tick, "cancelAll")' /\ calls'[Tick].done => calls'[Tick] = calls[Tick]
  BY DEF At
<1>4. ListCovers' /\ SweptClean'
  BY <1>2, <1>3 DEF LoopInv, ListCovers, SweptClean, At
<1>5. ClosedIsGone'
  BY <1>1, StillGone DEF LoopInv
<1> QED
  BY <1>2, <1>3, <1>4, <1>5, InvKept DEF LoopInv, SubmitHasRoom, TrackedCoversLive

-----------------------------------------------------------------------------
(* Steps that no caller takes. *)

(* Orders, calls and the tracked set stay; the exchange's book shrinks. *)
LEMMA WorldMoves ==
  ASSUME LoopInv, EngineInv', LoopVarsOK', SignalsSweep',
         NoStop' => NoStop, BookShrinks, UNCHANGED <<orders, tracked, calls>>
  PROVE  LoopInv'
<1>1. NoNewWorking /\ ClosesWhatIsGone
  BY DEF NoNewWorking, ClosesWhatIsGone
<1>2. LiveWorking' \subseteq LiveWorking /\ ClosedIsGone'
  BY <1>1, LiveShrinks, StillGone DEF LoopInv
<1>3. ListCovers' /\ SweptClean'
  BY <1>2 DEF LoopInv, ListCovers, SweptClean, At
<1> QED
  BY <1>2, <1>3, InvKept DEF LoopInv, SubmitHasRoom, TrackedCoversLive, At

(* The exchange without a call: it accepts, loses and closes orders. *)
LEMMA ExchangeAloneKeeps ==
  ASSUME LoopInv, EngineInv', LoopVarsOK', UNCHANGED stops,
         \/ \E id \in OrderIds, e \in ExtIds : ExchangeAccepts(id, e)
         \/ \E id \in OrderIds : ExchangeDrops(id)
         \/ \E e \in ExtIds, st \in {"filled", "cancelled"} : ExchangeCloses(e, st)
  PROVE  LoopInv'
<1>1. UNCHANGED <<orders, tracked, calls>>
  BY DEF ExchangeAccepts, ExchangeDrops, ExchangeCloses, ExchangeStep, storeVars, riskVars
<1>2. BookShrinks
  <2>1. ASSUME NEW id \in OrderIds, NEW e \in ExtIds, ExchangeAccepts(id, e)
        PROVE  BookShrinks
    <3>1. /\ id \in wire
          /\ exchange' = [exchange EXCEPT ![e] = [st |-> "open", by |-> id]]
      BY <2>1 DEF ExchangeAccepts
    <3> QED BY <3>1 DEF BookShrinks, LoopInv, EngineInv, TypeOK
  <2>2. ASSUME NEW id \in OrderIds, ExchangeDrops(id)
        PROVE  BookShrinks
    BY <2>2 DEF ExchangeDrops, BookShrinks
  <2>3. ASSUME NEW e \in ExtIds, NEW st \in {"filled", "cancelled"}, ExchangeCloses(e, st)
        PROVE  BookShrinks
    BY <2>3 DEF ExchangeCloses, Book, Closed, BookShrinks, LoopInv, EngineInv, TypeOK
  <2> QED BY <2>1, <2>2, <2>3
<1>3. SignalsSweep' /\ (NoStop' => NoStop)
  BY <1>1 DEF LoopInv, SignalsSweep, Idle, NoStop
<1> QED BY <1>1, <1>2, <1>3, WorldMoves

(* The clock. *)
LEMMA ClockKeepsLoop ==
  ASSUME LoopInv, EngineInv', LoopVarsOK', UNCHANGED stops,
         Clock \/ UNCHANGED engineVars
  PROVE  LoopInv'
<1>1. UNCHANGED <<orders, tracked, calls, exchange>>
  BY DEF Clock, KeyExpires, DayRolls, storeVars, riskVars, exchangeVars, engineVars
<1>2. SignalsSweep' /\ (NoStop' => NoStop) /\ BookShrinks
  BY <1>1 DEF LoopInv, SignalsSweep, Idle, NoStop, BookShrinks
<1> QED BY <1>1, <1>2, WorldMoves

-----------------------------------------------------------------------------
(* The exchange answers a call. *)

(* The call of c has its answer; nobody else's call and no order changes. *)
LEMMA AnswerKeepsLoop ==
  ASSUME LoopInv, EngineInv', LoopVarsOK', UNCHANGED stops,
         NEW c \in Callers, NEW seen \in SUBSET ExtIds, NEW reply,
         calls' = [calls EXCEPT ![c] = Answer(calls[c], seen, reply)],
         UNCHANGED <<orders, tracked>>, BookShrinks,
         ~At(c, "submit"),
         At(c, "openOrders") => LiveWorking' \subseteq seen,
         At(c, "cancelAll") => LiveWorking' = {}
  PROVE  LoopInv'
<1>1. NoNewWorking /\ ClosesWhatIsGone /\ (NoStop' => NoStop)
  BY DEF NoNewWorking, ClosesWhatIsGone, NoStop
<1>2. LiveWorking' \subseteq LiveWorking /\ ClosedIsGone'
  BY <1>1, LiveShrinks, StillGone DEF LoopInv
<1>3. /\ calls'[c].op = calls[c].op /\ calls'[c].seen = seen
      /\ \A d \in Callers : d # c => calls'[d] = calls[d]
  BY DEF Answer, LoopInv, EngineInv, TypeOK
<1>4. SignalsSweep'
  BY <1>3 DEF LoopInv, SignalsSweep, Idle
<1>5. ListCovers' /\ SweptClean'
  <2>1. CASE c = Tick
    BY <1>3, <2>1 DEF ListCovers, SweptClean, At
  <2>2. CASE c # Tick
    BY <1>1, <1>2, <1>3, <2>2 DEF LoopInv, ListCovers, SweptClean, At
  <2> QED BY <2>1, <2>2
<1>6. At(Tick, "submit")' => Cardinality(LiveWorking) < MaxConcurrent
  BY <1>3 DEF LoopInv, SubmitHasRoom, At
<1> QED
  BY <1>2, <1>4, <1>5, <1>6, InvKept DEF LoopInv, TrackedCoversLive

(* Cancels, cancel-all, the list of open orders and the status of one. *)
LEMMA RespondKeepsLoop ==
  ASSUME LoopInv, EngineInv', LoopVarsOK', UNCHANGED stops,
         NEW c \in Callers, Respond(c)
  PROVE  LoopInv'
<1>1. CASE ExchangeCancels(c)
  <2>1. /\ calls' = [calls EXCEPT ![c] = Answer(calls[c], {}, "none")]
        /\ UNCHANGED <<orders, tracked>>
        /\ ~At(c, "submit") /\ ~At(c, "openOrders") /\ ~At(c, "cancelAll")
    BY <1>1 DEF ExchangeCancels, SetCall, ExchangeStep, storeVars, riskVars, At
  <2>2. BookShrinks
    BY <1>1 DEF ExchangeCancels, Book, Closed, BookShrinks, LoopInv, EngineInv, TypeOK
  <2> QED BY <2>1, <2>2, AnswerKeepsLoop
<1>2. CASE ExchangeCancelsAll(c)
  <2>1. /\ calls' = [calls EXCEPT ![c] = Answer(calls[c], {}, "none")]
        /\ UNCHANGED <<orders, tracked>>
        /\ ~At(c, "submit") /\ ~At(c, "openOrders")
    BY <1>2 DEF ExchangeCancelsAll, SetCall, ExchangeStep, storeVars, riskVars, At
  <2>2. \A e \in ExtIds : exchange'[e].st # "open"
    BY <1>2 DEF ExchangeCancelsAll, Closed, LoopInv, EngineInv, TypeOK
  <2>3. BookShrinks /\ LiveWorking' = {}
    BY <2>2 DEF BookShrinks, LiveWorking
  <2> QED BY <2>1, <2>3, AnswerKeepsLoop
<1>3. CASE ExchangeLists(c)
  <2> DEFINE seen == {e \in ExtIds : exchange[e].st = "open"}
  <2>1. /\ calls' = [calls EXCEPT ![c] = Answer(calls[c], seen, "none")]
        /\ UNCHANGED <<orders, tracked, exchange>>
        /\ ~At(c, "submit") /\ ~At(c, "cancelAll")
    BY <1>3 DEF ExchangeLists, SetCall, ExchangeStep, storeVars, riskVars, exchangeVars, At
  <2>2. BookShrinks /\ LiveWorking' \subseteq seen /\ seen \in SUBSET ExtIds
    BY <2>1 DEF BookShrinks, LiveWorking
  <2> HIDE DEF seen
  <2> QED BY <2>1, <2>2, AnswerKeepsLoop
<1>4. CASE ExchangeReports(c)
  <2>1. /\ \E reply : calls' = [calls EXCEPT ![c] = Answer(calls[c], {}, reply)]
        /\ UNCHANGED <<orders, tracked, exchange>>
        /\ ~At(c, "submit") /\ ~At(c, "openOrders") /\ ~At(c, "cancelAll")
    BY <1>4 DEF ExchangeReports, SetCall, ExchangeStep, storeVars, riskVars, exchangeVars, At
  <2>2. BookShrinks
    BY <2>1 DEF BookShrinks
  <2> QED BY <2>1, <2>2, AnswerKeepsLoop
<1> QED BY <1>1, <1>2, <1>3, <1>4 DEF Respond

-----------------------------------------------------------------------------
(* The tick makes a call, and a signal arrives. *)

(* A call of the tick that moves no order: its request is not yet answered. *)
LEMMA TickMoves ==
  ASSUME LoopInv, EngineInv', LoopVarsOK', UNCHANGED stops,
         NEW call, SetCall(Tick, call), call.op # "submit", ~call.done,
         UNCHANGED <<orders, tracked, exchange>>
  PROVE  LoopInv'
<1>1. /\ calls'[Tick] = call
      /\ \A d \in Callers : d # Tick => calls'[d] = calls[d]
  BY DEF SetCall, LoopInv, EngineInv, TypeOK
<1>2. SignalsSweep' /\ (NoStop' => NoStop)
  BY <1>1 DEF LoopInv, SignalsSweep, Idle, NoStop
<1> QED BY <1>1, <1>2, CallerMoves

(* The calls of Call and Answer, and the idle one. *)
LEMMA CallFields ==
  ASSUME NEW op, NEW key, NEW id, NEW ext, NEW queue
  PROVE  /\ Call(op, key, id, ext, queue).op = op
         /\ Call(op, key, id, ext, queue).done = FALSE
         /\ IdleCall.op = "idle" /\ IdleCall.done = FALSE
         /\ StillToCancel(queue).op \in {"idle", "stale"}
         /\ StillToCancel(queue).done = FALSE
  BY DEF Call, IdleCall, StillToCancel

(* The calls that the tick makes. *)
TickCalls ==
  \/ HaltAndCancelAll(Tick, FALSE)
  \/ \E stale \in SUBSET OrderIds : CancelStaleBegin(Tick, stale)
  \/ OpenOrdersBegin(Tick)
  \/ \E key \in Keys : PlaceBegin(Tick, key)

(* Each of them keeps LoopInv. *)
LEMMA TickCallsKeep ==
  ASSUME LoopInv, EngineInv', LoopVarsOK', UNCHANGED stops, TickCalls
  PROVE  LoopInv'
<1>1. UNCHANGED <<orders, tracked, exchange>>
  BY DEF TickCalls, HaltAndCancelAll, CancelStaleBegin, OpenOrdersBegin, PlaceBegin,
         storeVars, riskVars, exchangeVars
<1>2. CASE HaltAndCancelAll(Tick, FALSE)
  BY <1>1, <1>2, CallFields, TickMoves DEF HaltAndCancelAll
<1>3. CASE \E stale \in SUBSET OrderIds : CancelStaleBegin(Tick, stale)
  BY <1>1, <1>3, CallFields, TickMoves DEF CancelStaleBegin
<1>4. CASE OpenOrdersBegin(Tick)
  BY <1>1, <1>4, CallFields, TickMoves DEF OpenOrdersBegin
<1>5. CASE \E key \in Keys : PlaceBegin(Tick, key)
  BY <1>1, <1>5, CallFields, TickMoves DEF PlaceBegin
<1> QED BY <1>2, <1>3, <1>4, <1>5 DEF TickCalls

(* A step of the tick is one of these calls, or changes nothing of the engine. *)
LEMMA TickKeeps ==
  ASSUME LoopInv, EngineInv', LoopVarsOK', TickStep
  PROVE  LoopInv'
<1>1. TickCalls \/ UNCHANGED engineVars
  <2>1. CASE TickHalts \/ TickPasses \/ NextRecommendation \/ TickEnds
    BY <2>1 DEF TickHalts, TickPasses, NextRecommendation, TickEnds, TickCalls
  <2>2. CASE Housekeeping
    <3>1. {id \in aged : IsWorking(id)} \in SUBSET OrderIds
      BY DEF LoopInv, LoopTypeOK, LoopVarsOK
    <3> QED BY <2>2, <3>1 DEF Housekeeping, TickCalls
  <2>3. CASE Polling
    BY <2>3 DEF Polling, TickCalls
  <2>4. CASE PlaceRecommendation
    BY <2>4 DEF PlaceRecommendation, TickCalls
  <2> QED BY <2>1, <2>2, <2>3, <2>4 DEF TickStep
<1>2. UNCHANGED stops
  BY DEF TickStep
<1> QED BY <1>1, <1>2, TickCallsKeep, ClockKeepsLoop

(* A shutdown handler starts to sweep, or goes on when its sweep is over. *)
LEMMA StopKeeps ==
  ASSUME LoopInv, EngineInv', LoopVarsOK', NEW s \in Signals, StopStep(s)
  PROVE  LoopInv'
<1>1. ~NoStop'
  BY DEF StopStep, StopBegin, StopFlush, StopDone, SetStop, NoStop, LoopInv, LoopTypeOK, LoopVarsOK
<1>2. \A r \in Signals : r # s => stops'[r] = stops[r]
  BY DEF StopStep, StopBegin, StopFlush, StopDone, SetStop, LoopInv, LoopTypeOK, LoopVarsOK
<1>3. stops'[s] # "none"
  BY DEF StopStep, StopBegin, StopFlush, StopDone, SetStop, LoopInv, LoopTypeOK, LoopVarsOK
<1>4. CASE StopBegin(s)
  <2> DEFINE call == Call("cancelAll", None, None, None, {})
  <2>1. SetCall(s, call) /\ UNCHANGED <<orders, tracked, exchange>>
    BY <1>4 DEF StopBegin, HaltAndCancelAll, storeVars, exchangeVars
  <2>2. call.op = "cancelAll" /\ ~call.done
    BY DEF Call
  <2> HIDE DEF call
  <2>3. calls'[s] = call /\ \A d \in Callers : d # s => calls'[d] = calls[d]
    BY <2>1 DEF SetCall, LoopInv, EngineInv, TypeOK
  <2>4. SignalsSweep'
    BY <1>2, <1>3, <2>2, <2>3 DEF LoopInv, SignalsSweep, Idle
  <2> QED BY <1>1, <2>1, <2>2, <2>3, <2>4, CallerMoves
<1>5. CASE StopFlush(s) \/ StopDone(s)
  <2>1. UNCHANGED <<orders, tracked, calls, exchange>>
    BY <1>5 DEF StopFlush, StopDone, engineVars
  <2>2. SignalsSweep' /\ BookShrinks
    BY <1>2, <1>3, <2>1 DEF LoopInv, SignalsSweep, Idle, BookShrinks
  <2> QED BY <1>1, <2>1, <2>2, WorldMoves
<1> QED BY <1>4, <1>5 DEF StopStep

-----------------------------------------------------------------------------
(* A suspended call runs on. *)

(* Only the tick has calls other than cancel-all. *)
LEMMA OnlyTick ==
  ASSUME LoopInv, NEW c \in Callers, ~At(c, "cancelAll"), ~Idle(c)
  PROVE  c = Tick
  BY DEF LoopInv, SignalsSweep, At, Idle

(***************************************************************************)
(* A call of the tick runs on without a submission, and orders of the tick *)
(* close: those that do are off the exchange.                              *)
(***************************************************************************)
LEMMA TickRunsOn ==
  ASSUME LoopInv, EngineInv', LoopVarsOK', UNCHANGED <<stops, exchange>>,
         NEW call, SetCall(Tick, call), call.op # "submit", ~call.done,
         NoNewWorking, ClosesWhatIsGone, LiveWorking' \subseteq tracked'
  PROVE  LoopInv'
<1>1. /\ calls'[Tick] = call
      /\ \A d \in Callers : d # Tick => calls'[d] = calls[d]
  BY DEF SetCall, LoopInv, EngineInv, TypeOK
<1>2. SignalsSweep' /\ (NoStop' => NoStop) /\ BookShrinks
  BY <1>1 DEF LoopInv, SignalsSweep, Idle, NoStop, BookShrinks
<1>3. LiveWorking' \subseteq LiveWorking /\ ClosedIsGone'
  BY <1>2, LiveShrinks, StillGone DEF LoopInv
<1>4. ListCovers' /\ SweptClean' /\ ~At(Tick, "submit")'
  BY <1>1 DEF ListCovers, SweptClean, At
<1> QED BY <1>2, <1>3, <1>4, InvKept

(* A transition to PARTIAL_FILL, FILLED, CANCELLED or FAILED makes no order work anew. *)
LEMMA ClosesNoNew ==
  ASSUME EngineInv, Closes PROVE NoNewWorking
  BY DEF Closes, NoNewWorking

(* placeOrder submits: the risk check of this very step found room. *)
LEMMA SubmitKeepsLoop ==
  ASSUME LoopInv, EngineInv', LoopVarsOK', UNCHANGED stops,
         NEW c \in Callers, NEW id \in OrderIds, PlaceSubmit(c, id)
  PROVE  LoopInv'
<1>1. c = Tick
  BY OnlyTick DEF PlaceSubmit, At, Idle
<1>2. PICK key \in Keys : Enters(id, key)
  BY SubmitEnters DEF LoopInv
<1>3. NoNewWorking /\ ClosesWhatIsGone
  BY <1>2 DEF Enters, OthersStay, NoNewWorking, ClosesWhatIsGone
<1>4. UNCHANGED <<tracked, exchange>>
  BY DEF PlaceSubmit, riskVars
<1>5. BookShrinks /\ (NoStop' => NoStop)
  BY <1>4 DEF BookShrinks, NoStop
<1>6. LiveWorking' \subseteq LiveWorking /\ ClosedIsGone'
  BY <1>3, <1>5, LiveShrinks, StillGone DEF LoopInv
<1>7. /\ calls'[Tick].op = "submit"
      /\ \A d \in Callers : d # Tick => calls'[d] = calls[d]
  BY <1>1 DEF PlaceSubmit, SetCall, Call, LoopInv, EngineInv, TypeOK
<1>8. SignalsSweep' /\ ListCovers' /\ SweptClean'
  BY <1>7 DEF LoopInv, SignalsSweep, Idle, ListCovers, SweptClean, At
<1>9. Cardinality(LiveWorking) < MaxConcurrent
  <2>1. IsFiniteSet(tracked) /\ LiveWorking \subseteq tracked
    <3>1. IsFiniteSet(ExtIds \cup OrderIds)
      BY FiniteAssumption, FS_Union
    <3> QED BY <3>1, FS_Subset DEF LoopInv, EngineInv, TypeOK, TrackedCoversLive
  <2>2. /\ Cardinality(LiveWorking) <= Cardinality(tracked)
        /\ Cardinality(LiveWorking) \in Nat /\ Cardinality(tracked) \in Nat
    BY <2>1, FS_Subset, FS_CardinalityType
  <2>3. Cardinality(tracked) < MaxConcurrent
    BY DEF PlaceSubmit, BelowOrderLimit
  <2> QED BY <2>2, <2>3, LimitsAssumption
<1> QED
  BY <1>4, <1>6, <1>8, <1>9, InvKept DEF LoopInv, TrackedCoversLive

(* placeOrder gets its answer: the order starts to work, and is tracked. *)
LEMMA AcceptedKeepsLoop ==
  ASSUME LoopInv, EngineInv', LoopVarsOK', UNCHANGED stops,
         NEW c \in Callers, NEW ext \in ExtIds \cup {None}, PlaceAccepted(c, ext)
  PROVE  LoopInv'
<1>1. c = Tick /\ At(c, "submit")
  BY OnlyTick DEF PlaceAccepted, At, Idle
<1>2. PICK id \in OrderIds : id = calls[c].id /\ orders[id].state = SignalDetected
  BY <1>1 DEF LoopInv, EngineInv, InFlightOwned
<1>3. /\ Transitioned(id, OrderPlaced) \in [OrderIds -> OrderRecords]
      /\ Transitioned(id, OrderPlaced)[id].state = OrderPlaced
  BY <1>2, TransitionedFacts, TransitionFacts DEF LoopInv, EngineInv
<1>4. /\ UNCHANGED exchange
      /\ Return(c) /\ TrackOrder(IF ext # None THEN ext ELSE id)
      /\ orders' = [Transitioned(id, OrderPlaced) EXCEPT ![id].ext = ext]
      /\ ext # None => exchange[ext].by = id
      /\ ext = None => \A e \in ExtIds : exchange[e].by # id
  BY <1>2 DEF PlaceAccepted, exchangeVars, CanTransition, Allowed
<1>5. \A other \in OrderIds : other # id => orders'[other] = orders[other]
  BY <1>2, <1>4, TransitionedFacts DEF LoopInv, EngineInv
<1>6. LiveWorking' \subseteq LiveWorking \cup ({ext} \ {None})
  <2> SUFFICES ASSUME NEW e \in ExtIds, exchange[e].st = "open",
                      orders'[exchange[e].by].state \in Working, e # ext \/ ext = None
               PROVE  orders[exchange[e].by].state \in Working
    BY <1>4 DEF LiveWorking, IsWorking
  <2>1. exchange[e].by \in OrderIds
    BY DEF LoopInv, EngineInv, TypeOK, ExchangeRecords, WireAndBook
  <2>2. exchange[e].by # id
    BY <1>2, <1>4 DEF LoopInv, EngineInv, StoreMatchesExchange
  <2> QED BY <1>5, <2>1, <2>2
<1>7. /\ calls'[Tick] = IdleCall
      /\ \A d \in Callers : d # Tick => calls'[d] = calls[d]
  BY <1>1, <1>4 DEF Return, SetCall, LoopInv, EngineInv, TypeOK
<1>8. SignalsSweep' /\ ListCovers' /\ SweptClean' /\ SubmitHasRoom'
  BY <1>7, CallFields DEF LoopInv, SignalsSweep, Idle, ListCovers, SweptClean, SubmitHasRoom, At
<1>9. TrackedCoversLive'
  BY <1>4, <1>6 DEF LoopInv, TrackedCoversLive, TrackOrder
<1>10. ConcurrencyCap'
  <2> DEFINE room == LiveWorking \cup {ext}
  <2>1. IsFiniteSet(LiveWorking) /\ IsFiniteSet(LiveWorking') /\ LiveWorking' \subseteq room
    BY <1>6, FiniteAssumption, FS_Subset DEF LiveWorking
  <2>2. /\ IsFiniteSet(room)
        /\ Cardinality(room) <= Cardinality(LiveWorking) + 1
        /\ Cardinality(room) \in Nat /\ Cardinality(LiveWorking) \in Nat
    BY <2>1, FS_AddElement, FS_CardinalityType
  <2>3. Cardinality(LiveWorking') <= Cardinality(room) /\ Cardinality(LiveWorking') \in Nat
    BY <2>1, <2>2, FS_Subset, FS_CardinalityType
  <2>4. Cardinality(LiveWorking) < MaxConcurrent
    BY <1>1 DEF LoopInv, SubmitHasRoom
  <2> HIDE DEF room
  <2> QED BY <2>2, <2>3, <2>4, LimitsAssumption DEF ConcurrencyCap
<1>11. ClosedIsGone'
  <2>1. orders'[id].state = OrderPlaced
    BY <1>3, <1>4 DEF OrderRecords
  <2>2. ClosesWhatIsGone /\ BookShrinks /\ (NoStop' => NoStop)
    BY <1>4, <1>5, <2>1 DEF ClosesWhatIsGone, BookShrinks, NoStop
  <2> QED BY <2>2, StillGone DEF LoopInv
<1> QED
  BY <1>8, <1>9, <1>10, <1>11 DEF LoopInv, LoopTypeOK, EngineInv

(* placeOrder whose submission threw: the order is FAILED. *)
LEMMA ErrorKeepsLoop ==
  ASSUME LoopInv, EngineInv', LoopVarsOK', UNCHANGED stops, NEW c \in Callers, PlaceError(c)
  PROVE  LoopInv'
<1>1. c = Tick /\ At(c, "submit")
  BY OnlyTick DEF PlaceError, At, Idle
<1>2. PICK id \in OrderIds : id = calls[c].id /\ orders[id].state = SignalDetected
  BY <1>1 DEF LoopInv, EngineInv, InFlightOwned
<1>3. /\ orders' = Transitioned(id, Failed)
      /\ SetCall(Tick, IdleCall) /\ UNCHANGED <<tracked, exchange>>
  BY <1>1, <1>2 DEF PlaceError, Return, exchangeVars
<1>4. /\ orders'[id].state = Failed
      /\ \A other \in OrderIds : other # id => orders'[other] = orders[other]
  BY <1>2, <1>3, TransitionedFacts, TransitionFacts DEF LoopInv, EngineInv
<1>5. NoNewWorking /\ ClosesWhatIsGone /\ BookShrinks
  BY <1>3, <1>4 DEF NoNewWorking, ClosesWhatIsGone, BookShrinks
<1>6. LiveWorking' \subseteq tracked'
  BY <1>3, <1>5, LiveShrinks DEF LoopInv, TrackedCoversLive
<1> QED BY <1>3, <1>5, <1>6, CallFields, TickRunsOn

(* Calls of the tick that end, or go on to their next order, and change no order. *)
LEMMA EndsKeepLoop ==
  ASSUME LoopInv, EngineInv', LoopVarsOK', UNCHANGED stops, NEW c \in Callers,
         \/ \E malformed \in BOOLEAN : PlaceRefused(c, malformed)
         \/ PlaceDuplicate(c) \/ CancelEnds(c) \/ OpenOrdersError(c) \/ StatusError(c)
  PROVE  LoopInv'
<1>1. c = Tick
  BY OnlyTick DEF PlaceRefused, PlaceDuplicate, CancelEnds, OpenOrdersError, StatusError, At, Idle
<1>2. UNCHANGED <<orders, tracked, exchange>>
  BY DEF PlaceRefused, PlaceDuplicate, CancelEnds, OpenOrdersError, StatusError,
         storeVars, riskVars, exchangeVars
<1>3. SetCall(Tick, IdleCall) \/ \E queue : SetCall(Tick, StillToCancel(queue))
  BY <1>1 DEF PlaceRefused, PlaceDuplicate, CancelEnds, OpenOrdersError, StatusError, Return
<1> QED BY <1>2, <1>3, CallFields, TickMoves

(* A call that cancel-all leaves without an answer. *)
LEMMA SweepFails ==
  ASSUME LoopInv, EngineInv', LoopVarsOK', UNCHANGED stops, NEW c \in Callers, CancelAllError(c)
  PROVE  LoopInv'
<1>1. SetCall(c, IdleCall) /\ UNCHANGED <<orders, tracked, exchange>>
  BY DEF CancelAllError, Return, storeVars, riskVars, exchangeVars
<1>2. calls'[c] = IdleCall /\ \A d \in Callers : d # c => calls'[d] = calls[d]
  BY <1>1 DEF SetCall, LoopInv, EngineInv, TypeOK
<1>3. SignalsSweep' /\ (NoStop' => NoStop)
  BY <1>2, CallFields DEF LoopInv, SignalsSweep, Idle, NoStop
<1> QED BY <1>1, <1>2, <1>3, CallFields, CallerMoves

(***************************************************************************)
(* Cancel-all closes every working order.  Until a signal arrives, none of *)
(* them was left on the exchange.                                          *)
(***************************************************************************)
LEMMA SweepKeepsLoop ==
  ASSUME LoopInv, EngineInv', LoopVarsOK', UNCHANGED stops, NEW c \in Callers, CancelAllReturn(c)
  PROVE  LoopInv'
<1>1. /\ At(c, "cancelAll") /\ calls[c].done /\ SetCall(c, IdleCall) /\ UNCHANGED exchange
      /\ orders' = [id \in OrderIds |-> Moved(orders[id], Cancelled)]
  BY DEF CancelAllReturn, Answered, Return, exchangeVars
<1>2. \A id \in OrderIds :
        /\ orders[id].state \in Working => orders'[id].state = Cancelled
        /\ orders[id].state \notin Working => orders'[id].state = orders[id].state
  <2> SUFFICES ASSUME NEW id \in OrderIds
               PROVE  LET moved == Moved(orders[id], Cancelled) IN
                      /\ orders[id].state \in Working => moved.state = Cancelled
                      /\ orders[id].state \notin Working => moved.state = orders[id].state
    BY <1>1
  <2>1. orders[id] \in OrderRecords /\ orders[id].state \in States
    BY DEF LoopInv, EngineInv, TypeOK, OrderRecords
  <2> QED BY <2>1, MovedFacts, TransitionFacts
<1>3. \A id \in OrderIds : orders'[id].state \notin Working
  BY <1>2
<1>4. NoNewWorking
  BY <1>3 DEF NoNewWorking
<1>5. LiveWorking' = {}
  <2>1. \A e \in ExtIds : exchange'[e].st = "open" => exchange'[e].by \in OrderIds
    BY DEF EngineInv, TypeOK, ExchangeRecords, WireAndBook
  <2> QED BY <1>3, <2>1 DEF LiveWorking, IsWorking
<1>6. calls'[c] = IdleCall /\ \A d \in Callers : d # c => calls'[d] = calls[d]
  BY <1>1 DEF SetCall, LoopInv, EngineInv, TypeOK
<1>7. SignalsSweep' /\ (NoStop' => NoStop) /\ BookShrinks
  <2>0. IdleCall.op = "idle"
    BY DEF IdleCall, Call
  <2>1. ASSUME NEW s \in Signals
        PROVE  calls'[s].op \in {"idle", "cancelAll"} /\ (stops'[s] = "none" => calls'[s].op = "idle")
    <3>1. s \in Callers
      BY CallersAssumption
    <3> QED BY <1>6, <2>0, <3>1 DEF LoopInv, SignalsSweep, Idle
  <2>2. (NoStop' => NoStop) /\ BookShrinks
    BY <1>1 DEF NoStop, BookShrinks
  <2> QED BY <2>1, <2>2 DEF SignalsSweep, Idle
<1>8. ClosedIsGone'
  <2>1. CASE ~NoStop'
    BY <2>1 DEF ClosedIsGone
  <2>2. CASE NoStop'
    <3>1. c = Tick /\ LiveWorking = {}
      BY <1>1, <1>7, <2>2 DEF LoopInv, SignalsSweep, SweptClean, NoStop, Idle, At
    <3>2. ClosesWhatIsGone
      <4> SUFFICES ASSUME NEW id \in OrderIds, orders[id].state \in Working,
                          NEW e \in ExtIds, exchange[e].by = id
                   PROVE  exchange[e].st # "open"
        BY <1>1, <1>2 DEF ClosesWhatIsGone
      <4> QED BY <3>1 DEF LiveWorking, IsWorking
    <3> QED BY <1>7, <3>2, StillGone DEF LoopInv
  <2> QED BY <2>1, <2>2
<1>9. /\ ListCovers' /\ SweptClean'
      /\ At(Tick, "submit")' => Cardinality(LiveWorking) < MaxConcurrent
  BY <1>5, <1>6, CallFields DEF LoopInv, ListCovers, SweptClean, SubmitHasRoom, At
<1> QED BY <1>5, <1>7, <1>8, <1>9, InvKept

(* The list of open orders replaces the tracked set, and still covers it. *)
LEMMA ListedKeepsLoop ==
  ASSUME LoopInv, EngineInv', LoopVarsOK', UNCHANGED stops, NEW c \in Callers, OpenOrdersReturn(c)
  PROVE  LoopInv'
<1>1. c = Tick /\ At(c, "openOrders") /\ calls[c].done
  BY OnlyTick DEF OpenOrdersReturn, Answered, At, Idle
<1>2. /\ UNCHANGED <<orders, exchange>> /\ SetCall(Tick, IdleCall)
      /\ tracked' = calls[Tick].seen
  BY <1>1 DEF OpenOrdersReturn, ListedIds, Return, storeVars, exchangeVars
<1>3. NoNewWorking /\ ClosesWhatIsGone
  BY <1>2 DEF NoNewWorking, ClosesWhatIsGone
<1>4. LiveWorking' \subseteq tracked'
  BY <1>1, <1>2 DEF LoopInv, ListCovers, LiveWorking, IsWorking
<1> QED BY <1>2, <1>3, <1>4, CallFields, TickRunsOn

(* One order of the tick closes; it was off the exchange, or never named by it. *)
LEMMA ClosingKeepsLoop ==
  ASSUME LoopInv, EngineInv', LoopVarsOK', UNCHANGED <<stops, exchange>>,
         NEW call, SetCall(Tick, call), call.op # "submit", ~call.done,
         NEW id \in OrderIds, NEW to \in {Filled, Cancelled}, orders' = Transitioned(id, to),
         orders[id].ext = None \/ exchange[orders[id].ext].st # "open",
         \A e \in LiveWorking : e \in tracked' \/ e = orders[id].ext
  PROVE  LoopInv'
<1>1. Closes
  BY TransitionCloses DEF LoopInv
<1>2. NoNewWorking /\ BookShrinks
  BY <1>1, ClosesNoNew DEF LoopInv, BookShrinks
<1>3. \A other \in OrderIds : other # id => orders'[other] = orders[other]
  BY TransitionedFacts DEF LoopInv, EngineInv
<1>4. ASSUME NEW e \in ExtIds, exchange[e].by = id, orders[id].state \in Working
      PROVE  exchange[e].st # "open"
  BY <1>4 DEF LoopInv, EngineInv, StoreMatchesExchange
<1>5. ClosesWhatIsGone
  BY <1>1, <1>3, <1>4 DEF Closes, ClosesWhatIsGone
<1>6. LiveWorking' \subseteq LiveWorking
  BY <1>2, LiveShrinks DEF LoopInv
<1>7. LiveWorking' \subseteq tracked'
  BY <1>6 DEF LiveWorking
<1> QED BY <1>2, <1>5, <1>7, TickRunsOn

(* cancelOrder and refreshOrderStatus with their answer in hand. *)
LEMMA AnsweredKeepsLoop ==
  ASSUME LoopInv, EngineInv', LoopVarsOK', UNCHANGED stops, NEW c \in Callers,
         CancelReturn(c) \/ StatusReturn(c)
  PROVE  LoopInv'
<1>1. /\ c = Tick /\ calls[c].done /\ UNCHANGED exchange
      /\ At(c, "cancel") \/ At(c, "status")
  BY OnlyTick DEF CancelReturn, StatusReturn, Answered, At, Idle, exchangeVars
<1>2. PICK id \in OrderIds : /\ id = calls[c].id /\ orders[id].ext = calls[c].ext
                             /\ orders[id].ext \in ExtIds
  BY <1>1 DEF LoopInv, EngineInv, CallsKnow, CallKnows, At
<1>3. CASE CancelReturn(c)
  <2>1. /\ orders' = Transitioned(id, Cancelled)
        /\ tracked' = tracked \ {orders[id].ext}
        /\ \E queue : SetCall(Tick, StillToCancel(queue))
    BY <1>1, <1>2, <1>3 DEF CancelReturn
  <2>2. exchange[orders[id].ext].st # "open"
    BY <1>1, <1>2, <1>3 DEF CancelReturn, At, LoopInv, EngineInv, CallsKnow, CallKnows
  <2>3. \A e \in LiveWorking : e \in tracked' \/ e = orders[id].ext
    BY <2>1 DEF LoopInv, TrackedCoversLive
  <2> QED BY <1>1, <2>1, <2>2, <2>3, CallFields, ClosingKeepsLoop
<1>4. CASE StatusReturn(c)
  <2> DEFINE mapped == IF calls[c].reply = "filled" THEN Filled ELSE Cancelled
  <2>1. SetCall(Tick, IdleCall)
    BY <1>1, <1>4 DEF StatusReturn, Return
  <2>2. CASE UNCHANGED <<orders, tracked>>
    BY <1>1, <2>1, <2>2, CallFields, TickMoves
  <2>3. CASE calls[c].reply # "open" /\ CanTransition(orders[id].state, mapped)
    <3>1. /\ orders' = Transitioned(id, mapped)
          /\ tracked' = tracked \ {orders[id].ext}
      BY <1>2, <1>4, <2>3 DEF StatusReturn
    <3>2. exchange[orders[id].ext].st # "open"
      BY <1>1, <1>2, <1>4, <2>3
      DEF StatusReturn, At, LoopInv, EngineInv, CallsKnow, CallKnows
    <3>3. \A e \in LiveWorking : e \in tracked' \/ e = orders[id].ext
      BY <3>1 DEF LoopInv, TrackedCoversLive
    <3>4. mapped \in {Filled, Cancelled}
      OBVIOUS
    <3> QED BY <1>1, <2>1, <3>1, <3>2, <3>3, <3>4, CallFields, ClosingKeepsLoop
  <2> QED BY <1>2, <1>4, <2>2, <2>3 DEF StatusReturn
<1> QED BY <1>3, <1>4

(* cancelStaleOrders takes the next order of its list. *)
LEMMA StaleKeepsLoop ==
  ASSUME LoopInv, EngineInv', LoopVarsOK', UNCHANGED stops, NEW c \in Callers,
         NEW id \in OrderIds, CancelStaleNext(c, id)
  PROVE  LoopInv'
<1> DEFINE rest == calls[c].queue \ {id}
<1>1. c = Tick /\ UNCHANGED exchange
  BY OnlyTick DEF CancelStaleNext, At, Idle, exchangeVars
<1>2. CASE CancelSynthetic(id) /\ SetCall(c, StillToCancel(rest))
  <2>1. /\ orders[id].ext = None /\ tracked' = tracked \ {id}
        /\ orders' = Transitioned(id, Cancelled)
    BY <1>2 DEF CancelSynthetic
  <2>2. \A e \in LiveWorking : e \in tracked'
    BY <2>1 DEF LoopInv, TrackedCoversLive, LiveWorking
  <2> QED BY <1>1, <1>2, <2>1, <2>2, CallFields, ClosingKeepsLoop
<1>3. CASE CancelRequest(c, id, rest)
  BY <1>1, <1>3, CallFields, TickMoves DEF CancelRequest
<1> QED BY <1>2, <1>3 DEF CancelStaleNext

(* Every call that runs on keeps LoopInv. *)
LEMMA ContinueKeepsLoop ==
  ASSUME LoopInv, EngineInv', LoopVarsOK', UNCHANGED stops, NEW c \in Callers, Continue(c)
  PROVE  LoopInv'
  BY EndsKeepLoop, SubmitKeepsLoop, AcceptedKeepsLoop, ErrorKeepsLoop, AnsweredKeepsLoop,
     StaleKeepsLoop, SweepKeepsLoop, SweepFails, ListedKeepsLoop DEF Continue

-----------------------------------------------------------------------------
(* Theorems *)

(* LoopInv holds at the start. *)
LEMMA LoopInitInv == LoopInit => LoopInv
<1> SUFFICES ASSUME LoopInit PROVE LoopInv
  OBVIOUS
<1>1. EngineInv
  BY InitInv DEF LoopInit
<1>2. LoopVarsOK
  <2>1. recs \in 0..MaxRecs
    BY LoopAssumption DEF LoopInit
  <2> QED BY <2>1 DEF LoopInit, LoopVarsOK
<1>3. LiveWorking = {} /\ \A e \in ExtIds : exchange[e].st # "open"
  BY DEF LoopInit, Init, LiveWorking
<1>4. \A c \in Callers : calls[c].op = "idle"
  BY CallFields DEF LoopInit, Init
<1>5. SignalsSweep /\ ListCovers /\ SubmitHasRoom /\ SweptClean
  BY <1>3, <1>4 DEF SignalsSweep, ListCovers, SubmitHasRoom, SweptClean, Idle, At
<1>6. TrackedCoversLive /\ ConcurrencyCap /\ ClosedIsGone
  <2>1. Cardinality(LiveWorking) = 0
    BY <1>3, FS_EmptySet
  <2>2. ConcurrencyCap
    BY <2>1, LimitsAssumption DEF ConcurrencyCap
  <2> QED BY <1>3, <2>2 DEF TrackedCoversLive, ClosedIsGone
<1> QED BY <1>1, <1>2, <1>5, <1>6 DEF LoopInv, LoopTypeOK, EngineInv

(* Every step of the loop keeps LoopInv. *)
LEMMA LoopStepKeeps == LoopInv /\ [LoopNext]_vars => LoopInv'
<1> SUFFICES ASSUME LoopInv, [LoopNext]_vars PROVE LoopInv'
  OBVIOUS
<1>1. EngineInv'
  BY LoopDrives, StepKeeps DEF LoopInv
<1>2. LoopVarsOK'
  BY TickTypes, OtherTypes DEF LoopInv, LoopTypeOK
<1>3. CASE TickStep
  BY <1>1, <1>2, <1>3, TickKeeps
<1>4. CASE \E s \in Signals : StopStep(s)
  BY <1>1, <1>2, <1>4, StopKeeps
<1>5. CASE \E c \in Callers : EngineStep(c)
  BY <1>1, <1>2, <1>5, ContinueKeepsLoop DEF EngineStep, loopVars
<1>6. CASE ExchangeMoves
  BY <1>1, <1>2, <1>6, ExchangeAloneKeeps, RespondKeepsLoop DEF ExchangeMoves, Exchange, loopVars
<1>7. CASE \/ ExitStep \/ KeyOrDayPasses \/ (\E id \in OrderIds : OrderAges(id))
           \/ UNCHANGED vars
  <2>1. UNCHANGED stops /\ (Clock \/ UNCHANGED engineVars)
    BY <1>7 DEF ExitStep, Exit, KeyOrDayPasses, Clock, OrderAges, vars, loopVars
  <2> QED BY <1>1, <1>2, <2>1, ClockKeepsLoop
<1> QED BY <1>3, <1>4, <1>5, <1>6, <1>7 DEF LoopNext

(***************************************************************************)
(* The engine's invariant and what the loop adds to it hold throughout.    *)
(***************************************************************************)
THEOREM LoopInvariant == LoopSpec => []LoopInv
  BY LoopInitInv, LoopStepKeeps, PTL DEF LoopSpec

(* The parts of the invariant that are properties in their own right. *)
LEMMA LoopInvParts ==
  LoopInv => LoopTypeOK /\ TrackedCoversLive /\ ConcurrencyCap /\ ClosedIsGone
  BY DEF LoopInv

(* Every variable of the loop stays in its type. *)
THEOREM LoopTypeCorrect == LoopSpec => []LoopTypeOK
  BY LoopInvariant, LoopInvParts, PTL

(* No order works on the exchange unknown to the risk engine. *)
THEOREM TrackedCovers == LoopSpec => []TrackedCoversLive
  BY LoopInvariant, LoopInvParts, PTL

(* maxConcurrentOrders bounds the orders that work. *)
THEOREM WithinConcurrencyCap == LoopSpec => []ConcurrencyCap
  BY LoopInvariant, LoopInvParts, PTL

(* Until a signal arrives, what is recorded as closed is off the exchange. *)
THEOREM ClosedStaysGone == LoopSpec => []ClosedIsGone
  BY LoopInvariant, LoopInvParts, PTL

(* The loop is a user of the engine: all that holds of the engine holds here. *)
THEOREM LoopUsesEngine == LoopSpec => Spec
<1>1. LoopInit => Init
  BY DEF LoopInit
<1>2. LoopInv /\ [LoopNext]_vars => [Next]_engineVars
  BY LoopDrives DEF LoopInv
<1> QED BY <1>1, <1>2, LoopInvariant, PTL DEF LoopSpec, Spec

(* Whatever the loop does, its orders follow the order ledger. *)
THEOREM LoopImplementsLedger == LoopSpec => ImplementsLedger
  BY LoopUsesEngine, EngineImplementsLedger

-----------------------------------------------------------------------------
(* Nothing is entered after a stop. *)

(* The shutdown handler stops the risk engine as well. *)
StoppedHalts == ~NoStop => riskHalted = TRUE

(* Only a new day lifts a halt of the risk engine. *)
LEMMA HaltStays ==
  ASSUME ~DayMayRoll, LoopTypeOK, [LoopNext]_vars, riskHalted = TRUE
  PROVE  riskHalted' = TRUE
<1>1. ASSUME NEW c \in Callers, Begin(c) PROVE riskHalted' = TRUE
  BY <1>1 DEF Begin, PlaceBegin, CancelBegin, StatusBegin, CancelOrphan, CancelStaleBegin,
              HaltAndCancelAll, OpenOrdersBegin, riskVars
<1>2. ASSUME NEW c \in Callers, Continue(c) PROVE riskHalted' = TRUE
  BY <1>2 DEF Continue, PlaceRefused, PlaceDuplicate, PlaceSubmit, PlaceAccepted, PlaceError,
              RecordRejects, CancelReturn, CancelEnds, CancelStaleNext, CancelAllReturn,
              CancelAllError, OpenOrdersReturn, OpenOrdersError, StatusReturn, StatusError,
              riskVars
<1>3. ASSUME Exchange PROVE riskHalted' = TRUE
  BY <1>3 DEF Exchange, Respond, ExchangeAccepts, ExchangeDrops, ExchangeCloses,
     ExchangeCancels, ExchangeCancelsAll, ExchangeLists, ExchangeReports, ExchangeStep, riskVars
<1>4. ASSUME KeyOrDayPasses PROVE riskHalted' = TRUE
  BY <1>4 DEF KeyOrDayPasses, KeyExpires, riskVars
<1>5. ASSUME UNCHANGED engineVars PROVE riskHalted' = TRUE
  BY <1>5 DEF engineVars
<1> QED
  BY <1>1, <1>2, <1>3, <1>4, <1>5, TickDrives, StopDrives
  DEF LoopNext, ExitStep, Exit, EngineStep, ExchangeMoves, OrderAges, vars

(* An order is entered only while the risk engine is not halted. *)
LEMMA EntersWhenRunning ==
  ASSUME LoopInv, [LoopNext]_vars, NEW id \in OrderIds,
         orders[id].state = Absent, orders'[id].state # Absent
  PROVE  riskHalted # TRUE
<1>1. OrdersMove
  BY LoopDrives, StepMoves DEF LoopInv
<1>2. Submits
  BY <1>1 DEF OrdersMove, Settles, OthersStay, Closes
<1> QED BY <1>2 DEF Submits, PlaceSubmit

(***************************************************************************)
(* Within one UTC day, no order is entered once a shutdown handler has     *)
(* started, whatever placeOrder call was waiting for its order book.       *)
(***************************************************************************)
THEOREM NothingEntersAfterStop ==
  ASSUME ~DayMayRoll PROVE LoopSpec => NoOrderAfterStop
<1>1. LoopInit => StoppedHalts
  BY DEF LoopInit, StoppedHalts, NoStop
<1>2. LoopInv /\ StoppedHalts /\ [LoopNext]_vars => StoppedHalts'
  <2> SUFFICES ASSUME LoopInv, StoppedHalts, [LoopNext]_vars, ~NoStop'
               PROVE  riskHalted' = TRUE
    BY DEF StoppedHalts
  <2>1. CASE ~NoStop
    BY <2>1, HaltStays DEF StoppedHalts, LoopInv
  <2>2. CASE NoStop
    <3>1. stops' # stops
      BY <2>2 DEF NoStop
    <3>2. \E s \in Signals : StopStep(s)
      BY <3>1 DEF LoopNext, TickStep, ExitStep, Exit, EngineStep, ExchangeMoves,
                  KeyOrDayPasses, OrderAges, vars, loopVars
    <3>3. \E s \in Signals : HaltAndCancelAll(s, TRUE)
      BY <2>2, <3>2 DEF StopStep, StopBegin, StopFlush, StopDone, NoStop
    <3> QED BY <3>3 DEF HaltAndCancelAll
  <2> QED BY <2>1, <2>2
<1>3. LoopInv /\ StoppedHalts /\ [LoopNext]_vars
        => [~NoStop => \A id \in OrderIds :
              orders[id].state = Absent => orders'[id].state = Absent]_vars
  BY EntersWhenRunning DEF StoppedHalts
<1> QED BY <1>1, <1>2, <1>3, LoopInvariant, PTL DEF LoopSpec, NoOrderAfterStop

=============================================================================
