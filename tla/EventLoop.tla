----------------------------- MODULE EventLoop -----------------------------
(***************************************************************************)
(* The live runtime's event loop (src/live/eventLoop.js): one tick after   *)
(* another drives the execution engine, and a SIGINT or SIGTERM handler    *)
(* may run its shutdown sequence between any two awaits of the tick.       *)
(* Market data, signals and the content of recommendations are not         *)
(* modelled; startup and reconciliation are not part of this module.       *)
(***************************************************************************)
EXTENDS ExecutionEngine

CONSTANTS
  Tick,        \* the tick loop, as a caller of the engine
  Signals,     \* the handled signals; each handler is registered with once()
  MaxRecs,     \* recommendations a tick may act on
  DayMayRoll   \* BOOLEAN: the UTC day may change during the run

ASSUME CallersAssumption == Callers = {Tick} \cup Signals /\ Tick \notin Signals
ASSUME LoopAssumption == MaxRecs \in Nat /\ DayMayRoll \in BOOLEAN
ASSUME FiniteAssumption == IsFiniteSet(OrderIds) /\ IsFiniteSet(ExtIds)

VARIABLES
  pc,      \* where the tick is
  recs,    \* recommendations left in this tick
  stops,   \* stops[s]: progress of the shutdown handler of signal s
  exited,  \* process.exit has run
  aged,    \* working orders placed longer than orderTimeoutMs ago
  stuck    \* working orders without progress for stuckOrderTimeoutMs

loopVars == <<pc, recs, stops, exited>>
vars     == <<engineVars, loopVars, aged, stuck>>

LoopVarsOK ==
  /\ pc \in {"sleep", "halted", "housekeeping", "polling", "recs", "translate"}
  /\ recs \in 0..MaxRecs
  /\ stops \in [Signals -> {"none", "cancelling", "flushing", "done"}]
  /\ exited \in BOOLEAN
  /\ aged \subseteq OrderIds
  /\ stuck \subseteq aged

LoopTypeOK == TypeOK /\ LoopVarsOK

(* Ages matter for working orders only; those of the others are dropped. *)
KeepStuck ==                                                        \* mutant
  /\ aged' = {id \in aged : orders'[id].state \in Working}
  /\ stuck' = stuck

KeepAges ==
  /\ aged' = {id \in aged : orders'[id].state \in Working}
  /\ stuck' = {id \in stuck : orders'[id].state \in Working}

Goto(to) == pc' = to

-----------------------------------------------------------------------------
(* The tick *)

(***************************************************************************)
(* Guard 1.  killSwitch.evaluate reports an earlier halt or finds a        *)
(* trigger.  The kill file, the failure rate and the daily loss are not    *)
(* modelled here, so it may always find one.                               *)
(***************************************************************************)
TickHalts ==
  /\ pc = "sleep"
  /\ HaltAndCancelAll(Tick, FALSE)
  /\ Goto("halted")
  /\ UNCHANGED recs

MustHaltOnErrors == killed \/ apiErrors >= MaxErrors                \* mutant
MustHalt == killed \/ apiErrors >= MaxErrors \/ stuck # {}

(* Guard 2 returns from the tick; nothing changes, so it is a stutter. *)
TickPasses ==
  /\ pc = "sleep"
  /\ ~MustHalt
  /\ ~riskHalted
  /\ Goto("housekeeping")
  /\ recs' = MaxRecs
  /\ UNCHANGED engineVars

(* Markets were refreshed: cancelStaleOrders. *)
Housekeeping ==
  LET stale == {id \in aged : IsWorking(id)} IN
  /\ pc = "housekeeping"
  /\ IF stale # {} THEN CancelStaleBegin(Tick, stale) ELSE UNCHANGED engineVars
  /\ Goto("polling")
  /\ UNCHANGED recs

(* Every tenth tick asks for the open orders. *)
Polling ==
  /\ pc = "polling"
  /\ Idle(Tick)
  /\ OpenOrdersBegin(Tick) \/ UNCHANGED engineVars
  /\ Goto("recs")
  /\ UNCHANGED recs

(* The loop over recommendations stops at a halt that came in between. *)
NextRecommendation ==
  /\ pc = "recs"
  /\ Idle(Tick)
  /\ ~killed
  /\ recs > 0
  /\ recs' = recs - 1
  /\ Goto("translate")
  /\ UNCHANGED engineVars

(***************************************************************************)
(* recommendationToOrder returned.  It may have made no order, and the     *)
(* deduper or a gate of placeOrder may refuse it: then nothing changes.    *)
(***************************************************************************)
PlaceRecommendation ==
  /\ pc = "translate"
  /\ \/ \E key \in Keys : PlaceBegin(Tick, key)
     \/ UNCHANGED engineVars
  /\ Goto("recs")
  /\ UNCHANGED recs

(***************************************************************************)
(* The end of a tick: of a halted one, of one whose recommendations are    *)
(* done with, or of one whose market refresh threw.                        *)
(***************************************************************************)
TickEnds ==
  /\ pc \in {"halted", "recs", "housekeeping"}
  /\ pc = "housekeeping" => ApiMayFail
  /\ Idle(Tick)
  /\ Goto("sleep")
  /\ UNCHANGED <<recs, engineVars>>

Running == \A s \in Signals : stops[s] # "done"

TickStep ==
  /\ ~exited
  /\ pc = "sleep" => Running
  /\ \/ TickHalts \/ TickPasses \/ Housekeeping \/ Polling
     \/ NextRecommendation \/ PlaceRecommendation \/ TickEnds
  /\ KeepAges
  /\ UNCHANGED <<stops, exited>>

-----------------------------------------------------------------------------
(* Shutdown *)

SetStop(s, to) == stops' = [stops EXCEPT ![s] = to]

StopBeginUnguarded(s) ==                                            \* mutant
  /\ stops[s] = "none"
  /\ HaltAndCancelAll(s, FALSE)
  /\ SetStop(s, "cancelling")
  /\ UNCHANGED exited

StopBegin(s) ==
  /\ stops[s] = "none"
  /\ HaltAndCancelAll(s, TRUE)
  /\ SetStop(s, "cancelling")
  /\ UNCHANGED exited

(* cancelAllOrders is over, with success or not; the snapshot is flushed. *)
StopFlush(s) ==
  /\ stops[s] = "cancelling"
  /\ Idle(s)
  /\ SetStop(s, "flushing")
  /\ UNCHANGED <<exited, engineVars>>

StopDoneBetweenTicks(s) ==                                          \* mutant
  /\ pc = "sleep"
  /\ stops[s] = "flushing"
  /\ SetStop(s, "done")
  /\ UNCHANGED <<exited, engineVars>>

StopDone(s) ==
  /\ stops[s] = "flushing"
  /\ SetStop(s, "done")
  /\ UNCHANGED <<exited, engineVars>>

(* One second after the first handler is done, whatever is in progress. *)
Exit ==
  /\ ~Running
  /\ exited' = TRUE
  /\ UNCHANGED <<stops, engineVars>>

StopStep(s) ==
  /\ ~exited
  /\ StopBegin(s) \/ StopFlush(s) \/ StopDone(s)
  /\ KeepAges
  /\ UNCHANGED <<pc, recs>>

ExitStep ==
  /\ ~exited
  /\ Exit
  /\ KeepAges
  /\ UNCHANGED <<pc, recs>>

-----------------------------------------------------------------------------
(* Suspended calls, the exchange and the clock *)

EngineStep(c) ==
  /\ ~exited
  /\ Continue(c)
  /\ KeepAges
  /\ UNCHANGED loopVars

ExchangeMoves ==
  /\ Exchange
  /\ KeepAges
  /\ UNCHANGED loopVars

KeyOrDayPasses ==
  /\ ~exited
  /\ \/ \E key \in Keys : KeyExpires(key)
     \/ DayMayRoll /\ DayRolls
  /\ KeepAges
  /\ UNCHANGED loopVars

OrderAges(id) ==
  /\ ~exited
  /\ IsWorking(id)
  /\ \/ id \notin aged /\ aged' = aged \cup {id} /\ UNCHANGED stuck
     \/ id \in aged \ stuck /\ stuck' = stuck \cup {id} /\ UNCHANGED aged
  /\ UNCHANGED <<engineVars, loopVars>>

-----------------------------------------------------------------------------
(* Specification *)

LoopInit ==
  /\ Init
  /\ pc = "sleep" /\ recs = 0
  /\ stops = [s \in Signals |-> "none"]
  /\ exited = FALSE
  /\ aged = {} /\ stuck = {}

LoopNext ==
  \/ TickStep
  \/ \E s \in Signals : StopStep(s)
  \/ ExitStep
  \/ \E c \in Callers : EngineStep(c)
  \/ ExchangeMoves
  \/ KeyOrDayPasses
  \/ \E id \in OrderIds : OrderAges(id)

LoopSpec == LoopInit /\ [][LoopNext]_vars

(***************************************************************************)
(* Fairness.  The JavaScript scheduler runs every ready continuation, so   *)
(* the tick, a shutdown handler and a call whose answer is there go on;    *)
(* a halt without a modelled trigger and a signal need never come.  Every  *)
(* request is answered or fails (withRetry makes finitely many attempts),  *)
(* a submission does not travel for ever, and time passes.  Cancel-all may *)
(* fail, but not every time the halted loop repeats it.                    *)
(***************************************************************************)
TickMustStep    == TickStep /\ (pc' = "halted" => MustHalt)
StopMustStep(s) == StopStep(s) /\ stops[s] # "none"
Responds(c)     == Respond(c) /\ KeepAges /\ UNCHANGED loopVars
Arrives(id)     == /\ ExchangeDrops(id) \/ \E e \in ExtIds : ExchangeAccepts(id, e)
                   /\ KeepAges /\ UNCHANGED loopVars
SweepReturns    == /\ ~exited /\ CancelAllReturn(Tick)
                   /\ KeepAges /\ UNCHANGED loopVars

Fairness ==
  /\ WF_vars(TickMustStep)
  /\ \A s \in Signals : WF_vars(StopMustStep(s))
  /\ WF_vars(ExitStep)
  /\ \A c \in Callers : WF_vars(EngineStep(c)) /\ WF_vars(Responds(c))
  /\ \A id \in OrderIds : WF_vars(Arrives(id)) /\ WF_vars(OrderAges(id))
  /\ SF_vars(Responds(Tick)) /\ SF_vars(SweepReturns)

FairLoopSpec == LoopSpec /\ Fairness

-----------------------------------------------------------------------------
(* Properties *)

NoStop == \A s \in Signals : stops[s] = "none"
LiveWorking == {e \in ExtIds : exchange[e].st = "open" /\ IsWorking(exchange[e].by)}

(***************************************************************************)
(* Every order that works both in the store and on the exchange is in the  *)
(* risk engine's open-order set: the set that getOpenOrders read before an *)
(* await and installs after it never loses an order placed meanwhile.      *)
(***************************************************************************)
TrackedCoversLive == LiveWorking \subseteq tracked

(***************************************************************************)
(* No more than maxConcurrentOrders known orders work on the exchange,     *)
(* though the limit is tested before the await that submits the order.     *)
(***************************************************************************)
ConcurrencyCap == Cardinality(LiveWorking) <= MaxConcurrent

(***************************************************************************)
(* Until a signal arrives, an order recorded as cancelled or filled is off *)
(* the exchange, also when a halted tick cancels everything.               *)
(***************************************************************************)
ClosedIsGone ==
  NoStop => \A e \in ExtIds :
    exchange[e].st = "open" => orders[exchange[e].by].state \notin {Filled, Cancelled}

(***************************************************************************)
(* Once a shutdown handler has started no order is entered, not even by a  *)
(* placeOrder call that had passed the kill-switch gate and was waiting    *)
(* for the order book: the handler also stops the risk engine, and the     *)
(* risk check comes after that await.  (Within one UTC day.)               *)
(***************************************************************************)
NoOrderAfterStop ==
  [][~NoStop => \A id \in OrderIds :
       orders[id].state = Absent => orders'[id].state = Absent]_vars

(***************************************************************************)
(* A working order does not rest for ever: it is cancelled as stale, or,   *)
(* when a halted risk engine keeps the tick from its housekeeping, the     *)
(* stuck-order trigger of the kill switch gets it cancelled.               *)
(***************************************************************************)
RestingOrdersResolve ==
  \A id \in OrderIds : IsWorking(id) ~> (~IsWorking(id) \/ exited)

(* An order in SIGNAL_DETECTED is placed or FAILED, unless the process ends. *)
SubmissionsSettle ==
  \A id \in OrderIds :
    orders[id].state = SignalDetected ~> (orders[id].state # SignalDetected \/ exited)

(* A received signal ends the process, whatever the tick is waiting for. *)
SignalsEnd == \A s \in Signals : stops[s] # "none" ~> exited

(***************************************************************************)
(* docs/LIVE_RUNBOOK.md:156 names the stop signal as the way to cancel all *)
(* orders.  With no request failing, nothing should be left on the         *)
(* exchange when the process has ended and no submission is travelling.    *)
(***************************************************************************)
StopCancelsAll ==
  exited /\ wire = {} => \A e \in ExtIds : exchange[e].st # "open"

-----------------------------------------------------------------------------
(***************************************************************************)
(* The inductive invariant behind the safety properties.  Shutdown         *)
(* handlers only sweep, so an answer that the tick waits for is overtaken  *)
(* by no other placeOrder: the list it asked for still covers the working  *)
(* orders, the room found by the risk check is still there, and a sweep    *)
(* that was answered left nothing.                                         *)
(***************************************************************************)
SignalsSweep ==
  \A s \in Signals : /\ calls[s].op \in {"idle", "cancelAll"}
                     /\ stops[s] = "none" => Idle(s)

ListCovers    == At(Tick, "openOrders") /\ calls[Tick].done => LiveWorking \subseteq calls[Tick].seen
SubmitHasRoom == At(Tick, "submit") => Cardinality(LiveWorking) < MaxConcurrent
SweptClean    == NoStop /\ At(Tick, "cancelAll") /\ calls[Tick].done => LiveWorking = {}

LoopInv ==
  /\ EngineInv
  /\ LoopTypeOK
  /\ SignalsSweep
  /\ TrackedCoversLive
  /\ ListCovers
  /\ SubmitHasRoom
  /\ ConcurrencyCap
  /\ ClosedIsGone
  /\ SweptClean

=============================================================================
