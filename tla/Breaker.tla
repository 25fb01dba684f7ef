------------------------------ MODULE Breaker ------------------------------
(***************************************************************************)
(* The simulator's circuit breaker (src/engine/system.js 103-167), what a  *)
(* tick reports to it (src/engine/tick.js 134-302), the pre-trade check    *)
(* that obeys it, and the dashboard's START/STOP button, which resets it.  *)
(* A tick runs in one piece; its reports are steps of their own here.      *)
(* The clock counts ticks.  Of the recorded events only what a trip looks  *)
(* at is kept.  Drawdown and exposure are inputs: the fills of the         *)
(* simulator never reach its positions (see the README), so that today     *)
(* neither is ever in breach.                                              *)
(***************************************************************************)
EXTENDS PreTrade, Sequences, FiniteSets

CONSTANTS
  Orders,             \* bound: orders that are alive together
  Wants,              \* bound: sizes that the signals ask for
  Asked,              \* bound: prices of the side that is bought
  Seen,               \* bound: books that the check looks at
  MaxInvalid,         \* markets that may be found invalid in a tick
  MaxRecs,            \* bound: recommendations of a tick
  RecoveryTicks,      \* config cbRecoveryMs, in ticks
  MinProbeFills,      \* config cbHalfOpenProbeMinFills
  SlipThreshold, RejectThreshold, PoorThreshold, InvalidThreshold,  \* config cb*Threshold
  SlipWindow, RejectWindow, PoorWindow, InvalidWindow               \* config cb*Window

ASSUME BreakerAssumption ==
  /\ Wants \subseteq Nat /\ Asked \subseteq Prices /\ Seen \subseteq Books
  /\ {MaxInvalid, MaxRecs} \subseteq Nat
  /\ {RecoveryTicks, MinProbeFills} \subseteq Nat \ {0}
  /\ SlipThreshold \in 1..SlipWindow /\ RejectThreshold \in 1..RejectWindow
  /\ PoorThreshold \in 1..PoorWindow /\ InvalidThreshold \in 1..InvalidWindow
  /\ {SlipWindow, RejectWindow, PoorWindow, InvalidWindow} \subseteq Nat

Slips == {"low", "high"}   \* above 80% of maxSlipBps, or not

VARIABLES
  cb,        \* the breaker
  orders,    \* orders[o]: "none" alive, the slip of its last fills, or "gone"
  phase,     \* where the tick is
  todo,      \* orders that this pass has still to advance
  recs,      \* recommendations that this tick has still to judge, at most
  running,   \* the dashboard's interval is set
  openFor,   \* ticks since the breaker was last seen not open (history variable)
  last       \* what the last step was for the breaker (history variable)

vars == <<cb, orders, phase, todo, recs, running, openFor, last>>

Later == RecoveryTicks + 1   \* ages beyond the recovery time are all alike

SlipLists == {s \in Seq(Slips) : Len(s) <= SlipWindow}

Breakers ==
  [state : States,
   age   : 0..Later,                \* ticks since lastFailTime
   halfOpenFills : 0..MinProbeFills,
   slips   : SlipLists,
   rejects : 0..RejectWindow,
   poor    : 0..PoorWindow,
   invalid : 0..InvalidWindow]

Alive == {o \in Orders : orders[o] # "gone"}

(* Every variable stays in its type, and every list within its window. *)
BreakerTypeOK ==
  /\ cb \in Breakers
  /\ orders \in [Orders -> Slips \cup {"none", "gone"}]
  /\ phase \in {"rest", "existing", "recs", "new"}
  /\ todo \subseteq Alive
  /\ recs \in 0..MaxRecs
  /\ running \in BOOLEAN
  /\ openFor \in 0..Later
  /\ last \in {"bad", "fill", "approval", "button", "other"}

-----------------------------------------------------------------------------
(* What is recorded *)

Unbounded(count, window) == count + 1                               \* mutant
Counted(count, window) == Least(count + 1, window)

Trimmed(list, window) == IF Len(list) > window THEN Tail(list) ELSE list

recordReject(b) == [b EXCEPT !.rejects = Counted(b.rejects, RejectWindow)]
ApprovalIgnored(b) == b                                             \* mutant
recordApproval(b) == [b EXCEPT !.rejects = Room(b.rejects, 1)]
recordSlipEvent(b, slip) == [b EXCEPT !.slips = Trimmed(Append(b.slips, slip), SlipWindow)]
recordPoorFill(b) == [b EXCEPT !.poor = Counted(b.poor, PoorWindow)]
recordInvalidData(b) == [b EXCEPT !.invalid = Counted(b.invalid, InvalidWindow)]

HighSlips(b) == Cardinality({i \in DOMAIN b.slips : b.slips[i] = "high"})

-----------------------------------------------------------------------------
(* Tripping and recovering *)

TripNoTime(b) ==                                                    \* mutant
  [b EXCEPT !.state = "open", !.halfOpenFills = 0]
tripCB(b) == [b EXCEPT !.state = "open", !.age = 0, !.halfOpenFills = 0]

Recovered(b) ==
  IF b.state = "open" /\ b.age > RecoveryTicks
  THEN [b EXCEPT !.state = "half_open", !.halfOpenFills = 0] ELSE b

Closes(b) ==
  /\ b.state = "half_open"
  /\ b.halfOpenFills >= MinProbeFills
  /\ b.rejects = 0

Probed(b) ==
  IF Closes(b) THEN [b EXCEPT !.state = "closed", !.halfOpenFills = 0] ELSE b

Breached(b, breach) == IF b.state # "open" /\ breach THEN tripCB(b) ELSE b
Slipped(b) ==
  IF b.state # "open" /\ HighSlips(b) >= SlipThreshold
  THEN [tripCB(b) EXCEPT !.slips = <<>>] ELSE b
RejectedKeepsList(b) ==                                             \* mutant
  IF b.state # "open" /\ b.rejects >= RejectThreshold THEN tripCB(b) ELSE b
Rejected(b) ==
  IF b.state # "open" /\ b.rejects >= RejectThreshold
  THEN [tripCB(b) EXCEPT !.rejects = 0] ELSE b
FilledPoorly(b) ==
  IF b.state # "open" /\ b.poor >= PoorThreshold
  THEN [tripCB(b) EXCEPT !.poor = 0] ELSE b
Misled(b) ==
  IF b.state # "open" /\ b.invalid >= InvalidThreshold
  THEN [tripCB(b) EXCEPT !.invalid = 0] ELSE b

TripsFirst(b, breach) ==                                            \* mutant
  Probed(Recovered(Misled(FilledPoorly(Rejected(Slipped(Breached(b, breach)))))))
updateCB(b, breach) ==
  Misled(FilledPoorly(Rejected(Slipped(Breached(Probed(Recovered(b)), breach)))))

-----------------------------------------------------------------------------
(* The tick *)

(* The clock has moved on; each market found invalid is recorded. *)
BeginTick ==
  /\ running /\ phase = "rest"
  /\ \E n \in 0..MaxInvalid :
       /\ cb' = [cb EXCEPT !.age = Least(@ + 1, Later),
                           !.invalid = Least(@ + n, InvalidWindow)]
       /\ last' = IF n > 0 THEN "bad" ELSE "other"
  /\ phase' = "existing" /\ todo' = Alive /\ recs' = MaxRecs
  /\ UNCHANGED <<orders, running, openFor>>

(* What advancing an order may show: how many fills, their slip ("none" if *)
(* there are none), whether a child was dropped for its slip, whether the  *)
(* order is over, whether it ends up poorly filled.                        *)
Results(o) ==
  {r \in [fills : 0..MinProbeFills, slip : Slips \cup {"none"},
          dropped : BOOLEAN, over : BOOLEAN, poor : BOOLEAN] :
     /\ (r.fills = 0) <=> (r.slip = "none")
     /\ r.over => r.fills > 0 \/ orders[o] # "none" \/ r.dropped
     /\ r.poor => r.fills > 0 \/ r.dropped}

(* An order keeps the slip of its last fills; it is rejected if it ends    *)
(* without any.                                                            *)
SlipOf(o, r) == IF r.fills > 0 THEN r.slip ELSE orders[o]
IsRejected(o, r) == r.over /\ SlipOf(o, r) = "none"

AfterSlips(b, o, r) ==
  LET dropped == IF r.dropped THEN recordSlipEvent(b, "high") ELSE b IN
  IF SlipOf(o, r) # "none" THEN recordSlipEvent(dropped, SlipOf(o, r)) ELSE dropped

AfterFills(b, r) ==
  IF b.state = "half_open"
  THEN [b EXCEPT !.halfOpenFills = Least(@ + r.fills, MinProbeFills)] ELSE b

Reported(o, r) ==
  LET slips   == AfterSlips(cb, o, r)
      rejects == IF IsRejected(o, r) THEN recordReject(slips) ELSE slips
      poor    == IF r.poor THEN recordPoorFill(rejects) ELSE rejects
  IN AfterFills(poor, r)

IsBad(o, r) == r.dropped \/ r.poor \/ SlipOf(o, r) = "high"

(* processOrder.  An order that ends may leave another in its place, which *)
(* is worked on in the next tick, like a deferred one.                     *)
AdvanceOrder(o) ==
  /\ o \in todo /\ phase \in {"existing", "new"}
  /\ \E r \in Results(o) :
       /\ cb' = Reported(o, r)
       /\ \E left \in IF r.over THEN {"gone", "none"} ELSE {SlipOf(o, r)} :
            orders' = [orders EXCEPT ![o] = left]
       /\ last' = IF IsBad(o, r) THEN "bad" ELSE IF r.fills > 0 THEN "fill" ELSE "other"
  /\ todo' = todo \ {o}
  /\ UNCHANGED <<phase, recs, running, openFor>>

EndPass ==
  /\ todo = {} /\ phase = "existing"
  /\ phase' = "recs" /\ last' = "other"
  /\ UNCHANGED <<cb, orders, todo, recs, running, openFor>>

(* What processSigs may be asked, the recommendation it makes of it, and   *)
(* what the check says of that.                                            *)
SizeOf(ask)  == Sized(cb.state, ask.want, ask.price, ask.book)
Verdict(ask) == preTradeRisk(cb.state, [sz |-> SizeOf(ask), price |-> ask.price], ask.book)
Asks == {ask \in [want : Wants, price : Asked, book : Seen] : WorthIt(SizeOf(ask), ask.price)}

(* The orders made in this phase are advanced in the next. *)
Approve ==
  /\ phase = "recs" /\ recs > 0
  /\ \E ask \in Asks : Verdict(ask).ok
  /\ cb' = recordApproval(cb)
  /\ \E o \in Orders \ Alive :
       /\ orders' = [orders EXCEPT ![o] = "none"]
       /\ todo' = todo \cup {o}
  /\ recs' = recs - 1 /\ last' = "approval"
  /\ UNCHANGED <<phase, running, openFor>>

Refuse ==
  /\ phase = "recs" /\ recs > 0
  /\ \E ask \in Asks : ~Verdict(ask).ok
  /\ cb' = recordReject(cb)
  /\ recs' = recs - 1 /\ last' = "bad"
  /\ UNCHANGED <<orders, phase, todo, running, openFor>>

EndRecs ==
  /\ phase = "recs"
  /\ phase' = "new" /\ last' = "other"
  /\ UNCHANGED <<cb, orders, todo, recs, running, openFor>>

EndTick ==
  /\ todo = {} /\ phase = "new"
  /\ \E breach \in BOOLEAN :
       /\ cb' = updateCB(cb, breach)
       /\ last' = IF breach THEN "bad" ELSE "other"
  /\ openFor' = IF cb'.state = "open" /\ cb.state = "open" THEN Least(openFor + 1, Later) ELSE 0
  /\ phase' = "rest" /\ recs' = 0
  /\ UNCHANGED <<orders, todo, running>>

TickStep ==
  \/ BeginTick \/ EndPass \/ Approve \/ Refuse \/ EndRecs \/ EndTick
  \/ \E o \in Orders : AdvanceOrder(o)

(* START and STOP are one button; pressed while the breaker is open, it    *)
(* resets it.                                                              *)
PressButton ==
  /\ phase = "rest"
  /\ running' = ~running
  /\ cb' = IF cb.state # "open" THEN cb
           ELSE [cb EXCEPT !.state = "closed", !.halfOpenFills = 0,
                           !.slips = <<>>, !.rejects = 0, !.poor = 0, !.invalid = 0]
  /\ openFor' = 0 /\ last' = "button"
  /\ UNCHANGED <<orders, phase, todo, recs>>

Init ==
  /\ cb = [state |-> "closed", age |-> Later, halfOpenFills |-> 0,
           slips |-> <<>>, rejects |-> 0, poor |-> 0, invalid |-> 0]
  /\ orders = [o \in Orders |-> "gone"]
  /\ phase = "rest" /\ todo = {} /\ recs = 0
  /\ running = FALSE
  /\ openFor = 0 /\ last = "other"

Next == TickStep \/ PressButton
Spec == Init /\ [][Next]_vars

(* While the dashboard runs its interval keeps ticking, and a tick ends. *)
FairSpec == Spec /\ WF_vars(TickStep)

-----------------------------------------------------------------------------
(* Properties *)

Healthy(b) ==
  /\ HighSlips(b) < SlipThreshold
  /\ b.rejects < RejectThreshold
  /\ b.poor < PoorThreshold
  /\ b.invalid < InvalidThreshold

(* system.js:112-141: whatever a tick recorded and whatever it recovered   *)
(* from, it does not end with a breaker that lets orders through although  *)
(* a list has reached its threshold.                                       *)
HealthyUnlessOpen == phase = "rest" /\ cb.state # "open" => Healthy(cb)

(* system.js:103-126: once open, the breaker stays open for the whole      *)
(* recovery time of its last trip, unless the button resets it.            *)
PauseLasts ==
  [][cb.state = "open" /\ cb'.state # "open" /\ last' # "button"
       => openFor >= RecoveryTicks]_vars

(* alpha.js:316-355 and risk.js:54-113: what the check leaves of a         *)
(* recommendation is what the sizing asked for, as long as there is no     *)
(* drawdown and the exposure has not grown since the last tick: the two    *)
(* agree on every limit, the half-open cap included.                       *)
SizingAgrees ==
  \A ask \in [want : Wants, price : Asked, book : Seen] :
    ask.book.scale = 100 /\ ask.book.grossNow <= ask.book.gross
      => Verdict(ask).sz = SizeOf(ask)

Quiet == last # "bad"

(* system.js:135-139: once nothing bad is reported any more the breaker    *)
(* recovers for good: each trip clears the list that caused it, so what is *)
(* left from before can trip it only a few times more.                     *)
QuietRecovers == <>[]Quiet => <>[](cb.state # "open")

(* system.js:127-131 and 151-155: and if then recommendations are approved *)
(* and orders filled again and again, a probe closes it for good.          *)
ProbesClose ==
  <>[]Quiet /\ []<>(last = "approval") /\ []<>(last = "fill")
    => <>[](cb.state = "closed")

=============================================================================
