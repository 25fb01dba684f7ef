----------------------------- MODULE SimOrders -----------------------------
(***************************************************************************)
(* The simulator's orders (src/engine/execution.js) and the steps of a     *)
(* tick that drive them (src/engine/tick.js 200-298): three passes over    *)
(* deferred, existing and new orders, each with a queue of spawned ones;   *)
(* then the fills of the tick are applied to the ledger and reconciled.    *)
(* A tick runs in one piece; its steps are separate here so that each      *)
(* choice of the market (what of a child order is matched, how far the     *)
(* price has drifted) is a step of its own.  Prices are abstracted.        *)
(***************************************************************************)
EXTENDS Integers, Sequences, FiniteSetsExt

CONSTANTS
  MaxSize,          \* bound: sizes of orders
  Sizes,            \* sizes a recommendation may get from the risk check
  Dirs,             \* sides of the recommendations
  Strats,           \* strategies used: a subset of {"patient", "aggressive", "twap"}
  PatientSlice,     \* the largest child of a patient order: 200 in the code
  TwapSlices,       \* config twapSlices
  MinQty,           \* config partialMinQty
  RetryBudget,      \* config partialRetryBudget
  MaxSpawnDepth, MaxSpawns,  \* config maxSpawnDepth, maxSpawnsPerTick
  MaxNew,           \* bound: orders from recommendations
  MaxOrders,        \* bound: orders altogether
  None

ASSUME SizesAssumption ==
  /\ MaxSize \in Nat
  /\ Sizes \subseteq 1..MaxSize
  /\ Dirs \subseteq {"YES", "NO"}
  /\ Strats \subseteq {"patient", "aggressive", "twap"}
  /\ {PatientSlice, TwapSlices, MinQty} \subseteq Nat \ {0}
  /\ {RetryBudget, MaxSpawnDepth, MaxSpawns, MaxNew, MaxOrders} \subseteq Nat
  /\ MaxNew <= MaxOrders

Ids == 1..MaxOrders

VARIABLES
  order,     \* order[id]: the order, or None
  seq,       \* orders created so far
  orders,    \* ids of the active orders
  history,   \* ids of the orders in orderHistory
  deferred,  \* ids of deferredSpawns
  fills,     \* the ledger of fills
  fillKeys,  \* keys of fills that are not to be repeated
  newFills,  \* allNewFills: the fills of this tick
  phase,     \* pass of the tick
  todo,      \* initial orders still to be processed in this pass
  queue,     \* spawnQueue: orders spawned in this pass, with their depth
  spawns,    \* totalSpawns of this pass
  active,    \* orders that stay active after this pass
  cur        \* the order in process, the child reached, the size counted as filled

bookVars == <<orders, history, deferred>>
fillVars == <<fills, fillKeys, newFills>>
passVars == <<phase, todo, queue, spawns, active>>
vars     == <<order, seq, bookVars, fillVars, passVars, cur>>

Terminal == {"FILLED", "CANCELLED", "REJECTED", "REPLACED"}
Pending  == {"NEW", "ACCEPTED"}

Children ==
  [n : Nat, gen : Nat, sz : Nat, st : Pending \cup {"FILLED", "CANCELLED", "REJECTED"}]

Orders ==
  [kind     : {"new", "replacement", "unwind"},
   dir      : {"YES", "NO"},
   parentSz : Nat,
   strat    : {"patient", "aggressive", "twap"},
   children : Seq(Children),
   status   : Pending \cup Terminal \cup {"PARTIALLY_FILLED"},
   totalFilled : Nat,
   retryBudget : Nat,
   retryGen    : Nat,
   replacedBy  : Ids \cup {None},
   parent      : Ids \cup {None}]

Keys  == Ids \X Nat \X Nat
Fills == [key : Keys, order : Ids, qty : Nat]
Hands == [id : Ids, depth : Nat, at : Nat, filled : Nat]

ASSUME NoIdAssumption == None \notin Nat /\ None \notin Hands

(* Every variable stays in its type. *)
SimTypeOK ==
  /\ order \in [Ids -> Orders \cup {None}]
  /\ seq \in 0..MaxOrders
  /\ orders \in Seq(Ids) /\ active \in Seq(Ids) /\ todo \in Seq(Ids) /\ deferred \in Seq(Ids)
  /\ history \subseteq Ids
  /\ fills \subseteq Fills /\ newFills \subseteq Fills
  /\ fillKeys \subseteq Keys
  /\ phase \in {"rest", "deferred", "existing", "recs", "new", "apply"}
  /\ queue \in Seq([id : Ids, depth : Nat])
  /\ spawns \in Nat
  /\ cur \in Hands \cup {None}

-----------------------------------------------------------------------------
(* Building orders *)

Least(a, b) == IF a <= b THEN a ELSE b
Ceiling(a, b) == (a + b - 1) \div b

SliceSize(total, strat) ==
  CASE strat = "twap"       -> Ceiling(total, TwapSlices)
    [] strat = "aggressive" -> total
    [] OTHER                -> Least(PatientSlice, total)

BuildOneMore(total, strat, gen) ==                                  \* mutant
  LET slice == SliceSize(total, strat) IN
  [i \in 1..(Ceiling(total, slice) + 1) |->
     [n |-> i, gen |-> gen, sz |-> Least(total - (i - 1) * slice, slice), st |-> "NEW"]]
BuildChildren(total, strat, gen) ==
  LET slice == SliceSize(total, strat) IN
  [i \in 1..Ceiling(total, slice) |->
     [n |-> i, gen |-> gen, sz |-> Least(total - (i - 1) * slice, slice), st |-> "NEW"]]

NewOrder(kind, dir, size, strat, budget, parent) ==
  [kind |-> kind, dir |-> dir, parentSz |-> size, strat |-> strat,
   children |-> BuildChildren(size, strat, 0),
   status |-> "NEW", totalFilled |-> 0, retryBudget |-> budget, retryGen |-> 0,
   replacedBy |-> None, parent |-> parent]

Opposite(dir) == IF dir = "YES" THEN "NO" ELSE "YES"

-----------------------------------------------------------------------------
(* A tick and its passes *)

Idle == cur = None /\ todo = <<>> /\ queue = <<>>

(* The deferred orders of the tick before come first. *)
TickBegins ==
  /\ phase = "rest"
  /\ phase' = "deferred"
  /\ todo' = deferred
  /\ deferred' = <<>>
  /\ newFills' = {}
  /\ UNCHANGED <<order, seq, orders, history, fills, fillKeys, queue, spawns, active, cur>>

(* What is left of the deferred pass is processed again with the others. *)
DeferredPassEnds ==
  /\ phase = "deferred" /\ Idle
  /\ phase' = "existing"
  /\ todo' = orders \o active
  /\ orders' = <<>> /\ active' = <<>>
  /\ spawns' = 0
  /\ UNCHANGED <<order, seq, history, deferred, fillVars, queue, cur>>

ExistingPassEnds ==
  /\ phase = "existing" /\ Idle
  /\ phase' = "recs"
  /\ orders' = active
  /\ active' = <<>>
  /\ spawns' = 0
  /\ UNCHANGED <<order, seq, history, deferred, fillVars, todo, queue, cur>>

CreateOrder(dir, size, strat) ==
  /\ phase = "recs"
  /\ seq < MaxNew
  /\ seq' = seq + 1
  /\ order' = [order EXCEPT ![seq'] = NewOrder("new", dir, size, strat, RetryBudget, None)]
  /\ todo' = Append(todo, seq')
  /\ UNCHANGED <<bookVars, fillVars, phase, queue, spawns, active, cur>>

NoMoreOrders ==
  /\ phase = "recs"
  /\ phase' = "new"
  /\ UNCHANGED <<order, seq, bookVars, fillVars, todo, queue, spawns, active, cur>>

NewPassEnds ==
  /\ phase = "new" /\ Idle
  /\ phase' = "apply"
  /\ orders' = orders \o active
  /\ active' = <<>>
  /\ spawns' = 0
  /\ UNCHANGED <<order, seq, history, deferred, fillVars, todo, queue, cur>>

(* applyFills: the fills whose keys are not known yet enter the ledger. *)
Applied == {f \in newFills : f.key \notin fillKeys}

(* reconcile resets the keys to those of the ledger. *)
ApplyFills ==
  /\ phase = "apply"
  /\ phase' = "rest"
  /\ fills' = fills \cup Applied
  /\ fillKeys' = {f.key : f \in fills'}
  /\ UNCHANGED <<order, seq, bookVars, newFills, todo, queue, spawns, active, cur>>

-----------------------------------------------------------------------------
(* The order to be processed next *)

Passing == phase \in {"deferred", "existing", "new"}

Process(id, depth) ==
  /\ cur' = [id |-> id, depth |-> depth, at |-> 1, filled |-> 0]
  /\ order' = [order EXCEPT ![id].status = IF @ = "NEW" THEN "ACCEPTED" ELSE @]

TakeOrder ==
  /\ Passing /\ cur = None /\ todo # <<>>
  /\ Process(Head(todo), 0)
  /\ todo' = Tail(todo)
  /\ UNCHANGED <<seq, bookVars, fillVars, phase, queue, spawns, active>>

WithinLimits(depth) == depth <= MaxSpawnDepth /\ spawns < MaxSpawns

TakeSpawn ==
  /\ Passing /\ cur = None /\ todo = <<>> /\ queue # <<>>
  /\ WithinLimits(Head(queue).depth)
  /\ Process(Head(queue).id, Head(queue).depth)
  /\ queue' = Tail(queue)
  /\ spawns' = spawns + 1
  /\ UNCHANGED <<seq, bookVars, fillVars, phase, todo, active>>

DropSpawn == UNCHANGED deferred                                     \* mutant
DeferHead == deferred' = Append(deferred, Head(queue).id)

DeferSpawn ==
  /\ Passing /\ cur = None /\ todo = <<>> /\ queue # <<>>
  /\ ~WithinLimits(Head(queue).depth)
  /\ DeferHead
  /\ queue' = Tail(queue)
  /\ UNCHANGED <<order, seq, orders, history, fillVars, phase, todo, spawns, active, cur>>

-----------------------------------------------------------------------------
(* advanceOrderFills: the children in turn *)

Current  == order[cur.id]
Child    == Current.children[cur.at]
ToChild  == cur # None /\ cur.at <= Len(Current.children)
Key      == <<cur.id, Child.n, Child.gen>>

(* The child reached is replaced by ch, and the next one is reached. *)
PassChild(ch, counted) ==
  /\ order' = [order EXCEPT ![cur.id].children[cur.at] = ch]
  /\ cur' = [cur EXCEPT !.at = @ + 1, !.filled = @ + counted]

ChildOver ==
  /\ ToChild
  /\ Child.st \notin Pending
  /\ PassChild(Child, IF Child.st = "FILLED" THEN Child.sz ELSE 0)
  /\ UNCHANGED <<seq, bookVars, fillVars, passVars>>

ChildRests ==
  /\ ToChild
  /\ Child.st \in Pending
  /\ PassChild([Child EXCEPT !.st = "ACCEPTED"], 0)
  /\ UNCHANGED <<seq, bookVars, fillVars, passVars>>

(* The match is too far from the limit price. *)
ChildSlips ==
  /\ ToChild
  /\ Child.st \in Pending
  /\ PassChild([Child EXCEPT !.st = "REJECTED"], 0)
  /\ UNCHANGED <<seq, bookVars, fillVars, passVars>>

(***************************************************************************)
(* q of the child is matched.  What is left of it is counted alone later.  *)
(* With a key that is known the child is filled and no fill is made.       *)
(***************************************************************************)
ChildFills(q) ==
  /\ ToChild
  /\ Child.st \in Pending
  /\ q <= Child.sz
  /\ IF Key \in fillKeys
       THEN /\ PassChild([Child EXCEPT !.st = "FILLED"], q)
            /\ UNCHANGED fillVars
       ELSE LET f == [key |-> Key, order |-> cur.id, qty |-> q] IN
            /\ PassChild(IF q = Child.sz THEN [Child EXCEPT !.st = "FILLED"]
                                         ELSE [Child EXCEPT !.st = "ACCEPTED", !.sz = @ - q], q)
            /\ newFills' = newFills \cup {f}
            /\ fillKeys' = fillKeys \cup {Key}
            /\ UNCHANGED fills
  /\ UNCHANGED <<seq, bookVars, passVars>>

-----------------------------------------------------------------------------
(* The new status, and resolvePartialFill *)

Reached == cur # None /\ cur.at = Len(Current.children) + 1

HasPending(o) == \E i \in DOMAIN o.children : o.children[i].st \in Pending

StatusAfter(o, filled) ==
  IF filled >= o.parentSz THEN "FILLED"
  ELSE IF filled > 0 THEN "PARTIALLY_FILLED"
  ELSE IF o.status = "ACCEPTED" /\ ~HasPending(o) THEN "REJECTED"
  ELSE o.status

Advanced ==
  [Current EXCEPT !.totalFilled = cur.filled, !.status = StatusAfter(Current, cur.filled)]
Remaining == Advanced.parentSz - Advanced.totalFilled
Partial   == Reached /\ Advanced.status = "PARTIALLY_FILLED"

Cancelling(o, states) ==
  [i \in DOMAIN o.children |->
     IF o.children[i].st \in states THEN [o.children[i] EXCEPT !.st = "CANCELLED"]
                                    ELSE o.children[i]]

(* The order is done for this pass, and sorted by its status. *)
Sorted(o) ==
  /\ cur' = None
  /\ IF o.status \in Terminal
       THEN history' = history \cup {cur.id} /\ UNCHANGED active
       ELSE active' = Append(active, cur.id) /\ UNCHANGED history

Done(o) ==
  /\ order' = [order EXCEPT ![cur.id] = o]
  /\ Sorted(o)
  /\ UNCHANGED <<seq, orders, deferred, fillVars, phase, todo, queue, spawns>>

(* The order is done and has spawned another one. *)
Spawn(o, spawned) ==
  /\ seq < MaxOrders
  /\ seq' = seq + 1
  /\ order' = [order EXCEPT ![cur.id] = o, ![seq'] = spawned]
  /\ Sorted(o)
  /\ queue' = Append(queue, [id |-> seq', depth |-> cur.depth + 1])
  /\ UNCHANGED <<orders, deferred, fillVars, phase, todo, spawns>>

NotPartial ==
  /\ Reached
  /\ Advanced.status # "PARTIALLY_FILLED"
  /\ Done(Advanced)

TooSmall ==
  /\ Partial
  /\ Remaining < MinQty
  /\ Done([Advanced EXCEPT !.status = "CANCELLED", !.children = Cancelling(Advanced, Pending)])

(* The price is near the limit: the rest is tried again. *)
StillWorking(o) == o.children                                       \* mutant
OffTheBook(o) == Cancelling(o, {"ACCEPTED", "REJECTED"})

NextGen(o) == o.retryGen + 1

SameBudget(o) == o.retryBudget                                      \* mutant
LessBudget(o) == o.retryBudget - 1

RetriedInPlace(o) == o                                              \* mutant
Retried(o) ==
  [o EXCEPT !.retryBudget = LessBudget(o),
            !.retryGen = NextGen(o),
            !.children = OffTheBook(o) \o
                           BuildChildren(o.parentSz - o.totalFilled, o.strat, NextGen(o))]

Retry ==
  /\ Partial
  /\ Remaining >= MinQty
  /\ Advanced.retryBudget > 0
  /\ Done(Retried(Advanced))

(* The price has drifted: a new order for the rest, at the price of now. *)
Replace ==
  /\ Partial
  /\ Remaining >= MinQty
  /\ Advanced.retryBudget > 0
  /\ Spawn([Advanced EXCEPT !.status = "REPLACED", !.replacedBy = seq + 1,
                            !.children = Cancelling(Advanced, Pending)],
           NewOrder("replacement", Current.dir, Remaining, Current.strat,
                    LessBudget(Current), cur.id))

(* It has drifted far, or there is no budget: what was filled is closed. *)
Unwind ==
  /\ Partial
  /\ Remaining >= MinQty
  /\ LET unwound == [Advanced EXCEPT !.status = "CANCELLED",
                                     !.children = Cancelling(Advanced, Pending)] IN
     IF Advanced.totalFilled = 0 THEN Done(unwound)
     ELSE Spawn(unwound, NewOrder("unwind", Opposite(Current.dir), Advanced.totalFilled,
                                  "aggressive", 0, cur.id))

-----------------------------------------------------------------------------
(* Specification *)

Init ==
  /\ order = [id \in Ids |-> None] /\ seq = 0
  /\ orders = <<>> /\ history = {} /\ deferred = <<>>
  /\ fills = {} /\ fillKeys = {} /\ newFills = {}
  /\ phase = "rest" /\ todo = <<>> /\ queue = <<>> /\ spawns = 0 /\ active = <<>>
  /\ cur = None

Pass ==
  \/ DeferredPassEnds \/ ExistingPassEnds \/ NoMoreOrders \/ NewPassEnds \/ ApplyFills
  \/ TakeOrder \/ TakeSpawn \/ DeferSpawn
  \/ ChildOver \/ ChildRests \/ ChildSlips
  \/ \E q \in 1..MaxSize : ChildFills(q)
  \/ NotPartial \/ TooSmall \/ Retry \/ Replace \/ Unwind

Next ==
  \/ TickBegins
  \/ \E dir \in Dirs, size \in Sizes, strat \in Strats : CreateOrder(dir, size, strat)
  \/ Pass

Spec == Init /\ [][Next]_vars

(* Ticks come for ever (App.jsx calls one every two seconds) and run through. *)
FairSpec == Spec /\ WF_vars(TickBegins) /\ WF_vars(Pass)

-----------------------------------------------------------------------------
(* Properties *)

Created   == 1..seq
AtRest    == phase = "rest"
Places(id) == {<<"active", i>>   : i \in {j \in DOMAIN orders : orders[j] = id}}
         \cup {<<"deferred", i>> : i \in {j \in DOMAIN deferred : deferred[j] = id}}
         \cup {<<"history", i>>  : i \in history \cap {id}}

(***************************************************************************)
(* Between ticks no order is lost or kept twice, whatever spawned and was  *)
(* deferred on the way; history holds exactly the orders that are over.    *)
(***************************************************************************)
EveryOrderOnce ==
  AtRest => \A id \in Created :
              /\ Cardinality(Places(id)) = 1
              /\ id \in history <=> order[id].status \in Terminal

OnTheBook(o) ==
  MapThenSumSet(LAMBDA i : o.children[i].sz,
                {i \in DOMAIN o.children : o.children[i].st \in Pending})

(***************************************************************************)
(* An active order has something on the book, or nobody would ever look at *)
(* it again; and by its own count never more than it lacks, however often  *)
(* its children slipped or it was tried again.                             *)
(***************************************************************************)
RestsWhatItLacks ==
  AtRest => \A i \in DOMAIN orders :
              LET o == order[orders[i]] IN
              /\ OnTheBook(o) > 0
              /\ o.totalFilled + OnTheBook(o) <= o.parentSz

(***************************************************************************)
(* Chains of replacements and unwinds end: an order has one successor at   *)
(* most, which has less budget or a smaller size, and never more of them.  *)
(***************************************************************************)
ChainsEnd ==
  \A id \in Created :
    LET o == order[id]
        p == order[o.parent]
    IN
    o.parent # None =>
      /\ p.status = "REPLACED" => p.replacedBy = id /\ o.dir = p.dir
      /\ o.retryBudget <= p.retryBudget /\ o.parentSz <= p.parentSz
      /\ o.retryBudget + o.parentSz < p.retryBudget + p.parentSz
      /\ \A other \in Created \ {id} : order[other].parent # o.parent

IsPartial(id) == order[id] # None /\ order[id].status = "PARTIALLY_FILLED"
IsOver(id)    == order[id] # None /\ order[id].status \in Terminal

(* A partially filled order is worked on, tick by tick, until it is over. *)
PartialResolves == \A id \in Ids : IsPartial(id) ~> IsOver(id)

=============================================================================
