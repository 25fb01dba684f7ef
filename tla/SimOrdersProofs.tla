-------------------------- MODULE SimOrdersProofs --------------------------
(***************************************************************************)
(* Theorems about the simulator's orders: for any sizes, budgets and       *)
(* limits on what a pass may spawn, and whatever the market matches.       *)
(***************************************************************************)
EXTENDS SimOrders, SequenceTheorems, FiniteSetTheorems, WellFoundedInduction, TLAPS

-----------------------------------------------------------------------------
(* The inductive invariant *)

Held(s)   == {s[i] : i \in DOMAIN s}
NoneTwice(s) == \A i, j \in DOMAIN s : s[i] = s[j] => i = j

IdsOf(q) == [i \in DOMAIN q |-> q[i].id]
InHand(hand) == IF hand = None THEN {} ELSE {hand.id}

HandKnown == cur # None => cur.at \in Nat \ {0}

(* What is empty between the passes. *)
PhaseKnown ==
  /\ phase \in {"rest", "apply", "recs"} => cur = None /\ queue = <<>> /\ active = <<>>
  /\ phase \in {"rest", "apply"} => todo = <<>>
  /\ phase = "existing" => orders = <<>>

(* Every order is in one place, and there once. *)
NoneTwiceAnywhere ==
  /\ NoneTwice(orders) /\ NoneTwice(deferred) /\ NoneTwice(todo)
  /\ NoneTwice(IdsOf(queue)) /\ NoneTwice(active)

OnePlace ==
  \A id \in Ids :
    /\ id \in Created <=>
         \/ id \in Held(orders) \/ id \in Held(deferred) \/ id \in Held(todo)
         \/ id \in Held(IdsOf(queue)) \/ id \in Held(active) \/ id \in InHand(cur)
         \/ id \in history
    /\ id \in Held(orders) =>
         /\ id \notin Held(deferred) /\ id \notin Held(todo) /\ id \notin Held(IdsOf(queue))
         /\ id \notin Held(active) /\ id \notin InHand(cur) /\ id \notin history
    /\ id \in Held(deferred) =>
         /\ id \notin Held(todo) /\ id \notin Held(IdsOf(queue))
         /\ id \notin Held(active) /\ id \notin InHand(cur) /\ id \notin history
    /\ id \in Held(todo) =>
         /\ id \notin Held(IdsOf(queue)) /\ id \notin Held(active)
         /\ id \notin InHand(cur) /\ id \notin history
    /\ id \in Held(IdsOf(queue)) =>
         id \notin Held(active) /\ id \notin InHand(cur) /\ id \notin history
    /\ id \in Held(active) => id \notin InHand(cur) /\ id \notin history
    /\ id \in InHand(cur) => id \notin history

HistoryIsOver == \A id \in Created : id \in history <=> order[id].status \in Terminal

(* An order that has a successor is over, and no longer changes. *)
ParentsOver ==
  \A id \in Created :
    order[id].parent # None =>
      order[id].parent \in Created /\ order[order[id].parent].status \in Terminal

(* The orders that exist are those created. *)
TablesKnown ==
  /\ order \in [Ids -> Orders \cup {None}] /\ seq \in 0..MaxOrders
  /\ \A id \in Created : order[id] \in Orders
  /\ ParentsOver /\ ChainsEnd

ListsKnown == NoneTwiceAnywhere /\ OnePlace
SimInv == SimTypeOK /\ TablesKnown /\ HandKnown /\ PhaseKnown /\ ListsKnown /\ HistoryIsOver

-----------------------------------------------------------------------------
(* The lists *)

LEMMA HeldEmpty == Held(<<>>) = {} /\ NoneTwice(<<>>)
  BY DEF Held, NoneTwice

LEMMA HeldAppend ==
  ASSUME NEW S, NEW s \in Seq(S), NEW e \in S
  PROVE  /\ Append(s, e) \in Seq(S)
         /\ Held(Append(s, e)) = Held(s) \cup {e}
         /\ NoneTwice(s) /\ e \notin Held(s) => NoneTwice(Append(s, e))
<1>1. PICK a : a = Append(s, e)
  OBVIOUS
<1>2. /\ a \in Seq(S) /\ DOMAIN a = 1..(Len(s) + 1) /\ DOMAIN s = 1..Len(s) /\ Len(s) \in Nat
      /\ \A i \in DOMAIN s : a[i] = s[i]
      /\ a[Len(s) + 1] = e
  BY <1>1
<1>3. Held(a) = Held(s) \cup {e}
  BY <1>2 DEF Held
<1>4. NoneTwice(s) /\ e \notin Held(s) => NoneTwice(a)
  <2> SUFFICES ASSUME NoneTwice(s), e \notin Held(s), NEW i \in DOMAIN a, NEW j \in DOMAIN a,
                      a[i] = a[j]
               PROVE  i = j
    BY DEF NoneTwice
  <2>1. \A k \in DOMAIN a : k = Len(s) + 1 \/ (k \in DOMAIN s /\ a[k] = s[k] /\ a[k] # e)
    BY <1>2 DEF Held
  <2> QED
    BY <1>2, <2>1 DEF NoneTwice
<1> QED
  BY <1>1, <1>2, <1>3, <1>4

LEMMA HeldHead ==
  ASSUME NEW S, NEW s \in Seq(S), s # <<>>
  PROVE  /\ Head(s) \in S /\ Tail(s) \in Seq(S)
         /\ Held(s) = {Head(s)} \cup Held(Tail(s))
         /\ NoneTwice(s) => Head(s) \notin Held(Tail(s)) /\ NoneTwice(Tail(s))
<1>1. PICK t : t = Tail(s)
  OBVIOUS
<1>2. /\ t \in Seq(S) /\ Len(s) \in Nat /\ Len(s) > 0 /\ DOMAIN s = 1..Len(s)
      /\ DOMAIN t = 1..(Len(s) - 1)
      /\ \A i \in DOMAIN t : t[i] = s[i + 1]
      /\ Head(s) = s[1] /\ s[1] \in S
  BY <1>1
<1>3. \A i \in DOMAIN s : i = 1 \/ (i - 1 \in DOMAIN t /\ s[i] = t[i - 1])
  BY <1>2
<1>4. \A i \in DOMAIN t : i + 1 \in DOMAIN s /\ i + 1 # 1
  BY <1>2
<1>5. Held(s) = {s[1]} \cup Held(t)
  BY <1>2, <1>3, <1>4 DEF Held
<1>6. NoneTwice(s) => s[1] \notin Held(t)
  BY <1>2, <1>4 DEF NoneTwice, Held
<1>7. NoneTwice(s) => NoneTwice(t)
  BY <1>2, <1>4 DEF NoneTwice
<1> QED
  BY <1>1, <1>2, <1>5, <1>6, <1>7

LEMMA HeldJoin ==
  ASSUME NEW S, NEW s \in Seq(S), NEW t \in Seq(S)
  PROVE  /\ s \o t \in Seq(S)
         /\ Held(s \o t) = Held(s) \cup Held(t)
         /\ NoneTwice(s) /\ NoneTwice(t) /\ Held(s) \cap Held(t) = {} => NoneTwice(s \o t)
<1>1. PICK j : j = s \o t
  OBVIOUS
<1>2. /\ j \in Seq(S) /\ DOMAIN j = 1..(Len(s) + Len(t))
      /\ DOMAIN s = 1..Len(s) /\ DOMAIN t = 1..Len(t) /\ Len(s) \in Nat /\ Len(t) \in Nat
      /\ \A i \in DOMAIN j : j[i] = IF i <= Len(s) THEN s[i] ELSE t[i - Len(s)]
  BY <1>1, ConcatProperties
<1>3. \A i \in DOMAIN j : \/ i \in DOMAIN s /\ j[i] = s[i]
                          \/ i - Len(s) \in DOMAIN t /\ j[i] = t[i - Len(s)]
  BY <1>2
<1>4. \A i \in DOMAIN s : i \in DOMAIN j /\ j[i] = s[i]
  BY <1>2
<1>5. \A i \in DOMAIN t : i + Len(s) \in DOMAIN j /\ j[i + Len(s)] = t[i]
  BY <1>2
<1>6. Held(j) = Held(s) \cup Held(t)
  BY <1>3, <1>4, <1>5 DEF Held
<1>7. NoneTwice(s) /\ NoneTwice(t) /\ Held(s) \cap Held(t) = {} => NoneTwice(j)
  <2> SUFFICES ASSUME NoneTwice(s), NoneTwice(t), Held(s) \cap Held(t) = {},
                      NEW i \in DOMAIN j, NEW k \in DOMAIN j, j[i] = j[k]
               PROVE  i = k
    BY DEF NoneTwice
  <2>1. \A m \in DOMAIN s, n \in DOMAIN t : s[m] # t[n]
    BY DEF Held
  <2>2. i \in Int /\ k \in Int
    BY <1>2
  <2>3. CASE i \in DOMAIN s /\ j[i] = s[i]
    BY <1>3, <2>1, <2>3 DEF NoneTwice
  <2>4. CASE i - Len(s) \in DOMAIN t /\ j[i] = t[i - Len(s)]
    <3>1. k - Len(s) \in DOMAIN t /\ j[k] = t[k - Len(s)]
      BY <1>3, <2>1, <2>4
    <3>2. i - Len(s) = k - Len(s)
      BY <2>4, <3>1 DEF NoneTwice
    <3> QED
      BY <1>2, <2>2, <3>2
  <2> QED
    BY <1>3, <2>3, <2>4
<1> QED
  BY <1>1, <1>2, <1>6, <1>7

Queued == [id : Ids, depth : Nat]

LEMMA IdsOfQueue ==
  ASSUME NEW q \in Seq(Queued)
  PROVE  /\ IdsOf(q) \in Seq(Ids)
         /\ \A r \in Queued : IdsOf(Append(q, r)) = Append(IdsOf(q), r.id)
         /\ q # <<>> => /\ Head(q) \in Queued /\ Tail(q) \in Seq(Queued)
                        /\ IdsOf(q) # <<>>
                        /\ IdsOf(Tail(q)) = Tail(IdsOf(q)) /\ Head(IdsOf(q)) = Head(q).id
<1>1. PICK ids : ids = IdsOf(q)
  OBVIOUS
<1>2. /\ Len(q) \in Nat /\ DOMAIN q = 1..Len(q)
      /\ \A i \in DOMAIN q : q[i] \in Queued
  OBVIOUS
<1>3. ids \in Seq(Ids) /\ Len(ids) = Len(q) /\ \A i \in 1..Len(q) : ids[i] = q[i].id
  <2>1. ids = [i \in 1..Len(q) |-> q[i].id] /\ \A i \in 1..Len(q) : q[i].id \in Ids
    BY <1>1, <1>2 DEF IdsOf, Queued
  <2> QED
    BY <1>2, <2>1
<1>4. ASSUME NEW r \in Queued PROVE IdsOf(Append(q, r)) = Append(ids, r.id)
  <2>1. r.id \in Ids
    BY DEF Queued
  <2>2. PICK a : a = Append(q, r)
    OBVIOUS
  <2>3. /\ DOMAIN a = 1..(Len(q) + 1) /\ a[Len(q) + 1] = r
        /\ \A i \in 1..Len(q) : a[i] = q[i]
    BY <2>2
  <2>4. PICK b : b = Append(ids, r.id)
    OBVIOUS
  <2>5. /\ b \in Seq(Ids) /\ Len(b) = Len(q) + 1 /\ b[Len(q) + 1] = r.id
        /\ \A i \in 1..Len(q) : b[i] = ids[i]
    BY <1>3, <2>1, <2>4
  <2>6. b = [i \in 1..(Len(q) + 1) |-> b[i]]
    BY <2>5
  <2>7. \A i \in 1..(Len(q) + 1) : b[i] = a[i].id
    BY <1>2, <1>3, <2>3, <2>5
  <2> QED
    BY <2>2, <2>3, <2>4, <2>6, <2>7 DEF IdsOf
<1>5. ASSUME q # <<>>
      PROVE  /\ Head(q) \in Queued /\ Tail(q) \in Seq(Queued) /\ ids # <<>>
             /\ IdsOf(Tail(q)) = Tail(ids) /\ Head(ids) = Head(q).id
  <2>1. Len(q) > 0 /\ ids # <<>> /\ Head(q) \in Queued /\ Head(q) = q[1] /\ Head(ids) = ids[1]
    BY <1>2, <1>3, <1>5
  <2>2. PICK a : a = Tail(q)
    OBVIOUS
  <2>3. /\ a \in Seq(Queued) /\ DOMAIN a = 1..(Len(q) - 1)
        /\ \A i \in 1..(Len(q) - 1) : a[i] = q[i + 1]
    BY <1>2, <1>5, <2>2
  <2>4. PICK b : b = Tail(ids)
    OBVIOUS
  <2>5. /\ b \in Seq(Ids) /\ Len(b) = Len(q) - 1
        /\ \A i \in 1..(Len(q) - 1) : b[i] = ids[i + 1]
    BY <1>3, <2>1, <2>4
  <2>6. b = [i \in 1..(Len(q) - 1) |-> b[i]]
    BY <2>5
  <2>7. \A i \in 1..(Len(q) - 1) : b[i] = a[i].id
    BY <1>2, <1>3, <2>3, <2>5
  <2>8. IdsOf(a) = b
    BY <2>3, <2>6, <2>7 DEF IdsOf
  <2>9. Head(ids) = Head(q).id
    BY <1>2, <1>3, <2>1
  <2> QED
    BY <2>1, <2>2, <2>3, <2>4, <2>8, <2>9
<1> QED
  BY <1>1, <1>3, <1>4, <1>5

-----------------------------------------------------------------------------
(* Orders and their children *)

(* The last slice of a total starts before its end. *)
LEMMA Slices ==
  ASSUME NEW total \in Nat \ {0}, NEW slice \in Nat \ {0}
  PROVE  /\ Ceiling(total, slice) \in Nat \ {0}
         /\ \A i \in 1..Ceiling(total, slice) : (i - 1) * slice < total /\ (i - 1) * slice \in Nat
<1>1. PICK n : n = Ceiling(total, slice)
  OBVIOUS
<1>2. n \in Nat /\ n * slice <= total + slice - 1 /\ n # 0
  BY <1>1 DEF Ceiling
<1>3. ASSUME NEW i \in 1..n PROVE (i - 1) * slice < total /\ (i - 1) * slice \in Nat
  <2>1. i - 1 \in Nat /\ i - 1 <= n - 1 /\ n - 1 \in Nat
    BY <1>2
  <2>2. (i - 1) * slice <= (n - 1) * slice /\ (i - 1) * slice \in Nat
    <3>1. \A a, b \in Nat : a <= b => a * slice <= b * slice /\ a * slice \in Nat
      OBVIOUS
    <3> QED
      BY <2>1, <3>1
  <2>3. (n - 1) * slice = n * slice - slice
    BY <1>2
  <2>4. n * slice \in Nat
    BY <1>2
  <2> QED
    BY <1>2, <2>2, <2>3, <2>4
<1> QED
  BY <1>1, <1>2, <1>3

LEMMA SliceIs ==
  ASSUME SizesAssumption, NEW total \in Nat \ {0}, NEW strat
  PROVE  SliceSize(total, strat) \in Nat \ {0}
<1>1. Ceiling(total, TwapSlices) \in Nat \ {0}
  BY Slices DEF SizesAssumption
<1>2. Least(PatientSlice, total) \in Nat \ {0}
  BY DEF Least, SizesAssumption
<1> QED
  BY <1>1, <1>2 DEF SliceSize

(* Slicing any size gives children, each of some size. *)
LEMMA ChildrenAre ==
  ASSUME SizesAssumption, NEW total \in Nat \ {0}, NEW strat, NEW gen \in Nat
  PROVE  /\ BuildChildren(total, strat, gen) \in Seq(Children)
         /\ Len(BuildChildren(total, strat, gen)) > 0
         /\ \A i \in DOMAIN BuildChildren(total, strat, gen) :
              BuildChildren(total, strat, gen)[i].sz \in 1..total
<1>1. PICK slice \in Nat \ {0} : slice = SliceSize(total, strat)
  BY SliceIs
<1>2. PICK n \in Nat \ {0} : n = Ceiling(total, slice)
  BY Slices
<1>3. \A i \in 1..n : (i - 1) * slice < total /\ (i - 1) * slice \in Nat
  BY <1>2, Slices
<1>4. PICK b : b = BuildChildren(total, strat, gen)
  OBVIOUS
<1>5. b = [i \in 1..n |-> [n |-> i, gen |-> gen, sz |-> Least(total - (i - 1) * slice, slice),
                           st |-> "NEW"]]
  BY <1>1, <1>2, <1>4 DEF BuildChildren
<1>6. \A i \in 1..n : Least(total - (i - 1) * slice, slice) \in 1..total
  <2> SUFFICES ASSUME NEW i \in 1..n
               PROVE  Least(total - (i - 1) * slice, slice) \in 1..total
    OBVIOUS
  <2>1. PICK k \in Nat : k = (i - 1) * slice /\ k < total
    BY <1>3
  <2>2. Least(total - k, slice) \in 1..total
    BY <2>1 DEF Least
  <2> QED
    BY <2>1, <2>2
<1>7. \A i \in 1..n : b[i] \in Children /\ b[i].sz \in 1..total
  <2> SUFFICES ASSUME NEW i \in 1..n PROVE b[i] \in Children /\ b[i].sz \in 1..total
    OBVIOUS
  <2>1. PICK sz \in 1..total : sz = Least(total - (i - 1) * slice, slice)
    BY <1>6
  <2>2. b[i] = [n |-> i, gen |-> gen, sz |-> sz, st |-> "NEW"]
    BY <1>5, <2>1
  <2> QED
    BY <2>2 DEF Children, Pending
<1>8. b \in Seq(Children) /\ Len(b) = n /\ DOMAIN b = 1..n
  <2>1. DOMAIN b = 1..n /\ b = [i \in 1..n |-> b[i]]
    BY <1>5
  <2> QED
    BY <1>7, <2>1
<1> QED
  BY <1>4, <1>7, <1>8

LEMMA NewOrderIs ==
  ASSUME SizesAssumption, NEW kind \in {"new", "replacement", "unwind"}, NEW dir \in {"YES", "NO"},
         NEW size \in Nat \ {0}, NEW strat \in {"patient", "aggressive", "twap"},
         NEW budget \in Nat, NEW parent \in Ids \cup {None},
         NEW o, o = NewOrder(kind, dir, size, strat, budget, parent)
  PROVE  /\ o \in Orders /\ o.status = "NEW" /\ o.parent = parent /\ o.dir = dir
         /\ o.parentSz = size /\ o.retryBudget = budget /\ o.totalFilled = 0
<1>1. PICK b : b = BuildChildren(size, strat, 0)
  OBVIOUS
<1>2. b \in Seq(Children)
  BY <1>1, ChildrenAre
<1> QED
  BY <1>1, <1>2 DEF NewOrder, Orders, Pending

LEMMA CancellingIs ==
  ASSUME NEW o \in Orders, NEW states
  PROVE  Cancelling(o, states) \in Seq(Children)
<1>1. PICK c : c = Cancelling(o, states)
  OBVIOUS
<1>2. PICK ch : ch = o.children
  OBVIOUS
<1>3. ch \in Seq(Children) /\ DOMAIN ch = 1..Len(ch) /\ Len(ch) \in Nat
  BY <1>2 DEF Orders
<1>4. c = [i \in 1..Len(ch) |-> IF ch[i].st \in states THEN [ch[i] EXCEPT !.st = "CANCELLED"]
                                                       ELSE ch[i]]
  BY <1>1, <1>2, <1>3 DEF Cancelling
<1>5. \A i \in 1..Len(ch) : c[i] \in Children
  <2> SUFFICES ASSUME NEW i \in 1..Len(ch) PROVE c[i] \in Children
    OBVIOUS
  <2>1. ch[i] \in Children
    BY <1>3
  <2>2. [ch[i] EXCEPT !.st = "CANCELLED"] \in Children
    BY <2>1 DEF Children
  <2> QED
    BY <1>4, <2>1, <2>2
<1>6. c = [i \in 1..Len(ch) |-> c[i]]
  BY <1>4
<1> QED
  BY <1>1, <1>3, <1>5, <1>6

-----------------------------------------------------------------------------
(* The table of orders *)

(* What may become of an order while it is worked on. *)
Follows(o, was) ==
  /\ o \in Orders
  /\ o.parent = was.parent /\ o.dir = was.dir /\ o.parentSz = was.parentSz
  /\ o.retryBudget <= was.retryBudget

(* A successor's relation to its parent. *)
Succeeds(o, p, id) ==
  /\ p.status = "REPLACED" => p.replacedBy = id /\ o.dir = p.dir
  /\ o.retryBudget <= p.retryBudget /\ o.parentSz <= p.parentSz
  /\ o.retryBudget + o.parentSz < p.retryBudget + p.parentSz

LEMMA StillSucceeds ==
  ASSUME NEW o, NEW was, NEW p, NEW id, Succeeds(was, p, id),
         o.dir = was.dir, o.parentSz = was.parentSz, o.retryBudget <= was.retryBudget,
         o.retryBudget \in Nat, was.retryBudget \in Nat, o.parentSz \in Nat,
         p.retryBudget \in Nat, p.parentSz \in Nat
  PROVE  Succeeds(o, p, id)
  BY DEF Succeeds

LEMMA ChainsAre ==
  /\ ChainsEnd <=>
       \A id \in Created :
         order[id].parent # None =>
           /\ Succeeds(order[id], order[order[id].parent], id)
           /\ \A other \in Created : other # id => order[other].parent # order[id].parent
  /\ ChainsEnd' <=>
       \A id \in Created' :
         order'[id].parent # None =>
           /\ Succeeds(order'[id], order'[order'[id].parent], id)
           /\ \A other \in Created' : other # id => order'[other].parent # order'[id].parent
<1>1. ChainsEnd <=>
       \A id \in Created :
         order[id].parent # None =>
           /\ Succeeds(order[id], order[order[id].parent], id)
           /\ \A other \in Created : other # id => order[other].parent # order[id].parent
  BY DEF ChainsEnd, Succeeds
<1>2. ChainsEnd' <=>
       \A id \in Created' :
         order'[id].parent # None =>
           /\ Succeeds(order'[id], order'[order'[id].parent], id)
           /\ \A other \in Created' : other # id => order'[other].parent # order'[id].parent
  BY DEF ChainsEnd, Succeeds
<1> QED
  BY <1>1, <1>2

LEMMA OrderFields ==
  ASSUME NEW o \in Orders
  PROVE  /\ o.retryBudget \in Nat /\ o.parentSz \in Nat /\ o.retryBudget <= o.retryBudget
         /\ o.parent \in Ids \cup {None}
  BY DEF Orders

LEMMA OneChanges ==
  ASSUME SizesAssumption, TablesKnown, NEW c \in Created, order[c].status \notin Terminal,
         NEW o, Follows(o, order[c]), order' = [order EXCEPT ![c] = o], seq' = seq
  PROVE  TablesKnown'
<1>1. /\ Created \subseteq Ids /\ Created' = Created
      /\ order' \in [Ids -> Orders \cup {None}] /\ seq' \in 0..MaxOrders
      /\ order'[c] = o /\ \A id \in Created : id # c => order'[id] = order[id]
  BY DEF TablesKnown, Created, Ids, SizesAssumption, Follows
<1>2. \A id \in Created : order'[id] \in Orders
  BY <1>1 DEF TablesKnown, Follows
<1>3. \A id \in Created :
        /\ order'[id].parent = order[id].parent /\ order'[id].dir = order[id].dir
        /\ order'[id].parentSz = order[id].parentSz
        /\ order'[id].retryBudget <= order[id].retryBudget
        /\ order'[id].retryBudget \in Nat /\ order[id].retryBudget \in Nat
        /\ order'[id].parentSz \in Nat
  <2>1. \A id \in Created :
          /\ order[id] \in Orders /\ order'[id] \in Orders
          /\ order'[id] = order[id] \/ Follows(order'[id], order[id])
    BY <1>1, <1>2 DEF TablesKnown
  <2> QED
    BY <2>1, OrderFields DEF Follows
<1>4. \A id \in Created :
        order[id].parent # None =>
          /\ order[id].parent \in Created /\ order[id].parent # c
          /\ order'[order[id].parent] = order[order[id].parent]
  BY <1>1 DEF TablesKnown, ParentsOver
<1>5. ParentsOver'
  BY <1>1, <1>3, <1>4 DEF TablesKnown, ParentsOver
<1>6. ChainsEnd'
  <2>1. ASSUME NEW id \in Created, order'[id].parent # None
        PROVE  /\ Succeeds(order'[id], order'[order'[id].parent], id)
               /\ \A other \in Created : other # id => order'[other].parent # order'[id].parent
    <3>1. PICK p : p = order[order[id].parent]
      OBVIOUS
    <3>2. /\ p \in Orders /\ order[id].parent # None /\ order'[order'[id].parent] = p
          /\ order[id] \in Orders
      BY <1>3, <1>4, <2>1, <3>1 DEF TablesKnown
    <3>3. /\ Succeeds(order[id], p, id)
          /\ \A other \in Created : other # id => order[other].parent # order[id].parent
      BY <3>1, <3>2, ChainsAre DEF TablesKnown
    <3>4. p.retryBudget \in Nat /\ p.parentSz \in Nat
      BY <3>2, OrderFields
    <3>5. Succeeds(order'[id], p, id)
      BY <1>3, <3>3, <3>4, StillSucceeds
    <3> QED
      BY <1>3, <3>2, <3>3, <3>5
  <2> QED
    BY <1>1, <2>1, ChainsAre
<1> QED
  BY <1>1, <1>2, <1>5, <1>6 DEF TablesKnown

(* A recommendation's order has no parent. *)
LEMMA OneComes ==
  ASSUME SizesAssumption, TablesKnown, NEW n, n = seq + 1, n <= MaxOrders,
         NEW o \in Orders, o.parent = None,
         order' = [order EXCEPT ![n] = o], seq' = n, None \notin Nat
  PROVE  TablesKnown'
<1>1. /\ Created \subseteq Ids /\ Created' = Created \cup {n} /\ n \notin Created
      /\ n \in Ids /\ None \notin Created
      /\ order' \in [Ids -> Orders \cup {None}] /\ seq' \in 0..MaxOrders
      /\ order'[n] = o /\ \A id \in Created : order'[id] = order[id]
  BY DEF TablesKnown, Created, Ids, SizesAssumption
<1>2. \A id \in Created' : order'[id] \in Orders
  BY <1>1 DEF TablesKnown
<1>3. ParentsOver'
  BY <1>1 DEF TablesKnown, ParentsOver
<1>4. ChainsEnd'
  <2>1. \A id \in Created : order[id].parent # None => order[id].parent \in Created
    BY DEF TablesKnown, ParentsOver
  <2> QED
    BY <1>1, <2>1 DEF TablesKnown, ChainsEnd
<1> QED
  BY <1>1, <1>2, <1>3, <1>4 DEF TablesKnown

(* A successor has less budget than its parent, or a smaller size. *)
LEMMA OneSpawned ==
  ASSUME SizesAssumption, TablesKnown, NEW c \in Created, order[c].status \notin Terminal,
         NEW o, Follows(o, order[c]), o.status \in Terminal,
         NEW n, n = seq + 1, n <= MaxOrders, NEW s \in Orders, s.parent = c, c # None,
         o.status = "REPLACED" => o.replacedBy = n /\ s.dir = o.dir,
         s.retryBudget <= o.retryBudget, s.parentSz <= o.parentSz,
         s.retryBudget + s.parentSz < o.retryBudget + o.parentSz,
         order' = [order EXCEPT ![c] = o, ![n] = s], seq' = n
  PROVE  TablesKnown'
<1>1. /\ Created \subseteq Ids /\ Created' = Created \cup {n} /\ n \notin Created
      /\ n \in Ids /\ n # c
      /\ seq' \in 0..MaxOrders
  BY DEF TablesKnown, Created, Ids, SizesAssumption
<1>2. /\ order' \in [Ids -> Orders \cup {None}]
      /\ order'[n] = s /\ order'[c] = o
      /\ \A id \in Created : id # c => order'[id] = order[id]
  BY <1>1 DEF TablesKnown, Follows
<1>3. \A id \in Created' : order'[id] \in Orders
  BY <1>1, <1>2 DEF TablesKnown, Follows
<1>4. \A id \in Created :
        /\ order'[id].parent = order[id].parent /\ order'[id].dir = order[id].dir
        /\ order'[id].parentSz = order[id].parentSz
        /\ order'[id].retryBudget <= order[id].retryBudget
        /\ order'[id].retryBudget \in Nat /\ order[id].retryBudget \in Nat
        /\ order'[id].parentSz \in Nat
  <2>1. \A id \in Created :
          /\ order[id] \in Orders /\ order'[id] \in Orders
          /\ order'[id] = order[id] \/ Follows(order'[id], order[id])
    BY <1>1, <1>2, <1>3 DEF TablesKnown
  <2> QED
    BY <2>1, OrderFields DEF Follows
<1>5. \A id \in Created :
        order[id].parent # None =>
          /\ order[id].parent \in Created /\ order[id].parent # c
          /\ order'[order[id].parent] = order[order[id].parent]
          /\ order[order[id].parent].status \in Terminal
  BY <1>1, <1>2 DEF TablesKnown, ParentsOver
<1>6. ParentsOver'
  <2> SUFFICES ASSUME NEW id \in Created', order'[id].parent # None,
                      NEW p, p = order'[id].parent
               PROVE  p \in Created' /\ order'[p].status \in Terminal
    BY DEF ParentsOver
  <2>1. CASE id = n
    BY <1>1, <1>2, <2>1
  <2>2. CASE id \in Created
    <3>1. p = order[id].parent
      BY <1>4, <2>2
    <3> QED
      BY <1>1, <1>5, <2>2, <3>1
  <2> QED
    BY <1>1, <2>1, <2>2
<1>7. ASSUME NEW id \in Created, order'[id].parent # None
      PROVE  /\ Succeeds(order'[id], order'[order'[id].parent], id)
             /\ \A other \in Created' : other # id => order'[other].parent # order'[id].parent
  <2>1. PICK p : p = order[order[id].parent]
    OBVIOUS
  <2>2. /\ p \in Orders /\ order[id].parent # None /\ order'[order'[id].parent] = p
    BY <1>4, <1>5, <1>7, <2>1 DEF TablesKnown
  <2>3. /\ Succeeds(order[id], p, id)
        /\ \A other \in Created : other # id => order[other].parent # order[id].parent
    BY <2>1, <2>2, ChainsAre DEF TablesKnown
  <2>4. p.retryBudget \in Nat /\ p.parentSz \in Nat
    BY <2>2, OrderFields
  <2>5. Succeeds(order'[id], p, id)
    BY <1>4, <2>3, <2>4, StillSucceeds
  <2>6. order'[n].parent # order'[id].parent
    BY <1>2, <1>4, <1>5, <2>2
  <2> QED
    BY <1>1, <1>4, <2>2, <2>3, <2>5, <2>6
<1>8. \A other \in Created : order'[other].parent # c
  BY <1>4, <1>5
<1>9. /\ Succeeds(order'[n], order'[order'[n].parent], n)
      /\ \A other \in Created' : other # n => order'[other].parent # order'[n].parent
  <2>1. Succeeds(s, o, n)
    BY DEF Succeeds
  <2>2. order'[n] = s /\ order'[s.parent] = o /\ s.parent = c
    BY <1>2
  <2>3. \A other \in Created' : other # n => order'[other].parent # s.parent
    BY <1>1, <1>8
  <2> QED
    BY <2>1, <2>2, <2>3
<1>10. ChainsEnd'
  <2>1. \A id \in Created' : order'[id].parent # None =>
          /\ Succeeds(order'[id], order'[order'[id].parent], id)
          /\ \A other \in Created' : other # id => order'[other].parent # order'[id].parent
    <3> SUFFICES ASSUME NEW id \in Created', order'[id].parent # None
                 PROVE  /\ Succeeds(order'[id], order'[order'[id].parent], id)
                        /\ \A other \in Created' :
                             other # id => order'[other].parent # order'[id].parent
      OBVIOUS
    <3>1. CASE id = n
      BY <1>9, <3>1
    <3>2. CASE id \in Created
      BY <1>7, <3>2
    <3> QED
      BY <1>1, <3>1, <3>2
  <2> QED
    BY <2>1, ChainsAre
<1> QED
  BY <1>1, <1>2, <1>3, <1>6, <1>10 DEF TablesKnown

-----------------------------------------------------------------------------
(* The steps that move orders from list to list *)

LEMMA TablesStay ==
  ASSUME TablesKnown, HistoryIsOver, UNCHANGED <<order, seq, history>>
  PROVE  TablesKnown' /\ HistoryIsOver'
<1>1. Created' = Created
  BY DEF Created
<1> QED
  BY <1>1 DEF TablesKnown, ParentsOver, ChainsEnd, HistoryIsOver

LEMMA PassEnds ==
  ASSUME SimInv, DeferredPassEnds \/ ExistingPassEnds \/ NewPassEnds
  PROVE  SimInv'
<1>1. /\ orders \in Seq(Ids) /\ active \in Seq(Ids) /\ todo = <<>> /\ queue = <<>> /\ cur = None
      /\ spawns' = 0 /\ active' = <<>>
      /\ UNCHANGED <<order, seq, history, deferred, fillVars, queue, cur>>
      /\ \/ /\ phase' = "existing" /\ todo' = orders \o active /\ orders' = <<>>
         \/ /\ phase = "existing" /\ phase' = "recs" /\ orders' = active /\ todo' = todo
         \/ /\ phase' = "apply" /\ orders' = orders \o active /\ todo' = todo
  BY DEF SimInv, SimTypeOK, Idle, DeferredPassEnds, ExistingPassEnds, NewPassEnds
<1>2. /\ NoneTwiceAnywhere /\ OnePlace /\ SimTypeOK /\ PhaseKnown
      /\ Held(todo) = {} /\ Held(active') = {} /\ NoneTwice(active') /\ Held(<<>>) = {}
      /\ NoneTwice(<<>>)
  BY <1>1, HeldEmpty DEF SimInv, ListsKnown
<1>3. Held(orders) \subseteq Ids /\ Held(active) \subseteq Ids
  BY <1>1 DEF Held
<1>4. /\ orders \o active \in Seq(Ids)
      /\ Held(orders \o active) = Held(orders) \cup Held(active)
      /\ NoneTwice(orders \o active)
  <2>1. Held(orders) \cap Held(active) = {}
    BY <1>2, <1>3 DEF OnePlace
  <2> QED
    BY <1>1, <1>2, <2>1, HeldJoin DEF NoneTwiceAnywhere
<1>5. \/ /\ phase' = "existing" /\ todo' \in Seq(Ids) /\ NoneTwice(todo')
         /\ Held(todo') = Held(orders) \cup Held(active) /\ Held(orders') = {}
         /\ orders' = <<>> /\ NoneTwice(orders')
      \/ /\ phase' \in {"recs", "apply"} /\ todo' = <<>> /\ orders' \in Seq(Ids)
         /\ NoneTwice(orders') /\ Held(todo') = {}
         /\ Held(orders') = Held(orders) \cup Held(active)
  <2>1. CASE phase' = "existing" /\ todo' = orders \o active /\ orders' = <<>>
    BY <1>2, <1>4, <2>1
  <2>2. CASE phase = "existing" /\ phase' = "recs" /\ orders' = active /\ todo' = todo
    <3>1. Held(orders) = {}
      BY <1>2, <2>2 DEF PhaseKnown
    <3> QED
      BY <1>1, <1>2, <2>2, <3>1 DEF NoneTwiceAnywhere
  <2>3. CASE phase' = "apply" /\ orders' = orders \o active /\ todo' = todo
    BY <1>1, <1>2, <1>4, <2>3
  <2> QED
    BY <1>1, <2>1, <2>2, <2>3
<1>6. SimTypeOK'
  BY <1>1, <1>2, <1>5 DEF SimTypeOK, fillVars
<1>7. PhaseKnown'
  BY <1>1, <1>2, <1>5 DEF PhaseKnown
<1>8. NoneTwiceAnywhere'
  BY <1>1, <1>2, <1>5 DEF NoneTwiceAnywhere
<1>9. OnePlace'
  <2>1. Created' = Created
    BY <1>1 DEF Created
  <2>2. UNCHANGED <<deferred, queue, cur, history>>
    BY <1>1
  <2> QED
    BY <1>2, <1>5, <2>1, <2>2 DEF OnePlace
<1>10. HandKnown'
  BY <1>1 DEF HandKnown
<1> QED
  BY <1>1, <1>6, <1>7, <1>8, <1>9, <1>10, TablesStay DEF SimInv, ListsKnown

LEMMA TickBeginsKeeps ==
  ASSUME SimInv, TickBegins
  PROVE  SimInv'
<1>1. /\ phase = "rest" /\ phase' = "deferred" /\ todo' = deferred /\ deferred' = <<>>
      /\ newFills' = {} /\ todo = <<>>
      /\ UNCHANGED <<order, seq, orders, history, fills, fillKeys, queue, spawns, active, cur>>
  BY DEF TickBegins, SimInv, PhaseKnown
<1>2. /\ NoneTwiceAnywhere /\ OnePlace /\ SimTypeOK /\ PhaseKnown
      /\ Held(todo) = {} /\ Held(deferred') = {} /\ NoneTwice(deferred')
  BY <1>1, HeldEmpty DEF SimInv, ListsKnown
<1>3. SimTypeOK'
  BY <1>1, <1>2 DEF SimTypeOK
<1>4. PhaseKnown' /\ HandKnown'
  BY <1>1, <1>2 DEF PhaseKnown, SimInv, HandKnown
<1>5. NoneTwiceAnywhere'
  BY <1>1, <1>2 DEF NoneTwiceAnywhere
<1>6. OnePlace'
  <2>1. Created' = Created
    BY <1>1 DEF Created
  <2> QED
    BY <1>1, <1>2, <2>1 DEF OnePlace
<1> QED
  BY <1>1, <1>3, <1>4, <1>5, <1>6, TablesStay DEF SimInv, ListsKnown

LEMMA DeferSpawnKeeps ==
  ASSUME SimInv, DeferSpawn
  PROVE  SimInv'
<1>1. /\ Passing /\ cur = None /\ todo = <<>> /\ queue # <<>>
      /\ deferred' = Append(deferred, Head(queue).id) /\ queue' = Tail(queue)
      /\ UNCHANGED <<order, seq, orders, history, fillVars, phase, todo, spawns, active, cur>>
  BY DEF DeferSpawn, DeferHead
<1>2. /\ NoneTwiceAnywhere /\ OnePlace /\ SimTypeOK /\ PhaseKnown
      /\ queue \in Seq(Queued) /\ deferred \in Seq(Ids)
  BY DEF SimInv, ListsKnown, SimTypeOK, Queued
<1>3. PICK h : h = Head(queue).id
  OBVIOUS
<1>4. /\ IdsOf(queue) \in Seq(Ids) /\ IdsOf(queue) # <<>> /\ queue' \in Seq(Queued)
      /\ Head(IdsOf(queue)) = h /\ IdsOf(queue') = Tail(IdsOf(queue))
  BY <1>1, <1>2, <1>3, IdsOfQueue
<1>5. /\ h \in Ids /\ Held(IdsOf(queue)) = {h} \cup Held(IdsOf(queue'))
      /\ h \notin Held(IdsOf(queue')) /\ NoneTwice(IdsOf(queue'))
  BY <1>2, <1>4, HeldHead DEF NoneTwiceAnywhere
<1>6. h \notin Held(deferred)
  BY <1>2, <1>5 DEF OnePlace
<1>7. /\ deferred' \in Seq(Ids) /\ Held(deferred') = Held(deferred) \cup {h}
      /\ NoneTwice(deferred')
  BY <1>1, <1>2, <1>3, <1>5, <1>6, HeldAppend DEF NoneTwiceAnywhere
<1>8. SimTypeOK'
  BY <1>1, <1>2, <1>4, <1>7 DEF SimTypeOK, fillVars, Queued
<1>9. PhaseKnown' /\ HandKnown'
  BY <1>1, <1>2 DEF PhaseKnown, SimInv, HandKnown, Passing
<1>10. NoneTwiceAnywhere'
  BY <1>1, <1>2, <1>5, <1>7 DEF NoneTwiceAnywhere
<1>11. OnePlace'
  <2>1. Created' = Created
    BY <1>1 DEF Created
  <2> QED
    BY <1>1, <1>2, <1>5, <1>7, <2>1 DEF OnePlace
<1> QED
  BY <1>1, <1>8, <1>9, <1>10, <1>11, TablesStay DEF SimInv, ListsKnown

(* Entering the fills moves no order. *)
LEMMA QuietSteps ==
  ASSUME SimInv, NoMoreOrders \/ ApplyFills \/ UNCHANGED vars
  PROVE  SimInv'
<1>1. /\ UNCHANGED <<order, seq, orders, history, deferred, todo, queue, active, cur, spawns>>
      /\ newFills' = newFills
      /\ \/ phase = "recs" /\ phase' = "new" /\ UNCHANGED <<fills, fillKeys>>
         \/ phase = "apply" /\ phase' = "rest" /\ ApplyFills
         \/ UNCHANGED <<phase, fills, fillKeys>>
  BY DEF NoMoreOrders, ApplyFills, vars, bookVars, fillVars, passVars
<1>2. /\ NoneTwiceAnywhere /\ OnePlace /\ SimTypeOK /\ PhaseKnown /\ HandKnown
  BY DEF SimInv, ListsKnown
<1>3. fills' \subseteq Fills /\ fillKeys' \subseteq Keys
  <2>1. CASE UNCHANGED <<fills, fillKeys>>
    BY <1>2, <2>1 DEF SimTypeOK
  <2>2. CASE ApplyFills
    <3>1. fills' \subseteq Fills
      BY <1>2, <2>2 DEF SimTypeOK, ApplyFills, Applied
    <3> QED
      BY <2>2, <3>1 DEF ApplyFills, Fills
  <2> QED
    BY <1>1, <2>1, <2>2
<1>4. SimTypeOK'
  BY <1>1, <1>2, <1>3 DEF SimTypeOK
<1>5. PhaseKnown' /\ HandKnown'
  BY <1>1, <1>2 DEF PhaseKnown, HandKnown
<1>6. ListsKnown'
  BY <1>1, <1>2 DEF ListsKnown, NoneTwiceAnywhere, OnePlace, Created
<1> QED
  BY <1>1, <1>4, <1>5, <1>6, TablesStay DEF SimInv

-----------------------------------------------------------------------------
(* An order with some of its fields set *)

Statuses == Pending \cup Terminal \cup {"PARTIALLY_FILLED"}

LEMMA StatusSet ==
  ASSUME NEW was \in Orders, NEW st \in Statuses, NEW o, o = [was EXCEPT !.status = st]
  PROVE  Follows(o, was) /\ o.status = st
<1>1. was.retryBudget <= was.retryBudget
  BY OrderFields
<1> QED
  BY <1>1 DEF Follows, Orders, Statuses

WithFilled(was, filled, st) == [was EXCEPT !.totalFilled = filled, !.status = st]
WithStatus(was, st, ch)     == [was EXCEPT !.status = st, !.children = ch]
WithSuccessor(was, id, ch)  ==
  [was EXCEPT !.status = "REPLACED", !.replacedBy = id, !.children = ch]

LEMMA FilledSet ==
  ASSUME NEW was \in Orders, NEW st \in Statuses, NEW filled \in Nat,
         NEW o, o = WithFilled(was, filled, st)
  PROVE  /\ Follows(o, was) /\ o.status = st /\ o.totalFilled = filled
         /\ o.children = was.children /\ o.retryBudget = was.retryBudget
         /\ o.strat = was.strat /\ o.retryGen = was.retryGen
<1>1. was.retryBudget <= was.retryBudget
  BY OrderFields
<1> QED
  BY <1>1 DEF Follows, Orders, Statuses, WithFilled

LEMMA ChildrenSet ==
  ASSUME NEW was \in Orders, NEW ch \in Seq(Children), NEW o, o = [was EXCEPT !.children = ch]
  PROVE  Follows(o, was) /\ o.status = was.status
<1>1. was.retryBudget <= was.retryBudget
  BY OrderFields
<1> QED
  BY <1>1 DEF Follows, Orders

LEMMA ClosedSet ==
  ASSUME NEW was \in Orders, NEW st \in Statuses, NEW ch \in Seq(Children),
         NEW o, o = WithStatus(was, st, ch)
  PROVE  Follows(o, was) /\ o.status = st /\ o.retryBudget = was.retryBudget
<1>1. was.retryBudget <= was.retryBudget
  BY OrderFields
<1> QED
  BY <1>1 DEF Follows, Orders, Statuses, WithStatus

LEMMA ReplacedSet ==
  ASSUME NEW was \in Orders, NEW ch \in Seq(Children), NEW id \in Ids,
         NEW o, o = WithSuccessor(was, id, ch)
  PROVE  /\ Follows(o, was) /\ o.status = "REPLACED" /\ o.replacedBy = id
         /\ o.retryBudget = was.retryBudget
<1>1. was.retryBudget <= was.retryBudget
  BY OrderFields
<1> QED
  BY <1>1 DEF Follows, Orders, Terminal, WithSuccessor

LEMMA RetriedSet ==
  ASSUME NEW was \in Orders, NEW ch \in Seq(Children), NEW budget \in Nat, NEW gen \in Nat,
         budget <= was.retryBudget,
         NEW o, o = [was EXCEPT !.retryBudget = budget, !.retryGen = gen, !.children = ch]
  PROVE  Follows(o, was) /\ o.status = was.status
  BY DEF Follows, Orders

LEMMA FollowsOn ==
  ASSUME NEW o, NEW mid, NEW was \in Orders, Follows(mid, was), Follows(o, mid)
  PROVE  Follows(o, was)
<1>1. was.retryBudget \in Nat /\ mid.retryBudget \in Nat /\ o.retryBudget \in Nat
  BY OrderFields DEF Follows
<1> QED
  BY <1>1 DEF Follows

-----------------------------------------------------------------------------
(* Orders are created and taken *)

LEMMA CreateKeeps ==
  ASSUME SizesAssumption, NoIdAssumption, SimInv,
         NEW dir \in Dirs, NEW size \in Sizes, NEW strat \in Strats,
         CreateOrder(dir, size, strat)
  PROVE  SimInv'
<1>1. PICK n : n = seq + 1
  OBVIOUS
<1>2. PICK o : o = NewOrder("new", dir, size, strat, RetryBudget, None)
  OBVIOUS
<1>3. /\ phase = "recs" /\ seq < MaxNew /\ seq' = n /\ order' = [order EXCEPT ![n] = o]
      /\ todo' = Append(todo, n)
      /\ UNCHANGED <<orders, history, deferred, fillVars, phase, queue, spawns, active, cur>>
  BY <1>1, <1>2 DEF CreateOrder, bookVars
<1>4. /\ NoneTwiceAnywhere /\ OnePlace /\ SimTypeOK /\ PhaseKnown /\ TablesKnown /\ HistoryIsOver
      /\ HandKnown
  BY DEF SimInv, ListsKnown
<1>5. seq \in Nat /\ n \in Ids /\ n <= MaxOrders /\ n \notin Created /\ Created' = Created \cup {n}
  BY <1>1, <1>3, <1>4 DEF SimTypeOK, SizesAssumption, Ids, Created
<1>6. o \in Orders /\ o.status = "NEW" /\ o.parent = None
  <2>1. /\ dir \in {"YES", "NO"} /\ size \in Nat \ {0} /\ RetryBudget \in Nat
        /\ strat \in {"patient", "aggressive", "twap"}
    BY DEF SizesAssumption
  <2> QED
    BY <1>2, <2>1, NewOrderIs, SMTT(60)
<1>7. TablesKnown'
  BY <1>1, <1>3, <1>4, <1>5, <1>6, OneComes DEF NoIdAssumption
<1>8. n \notin Held(todo) /\ n \notin history
  BY <1>4, <1>5 DEF OnePlace
<1>9. todo' \in Seq(Ids) /\ Held(todo') = Held(todo) \cup {n} /\ NoneTwice(todo')
  BY <1>3, <1>4, <1>5, <1>8, HeldAppend DEF SimTypeOK, NoneTwiceAnywhere
<1>10. SimTypeOK'
  BY <1>3, <1>4, <1>7, <1>9 DEF SimTypeOK, TablesKnown, fillVars
<1>11. PhaseKnown' /\ HandKnown'
  BY <1>3, <1>4 DEF PhaseKnown, HandKnown
<1>12. NoneTwiceAnywhere'
  BY <1>3, <1>4, <1>9 DEF NoneTwiceAnywhere
<1>13. OnePlace'
  BY <1>3, <1>4, <1>5, <1>9 DEF OnePlace
<1>14. HistoryIsOver'
  <2>1. \A id \in Created : order'[id] = order[id]
    BY <1>3, <1>5
  <2>2. order'[n] = o
    BY <1>3, <1>4, <1>5 DEF SimTypeOK
  <2> QED
    BY <1>3, <1>4, <1>5, <1>6, <1>8, <2>1, <2>2 DEF HistoryIsOver, Terminal
<1> QED
  BY <1>7, <1>10, <1>11, <1>12, <1>13, <1>14 DEF SimInv, ListsKnown

(* An order that is worked on is changed and stays where it is. *)
LEMMA WorkKeeps ==
  ASSUME SizesAssumption, SimInv, NEW c \in Created, order[c].status \notin Terminal,
         NEW o, Follows(o, order[c]), o.status \notin Terminal,
         order' = [order EXCEPT ![c] = o], seq' = seq, history' = history
  PROVE  TablesKnown' /\ HistoryIsOver' /\ Created' = Created
<1>1. TablesKnown'
  BY OneChanges DEF SimInv
<1>2. Created' = Created
  BY DEF Created
<1>3. \A id \in Created : order'[id] = IF id = c THEN o ELSE order[id]
  BY DEF SimInv, TablesKnown, Created, Ids, SizesAssumption
<1>4. HistoryIsOver'
  BY <1>2, <1>3 DEF SimInv, HistoryIsOver
<1> QED
  BY <1>1, <1>2, <1>4

LEMMA TakeKeeps ==
  ASSUME SizesAssumption, NoIdAssumption, SimInv, TakeOrder \/ TakeSpawn
  PROVE  SimInv'
<1>1. /\ NoneTwiceAnywhere /\ OnePlace /\ SimTypeOK /\ PhaseKnown /\ TablesKnown /\ HistoryIsOver
      /\ queue \in Seq(Queued) /\ todo \in Seq(Ids)
  BY DEF SimInv, ListsKnown, SimTypeOK, Queued
<1>2. PICK c \in Ids, depth \in Nat :
        /\ Process(c, depth) /\ cur = None /\ phase \in {"deferred", "existing", "new"}
        /\ UNCHANGED <<seq, orders, history, deferred, fillVars, phase, active>>
        /\ spawns' \in Nat /\ todo' \in Seq(Ids) /\ queue' \in Seq(Queued)
        /\ NoneTwice(todo') /\ NoneTwice(IdsOf(queue'))
        /\ \/ /\ Held(todo) = {c} \cup Held(todo') /\ c \notin Held(todo')
              /\ Held(IdsOf(queue')) = Held(IdsOf(queue))
           \/ /\ Held(IdsOf(queue)) = {c} \cup Held(IdsOf(queue')) /\ c \notin Held(IdsOf(queue'))
              /\ Held(todo') = Held(todo)
  <2>1. CASE TakeOrder
    <3>1. /\ Passing /\ cur = None /\ todo # <<>> /\ todo' = Tail(todo) /\ Process(Head(todo), 0)
          /\ UNCHANGED <<seq, orders, history, deferred, fillVars, phase, queue, spawns, active>>
      BY <2>1 DEF TakeOrder, bookVars
    <3>2. /\ Head(todo) \in Ids /\ todo' \in Seq(Ids)
          /\ Held(todo) = {Head(todo)} \cup Held(todo') /\ Head(todo) \notin Held(todo')
          /\ NoneTwice(todo')
      BY <1>1, <3>1, HeldHead DEF NoneTwiceAnywhere
    <3>3. spawns' \in Nat /\ queue' \in Seq(Queued) /\ NoneTwice(IdsOf(queue'))
          /\ Held(IdsOf(queue')) = Held(IdsOf(queue))
      BY <1>1, <3>1 DEF SimTypeOK, NoneTwiceAnywhere
    <3> QED
      BY <3>1, <3>2, <3>3 DEF Passing
  <2>2. CASE TakeSpawn
    <3>1. /\ Passing /\ cur = None /\ queue # <<>> /\ queue' = Tail(queue)
          /\ Process(Head(queue).id, Head(queue).depth) /\ spawns' = spawns + 1
          /\ UNCHANGED <<seq, orders, history, deferred, fillVars, phase, todo, active>>
      BY <2>2 DEF TakeSpawn, bookVars
    <3>2. PICK h : h = Head(queue).id
      OBVIOUS
    <3>3. /\ IdsOf(queue) \in Seq(Ids) /\ IdsOf(queue) # <<>> /\ queue' \in Seq(Queued)
          /\ Head(IdsOf(queue)) = h /\ IdsOf(queue') = Tail(IdsOf(queue))
          /\ Head(queue) \in Queued
      BY <1>1, <3>1, <3>2, IdsOfQueue
    <3>4. /\ h \in Ids /\ Held(IdsOf(queue)) = {h} \cup Held(IdsOf(queue'))
          /\ h \notin Held(IdsOf(queue')) /\ NoneTwice(IdsOf(queue'))
      BY <1>1, <3>3, HeldHead DEF NoneTwiceAnywhere
    <3>5. Head(queue).depth \in Nat
      BY <3>3 DEF Queued
    <3>6. spawns' \in Nat
      BY <1>1, <3>1 DEF SimTypeOK
    <3>7. todo' \in Seq(Ids) /\ NoneTwice(todo') /\ Held(todo') = Held(todo)
      BY <1>1, <3>1 DEF NoneTwiceAnywhere
    <3> QED
      BY <3>1, <3>2, <3>3, <3>4, <3>5, <3>6, <3>7 DEF Passing
  <2> QED
    BY <2>1, <2>2
<1>3. c \in Created /\ c \notin history /\ order[c] \in Orders /\ order[c].status \notin Terminal
  BY <1>1, <1>2 DEF OnePlace, TablesKnown, HistoryIsOver
<1>4. PICK st : st = IF order[c].status = "NEW" THEN "ACCEPTED" ELSE order[c].status
  OBVIOUS
<1>5. PICK o : o = [order[c] EXCEPT !.status = st]
  OBVIOUS
<1>6. order' = [order EXCEPT ![c] = o] /\ cur' = [id |-> c, depth |-> depth, at |-> 1, filled |-> 0]
  BY <1>1, <1>2, <1>4, <1>5 DEF Process, SimTypeOK
<1>7. st \in Statuses /\ st \notin Terminal
  BY <1>3, <1>4 DEF Orders, Statuses, Terminal, Pending
<1>8. Follows(o, order[c]) /\ o.status = st
  BY <1>3, <1>5, <1>7, StatusSet
<1>9. TablesKnown' /\ HistoryIsOver' /\ Created' = Created
  BY <1>2, <1>3, <1>6, <1>7, <1>8, WorkKeeps
<1>10. cur' \in Hands /\ cur' # None /\ cur'.at = 1 /\ InHand(cur') = {c} /\ InHand(cur) = {}
  BY <1>2, <1>6 DEF Hands, NoIdAssumption, InHand
<1>11. SimTypeOK'
  BY <1>1, <1>2, <1>9, <1>10 DEF SimTypeOK, TablesKnown, fillVars, Queued
<1>12. PhaseKnown' /\ HandKnown'
  BY <1>1, <1>2, <1>10 DEF PhaseKnown, HandKnown
<1>13. NoneTwiceAnywhere'
  BY <1>1, <1>2 DEF NoneTwiceAnywhere
<1>14. OnePlace'
  BY <1>1, <1>2, <1>9, <1>10 DEF OnePlace
<1> QED
  BY <1>9, <1>11, <1>12, <1>13, <1>14 DEF SimInv, ListsKnown

-----------------------------------------------------------------------------
(* The children in turn *)

LEMMA InHandIs ==
  ASSUME SizesAssumption, SimInv, cur # None
  PROVE  /\ cur \in Hands /\ cur.id \in Created /\ cur.id \in Ids /\ cur.id \notin history
         /\ cur.at \in Nat \ {0}
         /\ cur.filled \in Nat /\ cur.depth \in Nat
         /\ Current \in Orders /\ Current.status \notin Terminal
         /\ phase \in {"deferred", "existing", "new"}
<1>1. cur \in Hands /\ cur.at \in Nat \ {0}
  BY DEF SimInv, SimTypeOK, HandKnown
<1>2. cur.id \in Ids /\ cur.filled \in Nat /\ cur.depth \in Nat
  BY <1>1 DEF Hands
<1>3. cur.id \in InHand(cur)
  BY DEF InHand
<1>4. cur.id \in Created /\ cur.id \notin history
  BY <1>2, <1>3 DEF SimInv, ListsKnown, OnePlace
<1>5. Current \in Orders /\ Current.status \notin Terminal
  BY <1>4 DEF SimInv, TablesKnown, HistoryIsOver, Current
<1>6. phase \in {"deferred", "existing", "new"}
  BY DEF SimInv, SimTypeOK, PhaseKnown
<1> QED
  BY <1>1, <1>2, <1>4, <1>5, <1>6

LEMMA PassChildKeeps ==
  ASSUME SizesAssumption, NoIdAssumption, SimInv, ToChild,
         NEW ch \in Children, NEW counted \in Nat, PassChild(ch, counted),
         UNCHANGED <<seq, bookVars, passVars, fills>>,
         newFills' \subseteq Fills, fillKeys' \subseteq Keys
  PROVE  SimInv'
<1>1. /\ cur # None /\ cur.at <= Len(Current.children)
      /\ UNCHANGED <<seq, orders, history, deferred, phase, todo, queue, spawns, active, fills>>
  BY DEF ToChild, bookVars, passVars
<1>2. PICK c : c = cur.id
  OBVIOUS
<1>3. /\ cur \in Hands /\ c \in Created /\ c \in Ids /\ c \notin history
      /\ cur.at \in Nat \ {0} /\ cur.filled \in Nat /\ cur.depth \in Nat
      /\ Current = order[c] /\ order[c] \in Orders /\ order[c].status \notin Terminal
  BY <1>1, <1>2, InHandIs DEF Current
<1>4. PICK was : was = order[c]
  OBVIOUS
<1>5. was.children \in Seq(Children) /\ cur.at \in DOMAIN was.children
  <2>1. was.children \in Seq(Children)
    BY <1>3, <1>4 DEF Orders
  <2>2. cur.at <= Len(was.children) /\ cur.at \in Nat \ {0}
    BY <1>1, <1>3, <1>4
  <2> QED
    BY <2>1, <2>2
<1>6. PICK next : next = [was.children EXCEPT ![cur.at] = ch]
  OBVIOUS
<1>7. next \in Seq(Children)
  BY <1>5, <1>6
<1>8. PICK o : o = [was EXCEPT !.children = next]
  OBVIOUS
<1>9. Follows(o, was) /\ o.status = was.status
  BY <1>3, <1>4, <1>7, <1>8, ChildrenSet
<1>10. order' = [order EXCEPT ![c] = o]
  BY <1>2, <1>3, <1>4, <1>6, <1>8 DEF PassChild, SimInv, SimTypeOK
<1>11. TablesKnown' /\ HistoryIsOver' /\ Created' = Created
  BY <1>1, <1>3, <1>4, <1>9, <1>10, WorkKeeps
<1>12. PICK at \in Nat \ {0} : at = cur.at + 1
  BY <1>3
<1>13. PICK filled \in Nat : filled = cur.filled + counted
  BY <1>3
<1>14. PICK hand : hand = [cur EXCEPT !.at = at, !.filled = filled]
  OBVIOUS
<1>15. cur' = hand /\ hand \in Hands /\ hand.id = c /\ hand.at \in Nat \ {0} /\ hand # None
  <2>0. cur \in Hands /\ at \in Nat /\ filled \in Nat /\ cur.id = c
    BY <1>2, <1>3
  <2>1. hand \in Hands /\ hand.id = c /\ hand.at = at
    <3>1. PICK hand0 \in Hands : hand0 = cur
      BY <2>0
    <3>2. hand = [hand0 EXCEPT !.at = at, !.filled = filled]
      BY <1>14, <3>1
    <3> QED
      BY <2>0, <3>1, <3>2 DEF Hands
  <2>2. cur' = hand
    BY <1>12, <1>13, <1>14 DEF PassChild
  <2> QED
    BY <2>1, <2>2 DEF NoIdAssumption
<1>16. InHand(cur') = InHand(cur)
  BY <1>1, <1>2, <1>15 DEF InHand
<1>17. SimTypeOK'
  BY <1>1, <1>11, <1>15 DEF SimTypeOK, TablesKnown, SimInv
<1>18. PhaseKnown' /\ HandKnown'
  BY <1>1, <1>15 DEF PhaseKnown, HandKnown, SimInv
<1>19. ListsKnown'
  BY <1>1, <1>11, <1>16 DEF SimInv, ListsKnown, NoneTwiceAnywhere, OnePlace
<1> QED
  BY <1>11, <1>17, <1>18, <1>19 DEF SimInv

LEMMA ChildKeeps ==
  ASSUME SizesAssumption, NoIdAssumption, SimInv,
         \/ ChildOver \/ ChildRests \/ ChildSlips
         \/ \E q \in 1..MaxSize : ChildFills(q)
  PROVE  SimInv'
<1>1. ToChild /\ cur # None
  BY DEF ChildOver, ChildRests, ChildSlips, ChildFills, ToChild
<1>2. Child \in Children
  <2>1. Current \in Orders /\ cur.at \in Nat \ {0}
    BY <1>1, InHandIs
  <2>2. Current.children \in Seq(Children)
    BY <2>1 DEF Orders
  <2> QED
    BY <1>1, <2>1, <2>2 DEF ToChild, Child
<1>3. newFills \subseteq Fills /\ fillKeys \subseteq Keys
  BY DEF SimInv, SimTypeOK
<1>4. /\ Child.sz \in Nat
      /\ [Child EXCEPT !.st = "ACCEPTED"] \in Children
      /\ [Child EXCEPT !.st = "REJECTED"] \in Children
      /\ [Child EXCEPT !.st = "FILLED"] \in Children
  BY <1>2 DEF Children, Pending
<1>5. CASE ChildOver
  BY <1>1, <1>2, <1>3, <1>4, <1>5, PassChildKeeps DEF ChildOver, fillVars
<1>6. CASE ChildRests
  BY <1>1, <1>2, <1>3, <1>4, <1>6, PassChildKeeps DEF ChildRests, fillVars
<1>7. CASE ChildSlips
  BY <1>1, <1>2, <1>3, <1>4, <1>7, PassChildKeeps DEF ChildSlips, fillVars
<1>8. ASSUME NEW q \in 1..MaxSize, ChildFills(q) PROVE SimInv'
  <2>1. /\ q <= Child.sz /\ UNCHANGED <<seq, bookVars, passVars>> /\ q \in Nat
        /\ \/ PassChild([Child EXCEPT !.st = "FILLED"], q) /\ UNCHANGED fillVars
           \/ /\ PassChild(IF q = Child.sz THEN [Child EXCEPT !.st = "FILLED"]
                           ELSE [Child EXCEPT !.st = "ACCEPTED", !.sz = Child.sz - q], q)
              /\ newFills' = newFills \cup {[key |-> Key, order |-> cur.id, qty |-> q]}
              /\ fillKeys' = fillKeys \cup {Key}
              /\ UNCHANGED fills
    <3>1. q <= Child.sz /\ UNCHANGED <<seq, bookVars, passVars>>
      BY <1>8 DEF ChildFills
    <3>2. CASE Key \in fillKeys
      BY <1>8, <3>1, <3>2 DEF ChildFills
    <3>3. CASE Key \notin fillKeys
      <4>1. PassChild(IF q = Child.sz THEN [Child EXCEPT !.st = "FILLED"]
                      ELSE [Child EXCEPT !.st = "ACCEPTED", !.sz = @ - q], q)
        BY <1>8, <3>3 DEF ChildFills
      <4>2. /\ newFills' = newFills \cup {[key |-> Key, order |-> cur.id, qty |-> q]}
            /\ fillKeys' = fillKeys \cup {Key}
            /\ UNCHANGED fills
        BY <1>8, <3>3 DEF ChildFills
      <4>3. [Child EXCEPT !.st = "ACCEPTED", !.sz = @ - q]
              = [Child EXCEPT !.st = "ACCEPTED", !.sz = Child.sz - q]
        BY <1>2 DEF Children
      <4> QED
        BY <3>1, <4>1, <4>2, <4>3
    <3> QED
      BY <3>1, <3>2, <3>3
  <2>2. CASE PassChild([Child EXCEPT !.st = "FILLED"], q) /\ UNCHANGED fillVars
    BY <1>1, <1>3, <1>4, <2>1, <2>2, PassChildKeeps DEF fillVars
  <2>3. CASE /\ PassChild(IF q = Child.sz THEN [Child EXCEPT !.st = "FILLED"]
                          ELSE [Child EXCEPT !.st = "ACCEPTED", !.sz = Child.sz - q], q)
             /\ newFills' = newFills \cup {[key |-> Key, order |-> cur.id, qty |-> q]}
             /\ fillKeys' = fillKeys \cup {Key}
             /\ UNCHANGED fills
    <3>1. Key \in Keys /\ cur.id \in Ids
      <4>1. cur.id \in Ids
        BY <1>1, InHandIs
      <4>2. Child.n \in Nat /\ Child.gen \in Nat
        BY <1>2 DEF Children
      <4> QED
        BY <1>2, <4>1, <4>2 DEF Key, Keys
    <3>2. newFills' \subseteq Fills /\ fillKeys' \subseteq Keys
      <4>1. [key |-> Key, order |-> cur.id, qty |-> q] \in Fills
        BY <2>1, <3>1 DEF Fills
      <4> QED
        BY <1>3, <2>3, <3>1, <4>1
    <3>3. PICK ch : ch = IF q = Child.sz THEN [Child EXCEPT !.st = "FILLED"]
                         ELSE [Child EXCEPT !.st = "ACCEPTED", !.sz = Child.sz - q]
      OBVIOUS
    <3>4. ch \in Children
      <4>1. CASE q = Child.sz
        BY <1>4, <3>3, <4>1
      <4>2. CASE q # Child.sz
        <5>1. PICK left \in Nat : left = Child.sz - q
          BY <1>4, <2>1
        <5>2. [Child EXCEPT !.st = "ACCEPTED", !.sz = left] \in Children
          BY <1>2 DEF Children, Pending
        <5> QED
          BY <3>3, <4>2, <5>1, <5>2
      <4> QED
        BY <4>1, <4>2
    <3> QED
      BY <1>1, <2>1, <2>3, <3>2, <3>3, <3>4, PassChildKeeps
  <2> QED
    BY <2>1, <2>2, <2>3
<1> QED
  BY <1>5, <1>6, <1>7, <1>8

-----------------------------------------------------------------------------
(* An order is done for the pass *)

(* What the hand gives to the lists, and what is left in it. *)
LEMMA Emptied ==
  ASSUME SizesAssumption, SimInv, cur # None, cur' = None
  PROVE  InHand(cur) = {cur.id} /\ InHand(cur') = {}
  BY DEF InHand

LEMMA DoneKeeps ==
  ASSUME SizesAssumption, NoIdAssumption, SimInv, cur # None,
         NEW o, Follows(o, Current), Done(o)
  PROVE  SimInv'
<1>1. PICK c : c = cur.id
  OBVIOUS
<1>2. /\ c \in Created /\ c \in Ids /\ c \notin history
      /\ Current = order[c] /\ order[c] \in Orders /\ order[c].status \notin Terminal
      /\ phase \in {"deferred", "existing", "new"}
  BY <1>1, InHandIs DEF Current
<1>3. /\ order' = [order EXCEPT ![c] = o] /\ cur' = None
      /\ \/ o.status \in Terminal /\ history' = history \cup {c} /\ active' = active
         \/ o.status \notin Terminal /\ active' = Append(active, c) /\ history' = history
      /\ UNCHANGED <<seq, orders, deferred, fillVars, phase, todo, queue, spawns>>
  BY <1>1 DEF Done, Sorted
<1>4. /\ NoneTwiceAnywhere /\ OnePlace /\ SimTypeOK /\ PhaseKnown /\ TablesKnown /\ HistoryIsOver
  BY DEF SimInv, ListsKnown
<1>5. TablesKnown' /\ Created' = Created
  BY <1>2, <1>3, <1>4, OneChanges DEF Created
<1>6. InHand(cur) = {c} /\ InHand(cur') = {}
  BY <1>1, <1>3, Emptied
<1>7. c \notin Held(active)
  BY <1>2, <1>4, <1>6 DEF OnePlace
<1>8. /\ active' \in Seq(Ids) /\ NoneTwice(active')
      /\ Held(active') = IF o.status \in Terminal THEN Held(active) ELSE Held(active) \cup {c}
      /\ history' = IF o.status \in Terminal THEN history \cup {c} ELSE history
  <2>1. active \in Seq(Ids) /\ NoneTwice(active)
    BY <1>4 DEF SimTypeOK, NoneTwiceAnywhere
  <2>2. CASE o.status \in Terminal
    BY <1>3, <2>1, <2>2
  <2>3. CASE o.status \notin Terminal
    <3>1. active' = Append(active, c) /\ history' = history
      BY <1>3, <2>3
    <3>2. /\ Append(active, c) \in Seq(Ids) /\ NoneTwice(Append(active, c))
          /\ Held(Append(active, c)) = Held(active) \cup {c}
      BY ONLY <1>2, <1>7, <2>1, HeldAppend
    <3> QED
      BY <2>3, <3>1, <3>2
  <2> QED
    BY <2>2, <2>3
<1>9. SimTypeOK'
  BY <1>2, <1>3, <1>4, <1>5, <1>8 DEF SimTypeOK, TablesKnown, fillVars
<1>10. PhaseKnown' /\ HandKnown'
  BY <1>2, <1>3, <1>4 DEF PhaseKnown, HandKnown
<1>11. NoneTwiceAnywhere'
  BY <1>3, <1>4, <1>8 DEF NoneTwiceAnywhere
<1>12. OnePlace'
  BY <1>2, <1>3, <1>4, <1>5, <1>6, <1>8 DEF OnePlace
<1>13. HistoryIsOver'
  <2>1. \A id \in Created : order'[id] = IF id = c THEN o ELSE order[id]
    BY <1>2, <1>3, <1>4 DEF SimTypeOK, OnePlace, Created, Ids, SizesAssumption
  <2> QED
    BY <1>2, <1>4, <1>5, <1>8, <2>1 DEF HistoryIsOver
<1> QED
  BY <1>5, <1>9, <1>10, <1>11, <1>12, <1>13 DEF SimInv, ListsKnown

LEMMA SpawnKeeps ==
  ASSUME SizesAssumption, NoIdAssumption, SimInv, cur # None,
         NEW o, Follows(o, Current), o.status \in Terminal,
         o.status = "REPLACED" => o.replacedBy = seq + 1,
         NEW s \in Orders, s.parent = cur.id, s.status = "NEW",
         o.status = "REPLACED" => s.dir = o.dir,
         s.retryBudget <= o.retryBudget, s.parentSz <= o.parentSz,
         s.retryBudget + s.parentSz < o.retryBudget + o.parentSz,
         Spawn(o, s)
  PROVE  SimInv'
<1>1. PICK c : c = cur.id
  OBVIOUS
<1>2. PICK n : n = seq + 1
  OBVIOUS
<1>3. /\ c \in Created /\ c \in Ids /\ c \notin history /\ cur.depth \in Nat
      /\ Current = order[c] /\ order[c] \in Orders /\ order[c].status \notin Terminal
      /\ phase \in {"deferred", "existing", "new"}
  BY <1>1, InHandIs DEF Current
<1>4. PICK r : r = [id |-> n, depth |-> cur.depth + 1]
  OBVIOUS
<1>5. /\ seq < MaxOrders /\ seq' = n /\ order' = [order EXCEPT ![c] = o, ![n] = s]
      /\ cur' = None /\ history' = history \cup {c} /\ active' = active
      /\ queue' = Append(queue, r)
      /\ UNCHANGED <<orders, deferred, fillVars, phase, todo, spawns>>
  BY <1>1, <1>2, <1>4 DEF Spawn, Sorted
<1>6. /\ NoneTwiceAnywhere /\ OnePlace /\ SimTypeOK /\ PhaseKnown /\ TablesKnown /\ HistoryIsOver
      /\ queue \in Seq(Queued)
  BY DEF SimInv, ListsKnown, SimTypeOK, Queued
<1>7. /\ seq \in Nat /\ n \in Ids /\ n <= MaxOrders /\ n \notin Created /\ n # c
      /\ Created' = Created \cup {n} /\ c # None
  <2>1. seq \in Nat /\ MaxOrders \in Nat
    BY <1>6 DEF SimTypeOK, SizesAssumption
  <2>2. n \in Ids /\ n <= MaxOrders /\ n \notin Created
    BY <1>2, <1>5, <2>1 DEF Ids, Created
  <2>3. n # c
    BY <1>3, <2>2
  <2>4. Created' = Created \cup {n}
    BY <1>2, <1>5, <2>1 DEF Created
  <2>5. c # None
    BY <1>3 DEF Ids, NoIdAssumption
  <2> QED
    BY <2>1, <2>2, <2>3, <2>4, <2>5
<1>8. TablesKnown'
  BY <1>1, <1>2, <1>3, <1>5, <1>6, <1>7, OneSpawned
<1>9. InHand(cur) = {c} /\ InHand(cur') = {}
  BY <1>1, <1>5, Emptied
<1>10. r \in Queued /\ r.id = n
  BY <1>3, <1>4, <1>7 DEF Queued
<1>11. n \notin Held(IdsOf(queue)) /\ n \notin history
  BY <1>6, <1>7 DEF OnePlace
<1>12. /\ queue' \in Seq(Queued) /\ NoneTwice(IdsOf(queue'))
       /\ Held(IdsOf(queue')) = Held(IdsOf(queue)) \cup {n}
  <2>1. IdsOf(queue) \in Seq(Ids) /\ IdsOf(queue') = Append(IdsOf(queue), n)
    BY <1>5, <1>6, <1>10, IdsOfQueue
  <2>2. queue' \in Seq(Queued)
    BY <1>5, <1>6, <1>10
  <2> QED
    BY <1>6, <1>7, <1>11, <2>1, <2>2, HeldAppend DEF NoneTwiceAnywhere
<1>13. SimTypeOK'
  BY <1>3, <1>5, <1>6, <1>8, <1>12 DEF SimTypeOK, TablesKnown, fillVars, Queued
<1>14. PhaseKnown' /\ HandKnown'
  BY <1>3, <1>5, <1>6 DEF PhaseKnown, HandKnown
<1>15. NoneTwiceAnywhere'
  BY <1>5, <1>6, <1>12 DEF NoneTwiceAnywhere
<1>16. OnePlace'
  BY <1>3, <1>5, <1>6, <1>7, <1>9, <1>12 DEF OnePlace
<1>17. HistoryIsOver'
  <2>1. /\ \A id \in Created : order'[id] = IF id = c THEN o ELSE order[id]
        /\ order'[n] = s
    <3>1. DOMAIN order = Ids /\ Created \subseteq Ids
      BY <1>6, <1>7 DEF SimTypeOK, Created, Ids, SizesAssumption
    <3> QED
      BY <1>3, <1>5, <1>7, <3>1
  <2>2. history' = history \cup {c} /\ s.status \notin Terminal /\ o.status \in Terminal
    BY <1>5 DEF Terminal
  <2>3. ASSUME NEW id \in Created'
        PROVE  id \in history' <=> order'[id].status \in Terminal
    <3>1. CASE id = n
      BY <1>7, <1>11, <2>1, <2>2, <3>1
    <3>2. CASE id = c
      BY <1>3, <2>1, <2>2, <3>2
    <3>3. CASE id # n /\ id # c
      <4>1. id \in Created
        BY <1>7, <2>3, <3>3
      <4> QED
        BY <1>6, <2>1, <2>2, <3>3, <4>1 DEF HistoryIsOver
    <3> QED
      BY <3>1, <3>2, <3>3
  <2> QED
    BY <2>3 DEF HistoryIsOver
<1> QED
  BY <1>8, <1>13, <1>14, <1>15, <1>16, <1>17 DEF SimInv, ListsKnown

-----------------------------------------------------------------------------
(* An order whose children have been gone through *)

LEMMA AdvancedIs ==
  ASSUME SizesAssumption, SimInv, Reached
  PROVE  /\ cur # None /\ Current \in Orders /\ Advanced \in Orders /\ Follows(Advanced, Current)
         /\ Advanced.retryBudget = Current.retryBudget
         /\ Advanced.parentSz = Current.parentSz /\ Advanced.parentSz \in Nat
         /\ Advanced.totalFilled \in Nat /\ Advanced.retryGen \in Nat
         /\ Advanced.status = "PARTIALLY_FILLED" =>
              /\ Advanced.totalFilled < Advanced.parentSz
              /\ Remaining \in 1..Advanced.parentSz
<1>1. cur # None /\ cur.filled \in Nat /\ Current \in Orders
  BY InHandIs DEF Reached
<1>2. PICK was : was = Current
  OBVIOUS
<1>3. PICK filled : filled = cur.filled
  OBVIOUS
<1>4. PICK st : st = StatusAfter(was, filled)
  OBVIOUS
<1>5. was \in Orders /\ filled \in Nat /\ was.parentSz \in Nat /\ was.status \in Statuses
  BY <1>1, <1>2, <1>3 DEF Orders, Statuses
<1>6. st \in Statuses /\ (st = "PARTIALLY_FILLED" => filled < was.parentSz)
  BY <1>4, <1>5 DEF StatusAfter, Statuses, Pending, Terminal
<1>7. PICK o : o = WithFilled(was, filled, st)
  OBVIOUS
<1>8. Advanced = o
  BY <1>2, <1>3, <1>4, <1>7 DEF Advanced, WithFilled
<1>9. /\ Follows(o, was) /\ o.status = st /\ o.totalFilled = filled
      /\ o.retryBudget = was.retryBudget
  BY <1>5, <1>6, <1>7, FilledSet
<1>10. o \in Orders /\ o.parentSz = was.parentSz /\ o.retryGen \in Nat
  BY <1>9 DEF Follows, Orders
<1>11. st = "PARTIALLY_FILLED" => o.parentSz - o.totalFilled \in 1..o.parentSz
  BY <1>5, <1>6, <1>9, <1>10
<1> QED
  BY <1>1, <1>2, <1>5, <1>6, <1>8, <1>9, <1>10, <1>11 DEF Remaining

LEMMA NotPartialKeeps ==
  ASSUME SizesAssumption, NoIdAssumption, SimInv, NotPartial
  PROVE  SimInv'
<1>1. cur # None /\ Follows(Advanced, Current) /\ Done(Advanced)
  BY AdvancedIs DEF NotPartial
<1> QED
  BY <1>1, DoneKeeps

(* What closes an order, with what is left on the book cancelled. *)
LEMMA ClosingIs ==
  ASSUME SizesAssumption, SimInv, Reached, NEW st \in Statuses,
         NEW o, o = WithStatus(Advanced, st, Cancelling(Advanced, Pending))
  PROVE  Follows(o, Current) /\ o.status = st /\ o.retryBudget = Advanced.retryBudget
<1>1. Current \in Orders /\ Advanced \in Orders /\ Follows(Advanced, Current)
  BY AdvancedIs
<1>2. PICK mid : mid = Advanced
  OBVIOUS
<1>3. PICK ch : ch = Cancelling(mid, Pending)
  OBVIOUS
<1>4. mid \in Orders /\ ch \in Seq(Children) /\ o = WithStatus(mid, st, ch)
  BY <1>1, <1>2, <1>3, CancellingIs
<1>5. Follows(o, mid) /\ o.status = st /\ o.retryBudget = mid.retryBudget
  BY <1>4, ClosedSet
<1> QED
  BY <1>1, <1>2, <1>5, FollowsOn

LEMMA TooSmallKeeps ==
  ASSUME SizesAssumption, NoIdAssumption, SimInv, TooSmall
  PROVE  SimInv'
<1>1. Reached /\ cur # None
  BY AdvancedIs DEF TooSmall, Partial
<1>2. PICK o : o = WithStatus(Advanced, "CANCELLED", Cancelling(Advanced, Pending))
  OBVIOUS
<1>3. Follows(o, Current)
  BY <1>1, <1>2, ClosingIs DEF Statuses, Terminal
<1>4. Done(o)
  BY <1>2 DEF TooSmall, WithStatus
<1> QED
  BY <1>1, <1>3, <1>4, DoneKeeps

LEMMA RetryKeeps ==
  ASSUME SizesAssumption, NoIdAssumption, SimInv, Retry
  PROVE  SimInv'
<1>1. /\ Reached /\ cur # None /\ Current \in Orders /\ Advanced \in Orders
      /\ Follows(Advanced, Current)
      /\ Advanced.retryGen \in Nat /\ Remaining \in Nat \ {0} /\ Advanced.retryBudget > 0
      /\ Advanced.retryBudget \in Nat
      /\ Done(Retried(Advanced))
  BY AdvancedIs, OrderFields DEF Retry, Partial
<1>2. PICK mid : mid = Advanced
  OBVIOUS
<1>3. PICK gen : gen = NextGen(mid)
  OBVIOUS
<1>4. PICK budget : budget = LessBudget(mid)
  OBVIOUS
<1>5. PICK left : left = mid.parentSz - mid.totalFilled
  OBVIOUS
<1>6. /\ mid \in Orders /\ gen \in Nat /\ budget \in Nat /\ budget <= mid.retryBudget
      /\ left \in Nat \ {0}
  BY <1>1, <1>2, <1>3, <1>4, <1>5 DEF NextGen, LessBudget, Remaining
<1>7. PICK ch : ch = OffTheBook(mid) \o BuildChildren(left, mid.strat, gen)
  OBVIOUS
<1>8. ch \in Seq(Children)
  <2>1. OffTheBook(mid) \in Seq(Children)
    BY <1>6, CancellingIs DEF OffTheBook
  <2>2. BuildChildren(left, mid.strat, gen) \in Seq(Children)
    BY <1>6, ChildrenAre
  <2> QED
    BY <1>7, <2>1, <2>2, ConcatProperties
<1>9. PICK o : o = [mid EXCEPT !.retryBudget = budget, !.retryGen = gen, !.children = ch]
  OBVIOUS
<1>10. o = Retried(Advanced)
  BY <1>2, <1>3, <1>4, <1>5, <1>7, <1>9 DEF Retried
<1>11. Follows(o, mid)
  BY ONLY <1>6, <1>8, <1>9, RetriedSet
<1>12. Follows(o, Current)
  BY <1>1, <1>2, <1>11, FollowsOn
<1> QED
  BY <1>1, <1>10, <1>12, DoneKeeps

LEMMA ReplaceKeeps ==
  ASSUME SizesAssumption, NoIdAssumption, SimInv, Replace
  PROVE  SimInv'
<1>1. PICK mid : mid = Advanced
  OBVIOUS
<1>2. PICK was : was = Current
  OBVIOUS
<1>3. PICK left : left = Remaining
  OBVIOUS
<1>4. /\ Reached /\ cur # None /\ was \in Orders /\ mid \in Orders /\ Follows(mid, was)
      /\ mid.retryBudget = was.retryBudget /\ mid.retryBudget > 0
      /\ mid.parentSz = was.parentSz /\ mid.parentSz \in Nat /\ left \in 1..mid.parentSz
  BY <1>1, <1>2, <1>3, AdvancedIs DEF Replace, Partial
<1>5. seq < MaxOrders /\ seq + 1 \in Ids /\ cur.id \in Ids
  <2>1. seq < MaxOrders
    BY DEF Replace, Spawn
  <2>2. seq \in 0..MaxOrders
    BY DEF SimInv, TablesKnown
  <2>3. MaxOrders \in Nat
    BY DEF SizesAssumption
  <2>4. seq + 1 \in 1..MaxOrders
    BY ONLY <2>1, <2>2, <2>3
  <2>5. seq + 1 \in Ids
    BY <2>4 DEF Ids
  <2>6. cur.id \in Ids
    BY <1>4, InHandIs
  <2> QED
    BY <2>1, <2>5, <2>6
<1>6. PICK n : n = seq + 1
  OBVIOUS
<1>7. PICK ch : ch = Cancelling(mid, Pending)
  OBVIOUS
<1>8. PICK o : o = WithSuccessor(mid, n, ch)
  OBVIOUS
<1>9. /\ Follows(o, mid) /\ o.status = "REPLACED" /\ o.replacedBy = n
      /\ o.retryBudget = mid.retryBudget
  BY <1>4, <1>5, <1>6, <1>7, <1>8, CancellingIs, ReplacedSet
<1>10. Follows(o, was) /\ o.dir = was.dir /\ o.parentSz = was.parentSz
  BY <1>4, <1>9, FollowsOn DEF Follows
<1>11. PICK budget : budget = LessBudget(was)
  OBVIOUS
<1>12. /\ budget \in Nat /\ was.retryBudget \in Nat /\ budget < was.retryBudget
       /\ was.dir \in {"YES", "NO"} /\ was.strat \in {"patient", "aggressive", "twap"}
  <2>1. was.retryBudget \in Nat /\ was.retryBudget > 0
    BY <1>4, OrderFields
  <2>2. budget = was.retryBudget - 1
    BY <1>11 DEF LessBudget
  <2>3. was.dir \in {"YES", "NO"} /\ was.strat \in {"patient", "aggressive", "twap"}
    BY <1>4 DEF Orders
  <2> QED
    BY <2>1, <2>2, <2>3
<1>13. PICK id : id = cur.id
  OBVIOUS
<1>14. PICK s : s = NewOrder("replacement", was.dir, left, was.strat, budget, id)
  OBVIOUS
<1>15. /\ s \in Orders /\ s.status = "NEW" /\ s.parent = id /\ s.dir = was.dir
       /\ s.parentSz = left /\ s.retryBudget = budget
  <2>1. left \in Nat \ {0} /\ id \in Ids \cup {None}
    BY <1>4, <1>5, <1>13
  <2>2. "replacement" \in {"new", "replacement", "unwind"}
    OBVIOUS
  <2>3. PICK dir : dir = was.dir
    OBVIOUS
  <2>4. PICK strat : strat = was.strat
    OBVIOUS
  <2>5. /\ dir \in {"YES", "NO"} /\ strat \in {"patient", "aggressive", "twap"}
        /\ budget \in Nat
        /\ s = NewOrder("replacement", dir, left, strat, budget, id)
    BY <1>12, <1>14, <2>3, <2>4
  <2>6. /\ s \in Orders /\ s.status = "NEW" /\ s.parent = id /\ s.dir = dir
        /\ s.parentSz = left /\ s.retryBudget = budget
    BY ONLY SizesAssumption, <2>1, <2>2, <2>5, NewOrderIs, SMTT(60)
  <2> QED
    BY <2>3, <2>6
<1>16. /\ s.retryBudget <= o.retryBudget /\ s.parentSz <= o.parentSz
       /\ s.retryBudget + s.parentSz < o.retryBudget + o.parentSz
  <2>1. s.retryBudget < o.retryBudget /\ s.retryBudget \in Nat /\ o.retryBudget \in Nat
    BY <1>4, <1>9, <1>12, <1>15
  <2>2. s.parentSz <= o.parentSz /\ s.parentSz \in Nat /\ o.parentSz \in Nat
    <3>1. o.parentSz = mid.parentSz
      BY <1>4, <1>10
    <3> QED
      BY <1>4, <1>15, <3>1
  <2> QED
    BY ONLY <2>1, <2>2
<1>17. Spawn(o, s)
  BY <1>1, <1>2, <1>3, <1>6, <1>7, <1>8, <1>11, <1>13, <1>14 DEF Replace, WithSuccessor
<1>18. o.status \in Terminal
  BY <1>9 DEF Terminal
<1> QED
  BY <1>2, <1>4, <1>6, <1>9, <1>10, <1>13, <1>15, <1>16, <1>17, <1>18, SpawnKeeps

LEMMA UnwindKeeps ==
  ASSUME SizesAssumption, NoIdAssumption, SimInv, Unwind
  PROVE  SimInv'
<1>1. PICK mid : mid = Advanced
  OBVIOUS
<1>2. PICK was : was = Current
  OBVIOUS
<1>3. PICK size : size = mid.totalFilled
  OBVIOUS
<1>4. /\ Reached /\ cur # None /\ was \in Orders /\ mid \in Orders /\ Follows(mid, was)
      /\ mid.retryBudget = was.retryBudget
      /\ mid.parentSz = was.parentSz /\ mid.parentSz \in Nat /\ size \in Nat /\ size < mid.parentSz
  BY <1>1, <1>2, <1>3, AdvancedIs DEF Unwind, Partial
<1>5. PICK o : o = WithStatus(mid, "CANCELLED", Cancelling(mid, Pending))
  OBVIOUS
<1>6. Follows(o, was) /\ o.status = "CANCELLED" /\ o.retryBudget = mid.retryBudget
  BY <1>1, <1>2, <1>4, <1>5, ClosingIs DEF Statuses, Terminal
<1>7. CASE size = 0
  <2>1. Done(o)
    BY <1>1, <1>3, <1>5, <1>7 DEF Unwind, WithStatus
  <2> QED
    BY <1>2, <1>4, <1>6, <2>1, DoneKeeps
<1>8. CASE size # 0
  <2>1. PICK id : id = cur.id
    OBVIOUS
  <2>2. id \in Ids
    BY <1>4, <2>1, InHandIs
  <2>3. PICK dir : dir = Opposite(was.dir)
    OBVIOUS
  <2>4. dir \in {"YES", "NO"} /\ was.retryBudget \in Nat
    BY <1>4, <2>3 DEF Opposite, Orders
  <2>5. PICK s : s = NewOrder("unwind", dir, size, "aggressive", 0, id)
    OBVIOUS
  <2>6. /\ s \in Orders /\ s.status = "NEW" /\ s.parent = id
        /\ s.parentSz = size /\ s.retryBudget = 0
    <3>1. size \in Nat \ {0} /\ id \in Ids \cup {None} /\ 0 \in Nat
      BY <1>4, <1>8, <2>2
    <3>2. /\ "unwind" \in {"new", "replacement", "unwind"}
          /\ "aggressive" \in {"patient", "aggressive", "twap"}
      OBVIOUS
    <3> QED
      BY ONLY SizesAssumption, <2>4, <2>5, <3>1, <3>2, NewOrderIs, SMTT(60)
  <2>7. o.parentSz = mid.parentSz
    BY <1>4, <1>6 DEF Follows
  <2>8. /\ s.retryBudget <= o.retryBudget /\ s.parentSz <= o.parentSz
        /\ s.retryBudget + s.parentSz < o.retryBudget + o.parentSz
    BY <1>4, <1>6, <2>4, <2>6, <2>7
  <2>9. Spawn(o, s)
    BY <1>1, <1>2, <1>3, <1>5, <1>8, <2>1, <2>3, <2>5 DEF Unwind, WithStatus
  <2>10. o.status \in Terminal /\ o.status # "REPLACED"
    BY <1>6 DEF Terminal
  <2> QED
    BY <1>2, <1>4, <1>6, <2>1, <2>6, <2>8, <2>9, <2>10, SpawnKeeps
<1> QED
  BY <1>7, <1>8

-----------------------------------------------------------------------------
(* The invariant of the specification *)

LEMMA SimInit ==
  ASSUME SizesAssumption, NoIdAssumption, Init
  PROVE  SimInv
<1>1. Created = {} /\ seq = 0 /\ 0 \in 0..MaxOrders
  BY DEF Init, Created, SizesAssumption
<1>2. /\ Held(orders) = {} /\ Held(deferred) = {} /\ Held(todo) = {} /\ Held(active) = {}
      /\ NoneTwice(orders) /\ NoneTwice(deferred) /\ NoneTwice(todo) /\ NoneTwice(active)
  BY HeldEmpty DEF Init
<1>3. IdsOf(queue) = <<>> /\ Held(IdsOf(queue)) = {} /\ NoneTwice(IdsOf(queue))
  BY HeldEmpty DEF Init, IdsOf
<1>4. InHand(cur) = {} /\ history = {}
  BY DEF Init, InHand
<1>5. TablesKnown /\ HistoryIsOver
  BY <1>1 DEF Init, TablesKnown, ParentsOver, ChainsEnd, HistoryIsOver
<1>6. ListsKnown
  BY <1>1, <1>2, <1>3, <1>4 DEF ListsKnown, NoneTwiceAnywhere, OnePlace
<1>7. SimTypeOK
  BY <1>1 DEF Init, SimTypeOK
<1> QED
  BY <1>5, <1>6, <1>7 DEF SimInv, Init, HandKnown, PhaseKnown

LEMMA SimNext ==
  ASSUME SizesAssumption, NoIdAssumption, SimInv, [Next]_vars
  PROVE  SimInv'
<1>1. CASE TickBegins
  BY <1>1, TickBeginsKeeps
<1>2. CASE \E dir \in Dirs, size \in Sizes, strat \in Strats : CreateOrder(dir, size, strat)
  BY <1>2, CreateKeeps
<1>3. CASE DeferredPassEnds \/ ExistingPassEnds \/ NewPassEnds
  BY <1>3, PassEnds
<1>4. CASE NoMoreOrders \/ ApplyFills \/ UNCHANGED vars
  BY <1>4, QuietSteps
<1>5. CASE TakeOrder \/ TakeSpawn
  BY <1>5, TakeKeeps
<1>6. CASE DeferSpawn
  BY <1>6, DeferSpawnKeeps
<1>7. CASE \/ ChildOver \/ ChildRests \/ ChildSlips
           \/ \E q \in 1..MaxSize : ChildFills(q)
  BY <1>7, ChildKeeps
<1>8. CASE NotPartial
  BY <1>8, NotPartialKeeps
<1>9. CASE TooSmall
  BY <1>9, TooSmallKeeps
<1>10. CASE Retry
  BY <1>10, RetryKeeps
<1>11. CASE Replace
  BY <1>11, ReplaceKeeps
<1>12. CASE Unwind
  BY <1>12, UnwindKeeps
<1> QED
  BY <1>1, <1>2, <1>3, <1>4, <1>5, <1>6, <1>7, <1>8, <1>9, <1>10, <1>11, <1>12 DEF Next, Pass

(***************************************************************************)
(* The invariant holds of every tick of src/engine/tick.js: each order is  *)
(* in one list or in hand, and history holds those that are over.          *)
(***************************************************************************)
THEOREM SimInvariant == Spec => []SimInv
<1>1. SizesAssumption /\ NoIdAssumption
  BY SizesAssumption, NoIdAssumption
<1>2. Init => SimInv
  BY <1>1, SimInit
<1>3. SimInv /\ [Next]_vars => SimInv'
  BY <1>1, SimNext
<1> QED
  BY <1>2, <1>3, PTL DEF Spec

(* Every variable of the simulator's tick keeps its type, the order table's records too. *)
THEOREM SimTypes == Spec => []SimTypeOK
<1>1. SimInv => SimTypeOK
  BY DEF SimInv
<1> QED
  BY <1>1, SimInvariant, PTL

(***************************************************************************)
(* resolvePartialFill (src/engine/execution.js): whatever is retried,      *)
(* replaced, unwound or deferred, a successor has less budget or a smaller *)
(* size than its parent, and a parent has one successor, so chains end.    *)
(***************************************************************************)
THEOREM ChainsHaveEnds == Spec => []ChainsEnd
<1>1. SimInv => ChainsEnd
  BY DEF SimInv, TablesKnown
<1> QED
  BY <1>1, SimInvariant, PTL

(* Where a list holds an order. *)
Spots(s, id, tag) == {<<tag, i>> : i \in {j \in DOMAIN s : s[j] = id}}

LEMMA OneSpot ==
  ASSUME NEW s, NoneTwice(s), NEW id, NEW tag
  PROVE  /\ id \in Held(s) => \E k : Spots(s, id, tag) = {<<tag, k>>}
         /\ id \notin Held(s) => Spots(s, id, tag) = {}
<1>1. ASSUME id \in Held(s)
      PROVE  \E k : Spots(s, id, tag) = {<<tag, k>>}
  <2>1. PICK k \in DOMAIN s : s[k] = id
    BY <1>1 DEF Held
  <2>2. {j \in DOMAIN s : s[j] = id} = {k}
    BY <2>1 DEF NoneTwice
  <2> QED
    BY <2>2 DEF Spots
<1>2. ASSUME id \notin Held(s)
      PROVE  Spots(s, id, tag) = {}
  <2>1. {j \in DOMAIN s : s[j] = id} = {}
    BY <1>2 DEF Held
  <2> QED
    BY <2>1 DEF Spots
<1> QED
  BY <1>1, <1>2

LEMMA OnlyPlace ==
  ASSUME SizesAssumption, SimInv, AtRest, NEW id \in Created
  PROVE  Cardinality(Places(id)) = 1
<1>1. id \in Ids
  BY DEF SimInv, TablesKnown, SizesAssumption, Created, Ids
<1>2. Held(todo) = {} /\ Held(IdsOf(queue)) = {} /\ Held(active) = {} /\ InHand(cur) = {}
  <2>1. todo = <<>> /\ queue = <<>> /\ active = <<>> /\ cur = None
    BY DEF SimInv, PhaseKnown, AtRest
  <2>2. IdsOf(queue) = <<>>
    BY <2>1 DEF IdsOf
  <2> QED
    BY <2>1, <2>2, HeldEmpty DEF InHand
<1>3. /\ id \in Held(orders) \/ id \in Held(deferred) \/ id \in history
      /\ id \in Held(orders) => id \notin Held(deferred) /\ id \notin history
      /\ id \in Held(deferred) => id \notin history
  BY <1>1, <1>2 DEF SimInv, ListsKnown, OnePlace
<1>4. PICK a : a = Spots(orders, id, "active")
  OBVIOUS
<1>5. PICK d : d = Spots(deferred, id, "deferred")
  OBVIOUS
<1>6. PICK h : h = {<<"history", i>> : i \in history \cap {id}}
  OBVIOUS
<1>7. Places(id) = a \cup d \cup h
  BY <1>4, <1>5, <1>6 DEF Places, Spots
<1>8. /\ id \in Held(orders) => \E k : a = {<<"active", k>>}
      /\ id \notin Held(orders) => a = {}
  BY <1>4, OneSpot DEF SimInv, ListsKnown, NoneTwiceAnywhere
<1>9. /\ id \in Held(deferred) => \E k : d = {<<"deferred", k>>}
      /\ id \notin Held(deferred) => d = {}
  BY <1>5, OneSpot DEF SimInv, ListsKnown, NoneTwiceAnywhere
<1>10. h = IF id \in history THEN {<<"history", id>>} ELSE {}
  BY <1>6
<1>11. \E place : Places(id) = {place}
  BY <1>3, <1>7, <1>8, <1>9, <1>10
<1> QED
  BY <1>11, FS_Singleton

(***************************************************************************)
(* The lists of src/engine/tick.js: between ticks every order ever created *)
(* is active, deferred or in history, and there once; history holds        *)
(* exactly those that are over, however they spawned and were deferred.    *)
(***************************************************************************)
THEOREM EveryOrderIsKept == Spec => []EveryOrderOnce
<1>1. SimInv => EveryOrderOnce
  BY SizesAssumption, OnlyPlace DEF EveryOrderOnce, SimInv, HistoryIsOver
<1> QED
  BY <1>1, SimInvariant, PTL

-----------------------------------------------------------------------------
(* What rests on the book: sums over children *)

(* A set that has 0 and each of its numbers' successors has every natural. *)
LEMMA SetInduction ==
  ASSUME NEW T, 0 \in T, \A n \in Nat : n \in T => n + 1 \in T
  PROVE  Nat \subseteq T
<1> DEFINE Before == {ss \in Nat \X Nat : ss[1] < ss[2]}
           Out == Nat \ T
<1>1. SUFFICES ASSUME Out # {} PROVE FALSE
  OBVIOUS
<1>2. PICK n \in Out : \A m \in Out : <<m, n>> \notin Before
  <2>1. IsWellFoundedOn(Before, Nat)
    BY NatLessThanWellFounded DEF OpToRel
  <2>2. Out \subseteq Nat
    OBVIOUS
  <2> HIDE DEF Out, Before
  <2> QED BY <1>1, <2>1, <2>2, WFMin
<1>3. n # 0 /\ n \in Nat
  BY <1>2
<1>4. n - 1 \in Nat /\ n - 1 \notin T /\ (n - 1) + 1 = n
  BY <1>2, <1>3
<1>5. <<n - 1, n>> \in Before
  BY <1>3, <1>4
<1> QED BY <1>2, <1>4, <1>5

SizeSum(ch, S) == MapThenSumSet(LAMBDA i : ch[i].sz, S)

(* The function by which MapThenSumSet adds the sizes, and which it takes next. *)
Some(s) == CHOOSE i \in s : TRUE
Adds(iter, ch, Sets) ==
  iter = [s \in Sets |-> IF s = {} THEN 0 ELSE ch[Some(s)].sz + iter[s \ {Some(s)}]]
AddsOn(iter, ch, S) == Adds(iter, ch, SUBSET S)

LEMMA SizeSumIs ==
  ASSUME NEW ch, NEW S
  PROVE  SizeSum(ch, S) = (CHOOSE iter : AddsOn(iter, ch, S))[S]
  BY DEF SizeSum, MapThenSumSet, MapThenFoldSet, AddsOn, Adds, Some

(* Sets without the element that is taken are smaller. *)
LEMMA OneLess ==
  ASSUME NEW S, IsFiniteSet(S), NEW s \in SUBSET S, s # {}
  PROVE  /\ Some(s) \in s /\ s \ {Some(s)} \in SUBSET S
         /\ IsFiniteSet(s) /\ Cardinality(s) \in Nat \ {0}
         /\ \A x \in s : IsFiniteSet(s \ {x}) /\ Cardinality(s \ {x}) = Cardinality(s) - 1
<1>1. IsFiniteSet(s)
  BY FS_Subset
<1>2. Cardinality(s) \in Nat /\ Cardinality(s) # 0
  BY <1>1, FS_CardinalityType, FS_EmptySet
<1>3. Some(s) \in s
  BY DEF Some
<1>4. \A x \in s : IsFiniteSet(s \ {x}) /\ Cardinality(s \ {x}) = Cardinality(s) - 1
  BY <1>1, FS_RemoveElement
<1> QED BY <1>1, <1>2, <1>3, <1>4

LEMMA AddsExists ==
  ASSUME NEW ch, NEW S, IsFiniteSet(S)
  PROVE  \E iter : AddsOn(iter, ch, S)
<1> DEFINE UpTo(m) == {s \in SUBSET S : Cardinality(s) <= m}
           T == {m \in Nat : \E iter : Adds(iter, ch, UpTo(m))}
<1>0. \A s \in SUBSET S : s = {} => Cardinality(s) = 0
  BY FS_EmptySet
<1>1. 0 \in T
  <2>1. \A s \in UpTo(0) : s = {}
    BY OneLess
  <2> DEFINE zero == [s \in UpTo(0) |-> 0]
  <2>2. Adds(zero, ch, UpTo(0))
    BY <2>1 DEF Adds
  <2> HIDE DEF zero, UpTo
  <2> QED BY <2>2
<1>2. ASSUME NEW m \in Nat, m \in T PROVE m + 1 \in T
  <2>1. PICK iter : Adds(iter, ch, UpTo(m))
    BY <1>2
  <2> DEFINE more == [s \in UpTo(m + 1) |->
                        IF s = {} THEN 0 ELSE ch[Some(s)].sz + iter[s \ {Some(s)}]]
  <2>2. ASSUME NEW s \in UpTo(m + 1), s # {}
        PROVE  more[s \ {Some(s)}] = iter[s \ {Some(s)}]
    <3> DEFINE r == s \ {Some(s)}
    <3>1. r \in UpTo(m) /\ r \in UpTo(m + 1)
      BY <2>2, OneLess
    <3>2. iter[r] = IF r = {} THEN 0 ELSE ch[Some(r)].sz + iter[r \ {Some(r)}]
      BY <2>1, <3>1 DEF Adds
    <3> HIDE DEF r, UpTo
    <3>3. more[r] = IF r = {} THEN 0 ELSE ch[Some(r)].sz + iter[r \ {Some(r)}]
      BY <3>1
    <3> QED BY <3>2, <3>3 DEF r
  <2>3. Adds(more, ch, UpTo(m + 1))
    <3> HIDE DEF UpTo
    <3>1. \A s \in UpTo(m + 1) :
            more[s] = IF s = {} THEN 0 ELSE ch[Some(s)].sz + more[s \ {Some(s)}]
      BY <2>2
    <3>2. more = [s \in UpTo(m + 1) |-> more[s]]
      OBVIOUS
    <3> HIDE DEF more
    <3> QED BY <3>1, <3>2 DEF Adds
  <2> HIDE DEF more, UpTo
  <2> QED BY <2>3
<1> HIDE DEF T
<1>3. Cardinality(S) \in T
  BY <1>1, <1>2, SetInduction, FS_CardinalityType
<1>4. UpTo(Cardinality(S)) = SUBSET S
  BY FS_Subset
<1> HIDE DEF UpTo
<1> QED BY <1>3, <1>4 DEF T, AddsOn

(* Two of them agree on a set that both add up. *)
LEMMA AddsAgree ==
  \A ch, S, R, f, g :
    /\ IsFiniteSet(S) /\ R \subseteq S
    /\ AddsOn(f, ch, S) /\ AddsOn(g, ch, R)
    => f[R] = g[R]
<1> SUFFICES ASSUME NEW ch, NEW S, NEW R, NEW f, NEW g, IsFiniteSet(S), R \subseteq S,
                    AddsOn(f, ch, S), AddsOn(g, ch, R)
             PROVE  f[R] = g[R]
  OBVIOUS
<1> DEFINE T == {m \in Nat : \A s \in SUBSET R : Cardinality(s) = m => f[s] = g[s]}
<1>1. ASSUME NEW s \in SUBSET R
      PROVE  /\ s \in SUBSET S /\ IsFiniteSet(s) /\ Cardinality(s) \in Nat
             /\ f[s] = IF s = {} THEN 0 ELSE ch[Some(s)].sz + f[s \ {Some(s)}]
             /\ g[s] = IF s = {} THEN 0 ELSE ch[Some(s)].sz + g[s \ {Some(s)}]
  BY FS_Subset, FS_CardinalityType DEF AddsOn, Adds
<1>2. 0 \in T
  <2> SUFFICES ASSUME NEW s \in SUBSET R, Cardinality(s) = 0 PROVE f[s] = g[s]
    OBVIOUS
  <2>1. s = {}
    BY <1>1, FS_EmptySet
  <2> QED BY <1>1, <2>1
<1>3. ASSUME NEW m \in Nat, m \in T PROVE m + 1 \in T
  <2> SUFFICES ASSUME NEW s \in SUBSET R, Cardinality(s) = m + 1 PROVE f[s] = g[s]
    OBVIOUS
  <2>1. s # {}
    <3>1. m + 1 # 0 /\ Cardinality({}) = 0
      BY FS_EmptySet
    <3> QED BY <3>1
  <2>2. s \ {Some(s)} \in SUBSET R /\ Cardinality(s \ {Some(s)}) = m
    BY <1>1, <2>1, OneLess
  <2> QED BY <1>1, <1>3, <2>1, <2>2
<1> HIDE DEF T
<1>4. Nat \subseteq T
  BY <1>2, <1>3, SetInduction
<1> QED BY <1>1, <1>4 DEF T

Sized(ch, S) == \A i \in S : ch[i].sz \in Nat

(* A sum of sizes is a size. *)
LEMMA AddsNat ==
  ASSUME NEW ch, NEW S, IsFiniteSet(S), Sized(ch, S), NEW f, AddsOn(f, ch, S)
  PROVE  \A s \in SUBSET S : f[s] \in Nat
<1> DEFINE T == {m \in Nat : \A s \in SUBSET S : Cardinality(s) = m => f[s] \in Nat}
<1>1. ASSUME NEW s \in SUBSET S
      PROVE  /\ IsFiniteSet(s) /\ Cardinality(s) \in Nat
             /\ f[s] = IF s = {} THEN 0 ELSE ch[Some(s)].sz + f[s \ {Some(s)}]
  BY FS_Subset, FS_CardinalityType DEF AddsOn, Adds
<1>2. 0 \in T
  <2> SUFFICES ASSUME NEW s \in SUBSET S, Cardinality(s) = 0 PROVE f[s] \in Nat
    OBVIOUS
  <2>1. s = {}
    BY <1>1, FS_EmptySet
  <2> QED BY <1>1, <2>1
<1>3. ASSUME NEW m \in Nat, m \in T PROVE m + 1 \in T
  <2> SUFFICES ASSUME NEW s \in SUBSET S, Cardinality(s) = m + 1 PROVE f[s] \in Nat
    OBVIOUS
  <2>1. s # {}
    <3>1. m + 1 # 0 /\ Cardinality({}) = 0
      BY FS_EmptySet
    <3> QED BY <3>1
  <2>2. Some(s) \in S /\ s \ {Some(s)} \in SUBSET S /\ Cardinality(s \ {Some(s)}) = m
    BY <2>1, OneLess
  <2>3. f[s \ {Some(s)}] \in Nat /\ ch[Some(s)].sz \in Nat
    BY <1>3, <2>2 DEF Sized
  <2> QED BY <1>1, <2>1, <2>3
<1> HIDE DEF T
<1>4. Nat \subseteq T
  BY <1>2, <1>3, SetInduction
<1> QED BY <1>1, <1>4 DEF T

(* The order in which they are added does not matter. *)
LEMMA AddsAny ==
  ASSUME NEW ch, NEW S, IsFiniteSet(S), Sized(ch, S), NEW f, AddsOn(f, ch, S)
  PROVE  \A s \in SUBSET S : \A x \in s : f[s] = ch[x].sz + f[s \ {x}]
<1> DEFINE Right(s) == \A x \in s : f[s] = ch[x].sz + f[s \ {x}]
           T == {m \in Nat : \A s \in SUBSET S : Cardinality(s) = m => Right(s)}
<1>1. ASSUME NEW s \in SUBSET S
      PROVE  /\ IsFiniteSet(s) /\ Cardinality(s) \in Nat /\ f[s] \in Nat
             /\ f[s] = IF s = {} THEN 0 ELSE ch[Some(s)].sz + f[s \ {Some(s)}]
  BY FS_Subset, FS_CardinalityType, AddsNat DEF AddsOn, Adds
<1>2. 0 \in T
  <2> SUFFICES ASSUME NEW s \in SUBSET S, Cardinality(s) = 0 PROVE Right(s)
    OBVIOUS
  <2>1. s = {}
    BY <1>1, FS_EmptySet
  <2> QED BY <2>1
<1>3. ASSUME NEW m \in Nat, m \in T PROVE m + 1 \in T
  <2> SUFFICES ASSUME NEW s \in SUBSET S, Cardinality(s) = m + 1, NEW x \in s
               PROVE  f[s] = ch[x].sz + f[s \ {x}]
    OBVIOUS
  <2> DEFINE y == Some(s)
             r == (s \ {x}) \ {y}
  <2>1. y \in s /\ f[s] = ch[y].sz + f[s \ {y}]
    BY <1>1, OneLess
  <2> HIDE DEF y
  <2>2. ASSUME NEW z \in s PROVE Right(s \ {z})
    <3>1. s \ {z} \in SUBSET S /\ Cardinality(s \ {z}) = m
      BY OneLess
    <3> QED BY <1>3, <3>1
  <2>3. CASE x # y
    <3>1. r = (s \ {y}) \ {x} /\ x \in s \ {y} /\ y \in s \ {x} /\ r \in SUBSET S
      BY <2>1, <2>3
    <3>2. f[s \ {y}] = ch[x].sz + f[r]
      BY <2>1, <2>2, <3>1
    <3>3. f[s \ {x}] = ch[y].sz + f[r]
      BY <2>2, <3>1
    <3>4. f[r] \in Nat /\ ch[x].sz \in Nat /\ ch[y].sz \in Nat
      BY <1>1, <2>1, <3>1 DEF Sized
    <3> HIDE DEF r
    <3> QED BY <2>1, <3>2, <3>3, <3>4
  <2> QED BY <2>1, <2>3
<1> HIDE DEF T
<1>4. Nat \subseteq T
  BY <1>2, <1>3, SetInduction
<1> QED BY <1>1, <1>4 DEF T

(* What the sum of the sizes of a set of children comes to. *)
LEMMA SizeSumFacts ==
  ASSUME NEW ch, NEW S, IsFiniteSet(S), Sized(ch, S)
  PROVE  /\ SizeSum(ch, S) \in Nat
         /\ S = {} => SizeSum(ch, S) = 0
         /\ \A x \in S : SizeSum(ch, S) = ch[x].sz + SizeSum(ch, S \ {x})
<1>1. PICK f : AddsOn(f, ch, S) /\ SizeSum(ch, S) = f[S]
  BY AddsExists, SizeSumIs
<1>2. SizeSum(ch, S) \in Nat
  BY <1>1, AddsNat
<1>3. S = {} => SizeSum(ch, S) = 0
  BY <1>1 DEF AddsOn, Adds
<1>4. ASSUME NEW x \in S PROVE SizeSum(ch, S) = ch[x].sz + SizeSum(ch, S \ {x})
  <2>1. PICK R \in SUBSET S : R = S \ {x}
    OBVIOUS
  <2>2. IsFiniteSet(R)
    BY FS_Subset
  <2>3. PICK g : AddsOn(g, ch, R) /\ SizeSum(ch, R) = g[R]
    BY <2>2, AddsExists, SizeSumIs
  <2>4. f[R] = g[R]
    <3>1. AddsOn(f, ch, S) /\ AddsOn(g, ch, R) /\ R \subseteq S /\ IsFiniteSet(S)
      BY <1>1, <2>3
    <3> QED BY <3>1, AddsAgree
  <2>5. f[S] = ch[x].sz + f[S \ {x}]
    BY <1>1, AddsAny
  <2> QED BY <1>1, <2>1, <2>3, <2>4, <2>5
<1> QED BY <1>2, <1>3, <1>4

(* Sums of the same sizes are the same. *)
LEMMA SameSum ==
  ASSUME NEW c, NEW d, NEW U, IsFiniteSet(U), Sized(c, U), \A i \in U : d[i].sz = c[i].sz
  PROVE  SizeSum(d, U) = SizeSum(c, U)
<1> DEFINE T == {m \in Nat : \A S \in SUBSET U :
                               Cardinality(S) = m => SizeSum(d, S) = SizeSum(c, S)}
<1>1. ASSUME NEW S \in SUBSET U
      PROVE  /\ IsFiniteSet(S) /\ Sized(c, S) /\ Sized(d, S)
             /\ S = {} => SizeSum(c, S) = 0 /\ SizeSum(d, S) = 0
             /\ \A x \in S : /\ SizeSum(c, S) = c[x].sz + SizeSum(c, S \ {x})
                             /\ SizeSum(d, S) = d[x].sz + SizeSum(d, S \ {x})
  <2>1. IsFiniteSet(S) /\ Sized(c, S) /\ Sized(d, S)
    BY FS_Subset DEF Sized
  <2> QED BY <2>1, SizeSumFacts
<1>2. 0 \in T
  BY <1>1, FS_EmptySet
<1>3. ASSUME NEW m \in Nat, m \in T PROVE m + 1 \in T
  <2> SUFFICES ASSUME NEW S \in SUBSET U, Cardinality(S) = m + 1
               PROVE  SizeSum(d, S) = SizeSum(c, S)
    OBVIOUS
  <2>1. S # {}
    <3>1. m + 1 # 0 /\ Cardinality({}) = 0
      BY FS_EmptySet
    <3> QED BY <3>1
  <2>2. PICK x \in S : TRUE
    BY <2>1
  <2>3. PICK R \in SUBSET U : R = S \ {x}
    OBVIOUS
  <2>4. SizeSum(d, R) = SizeSum(c, R)
    <3>1. IsFiniteSet(S)
      BY <1>1
    <3>2. Cardinality(R) = (m + 1) - 1
      BY <2>3, <3>1, FS_RemoveElement
    <3>3. Cardinality(R) = m
      BY <3>2
    <3> QED BY <1>3, <3>3
  <2> QED BY <1>1, <2>3, <2>4
<1> HIDE DEF T
<1>4. Nat \subseteq T
  BY <1>2, <1>3, SetInduction
<1> QED BY <1>4, FS_CardinalityType DEF T

(* The sum over two parts is the sum of theirs. *)
LEMMA JoinedSum ==
  ASSUME NEW ch, NEW A, NEW B, IsFiniteSet(A), IsFiniteSet(B), Sized(ch, A), Sized(ch, B),
         A \cap B = {}
  PROVE  SizeSum(ch, A \cup B) = SizeSum(ch, A) + SizeSum(ch, B)
<1> DEFINE T == {m \in Nat : \A S \in SUBSET B :
                   Cardinality(S) = m => SizeSum(ch, A \cup S) = SizeSum(ch, A) + SizeSum(ch, S)}
<1>1. ASSUME NEW S \in SUBSET B
      PROVE  /\ IsFiniteSet(S) /\ Sized(ch, S)
             /\ IsFiniteSet(A \cup S) /\ Sized(ch, A \cup S)
  BY FS_Subset, FS_Union DEF Sized
<1>2. SizeSum(ch, A) \in Nat
  BY SizeSumFacts
<1>3. 0 \in T
  <2> SUFFICES ASSUME NEW S \in SUBSET B, Cardinality(S) = 0
               PROVE  SizeSum(ch, A \cup S) = SizeSum(ch, A) + SizeSum(ch, S)
    OBVIOUS
  <2>1. S = {} /\ A \cup S = A
    BY <1>1, FS_EmptySet
  <2>2. SizeSum(ch, S) = 0
    BY <1>1, <2>1, SizeSumFacts
  <2> QED BY <1>2, <2>1, <2>2
<1>4. ASSUME NEW m \in Nat, m \in T PROVE m + 1 \in T
  <2> SUFFICES ASSUME NEW S \in SUBSET B, Cardinality(S) = m + 1
               PROVE  SizeSum(ch, A \cup S) = SizeSum(ch, A) + SizeSum(ch, S)
    OBVIOUS
  <2>1. S # {}
    <3>1. m + 1 # 0 /\ Cardinality({}) = 0
      BY FS_EmptySet
    <3> QED BY <3>1
  <2>2. PICK x \in S : TRUE
    BY <2>1
  <2>3. PICK R \in SUBSET B : R = S \ {x}
    OBVIOUS
  <2>4. Cardinality(R) = m
    <3>1. IsFiniteSet(S)
      BY <1>1
    <3>2. Cardinality(R) = (m + 1) - 1
      BY <2>3, <3>1, FS_RemoveElement
    <3> QED BY <3>2
  <2>5. SizeSum(ch, A \cup R) = SizeSum(ch, A) + SizeSum(ch, R)
    BY <1>4, <2>4
  <2>6. PICK W : W = A \cup S
    OBVIOUS
  <2>7. SizeSum(ch, W) = ch[x].sz + SizeSum(ch, A \cup R)
    <3>1. x \in W /\ W \ {x} = A \cup R
      BY <2>2, <2>3, <2>6
    <3>2. IsFiniteSet(W) /\ Sized(ch, W)
      BY <1>1, <2>6
    <3>3. SizeSum(ch, W) = ch[x].sz + SizeSum(ch, W \ {x})
      BY <3>1, <3>2, SizeSumFacts
    <3> QED BY <3>1, <3>3
  <2>8. SizeSum(ch, S) = ch[x].sz + SizeSum(ch, R)
    <3>1. IsFiniteSet(S) /\ Sized(ch, S)
      BY <1>1
    <3>2. SizeSum(ch, S) = ch[x].sz + SizeSum(ch, S \ {x})
      BY <3>1, SizeSumFacts
    <3> QED BY <2>3, <3>2
  <2>9. SizeSum(ch, R) \in Nat /\ ch[x].sz \in Nat
    BY <1>1, SizeSumFacts DEF Sized
  <2> QED BY <1>2, <2>5, <2>6, <2>7, <2>8, <2>9
<1> HIDE DEF T
<1>5. Nat \subseteq T
  BY <1>3, <1>4, SetInduction
<1> QED BY <1>5, FS_CardinalityType DEF T

(* After the first n children come the slices of a total. *)
SlicedAfter(n, ch, total, slice) ==
  \A i \in 1..Ceiling(total, slice) : ch[n + i].sz = Least(total - (i - 1) * slice, slice)

(* They add up to it. *)
LEMMA SlicedSum ==
  ASSUME NEW ch, NEW n \in Nat, NEW total \in Nat \ {0}, NEW slice \in Nat \ {0},
         SlicedAfter(n, ch, total, slice)
  PROVE  SizeSum(ch, (n + 1)..(n + Ceiling(total, slice))) = total
<1>1. PICK last \in Nat \ {0} : last = Ceiling(total, slice)
  BY Slices
<1>2. ASSUME NEW m \in Nat, m < last
      PROVE  /\ m * slice \in Nat /\ m * slice < total /\ (m + 1) * slice = m * slice + slice
             /\ ch[n + (m + 1)].sz = Least(total - m * slice, slice)
  <2>1. m + 1 \in 1..last /\ (m + 1) - 1 = m
    BY <1>2
  <2>2. (m + 1) * slice = m * slice + slice
    OBVIOUS
  <2> QED BY <1>1, <2>1, <2>2, Slices DEF SlicedAfter
<1>3. last * slice >= total /\ last * slice \in Nat
  BY <1>1 DEF Ceiling
<1> DEFINE Sum(m) == SizeSum(ch, (n + 1)..(n + m))
           T == {m \in Nat : m <= last => Sum(m) = Least(m * slice, total)}
<1>4. \A i \in (n + 1)..(n + last) : ch[i].sz \in Nat
  <2> SUFFICES ASSUME NEW i \in (n + 1)..(n + last) PROVE ch[i].sz \in Nat
    OBVIOUS
  <2>1. PICK m \in Nat : m < last /\ i = n + (m + 1)
    <3>1. i - n - 1 \in Nat /\ i - n - 1 < last /\ i = n + ((i - n - 1) + 1)
      BY <1>1
    <3> QED BY <3>1
  <2>2. PICK k \in Nat : k = m * slice /\ k < total
    BY <1>2, <2>1
  <2> QED BY <1>2, <2>1, <2>2 DEF Least
<1>5. 0 \in T
  <2>1. (n + 1)..(n + 0) = {}
    OBVIOUS
  <2>2. Sum(0) = 0
    BY <2>1, SizeSumFacts, FS_EmptySet DEF Sized
  <2>3. Least(0 * slice, total) = 0
    BY DEF Least
  <2> QED BY <2>2, <2>3
<1>6. ASSUME NEW m \in Nat, m \in T PROVE m + 1 \in T
  <2> SUFFICES ASSUME m + 1 <= last PROVE Sum(m + 1) = Least((m + 1) * slice, total)
    OBVIOUS
  <2>1. m < last
    BY <1>1
  <2>2. PICK k \in Nat : k = m * slice /\ k < total /\ (m + 1) * slice = k + slice
    BY <1>2, <2>1
  <2>3. Sum(m) = k
    BY <1>6, <2>1, <2>2 DEF Least
  <2>4. PICK top \in Nat : top = n + (m + 1)
    OBVIOUS
  <2>5. PICK S : S = (n + 1)..top
    OBVIOUS
  <2>6. IsFiniteSet(S) /\ Sized(ch, S)
    <3>1. top <= n + last /\ n + 1 \in Nat
      BY <1>1, <2>1, <2>4
    <3>2. \A i \in S : i \in (n + 1)..(n + last)
      BY <1>1, <2>4, <2>5, <3>1
    <3>3. IsFiniteSet(S)
      BY <2>4, <2>5, <3>1, FS_Interval
    <3> QED BY <1>4, <3>2, <3>3 DEF Sized
  <2>7. SizeSum(ch, S) = ch[top].sz + SizeSum(ch, (n + 1)..(n + m))
    <3>1. top \in S /\ S \ {top} = (n + 1)..(n + m)
      BY <2>4, <2>5
    <3>2. SizeSum(ch, S) = ch[top].sz + SizeSum(ch, S \ {top})
      BY <2>6, <3>1, SizeSumFacts
    <3> QED BY <3>1, <3>2
  <2>8. ch[n + (m + 1)].sz = Least(total - k, slice)
    BY <1>2, <2>1, <2>2
  <2>9. Least(total - k, slice) + k = Least(k + slice, total)
    BY <2>2 DEF Least
  <2>10. Least(total - k, slice) \in Nat
    BY <2>2 DEF Least
  <2> QED BY <2>2, <2>3, <2>4, <2>5, <2>7, <2>8, <2>9, <2>10
<1> HIDE DEF T
<1>7. last \in T
  BY <1>5, <1>6, SetInduction
<1>8. Sum(last) = Least(last * slice, total)
  BY <1>7 DEF T
<1> QED BY <1>1, <1>3, <1>8 DEF Least

-----------------------------------------------------------------------------
(* The children of an order that is not over *)

Waiting(ch)     == {i \in DOMAIN ch : ch[i].st \in Pending}
FilledTo(ch, k) == {i \in DOMAIN ch : i < k /\ ch[i].st = "FILLED"}
Ahead(ch, k)    == Waiting(ch) \cup {i \in DOMAIN ch : i >= k /\ ch[i].st = "FILLED"}

KeyOf(id, c) == <<id, c.n, c.gen>>
Unmatched(id, ch, keys, S) == \A i \in S : KeyOf(id, ch[i]) \notin keys

(* Children are told apart by number and generation; those that wait have a size. *)
ChildrenKnown(o) ==
  /\ \A i \in Waiting(o.children) : o.children[i].sz > 0
  /\ \A i \in DOMAIN o.children : o.children[i].gen <= o.retryGen
  /\ \A i, j \in DOMAIN o.children :
       o.children[i].n = o.children[j].n /\ o.children[i].gen = o.children[j].gen => i = j

(***************************************************************************)
(* An order between two passes: what was filled whole and what waits are   *)
(* no more than its size, nor is what waits with what it counts as filled; *)
(* and no child that waits has been matched.                               *)
(***************************************************************************)
Rests(id, o, keys) ==
  /\ Waiting(o.children) # {}
  /\ SizeSum(o.children, Ahead(o.children, 1)) <= o.parentSz
  /\ o.totalFilled + SizeSum(o.children, Waiting(o.children)) <= o.parentSz
  /\ Unmatched(id, o.children, keys, Waiting(o.children))

(* The order in hand, up to the child that was reached. *)
Worked(hand, o, keys) ==
  /\ hand.at <= Len(o.children) + 1
  /\ o.status \in {"ACCEPTED", "PARTIALLY_FILLED"}
  /\ SizeSum(o.children, FilledTo(o.children, hand.at)) <= hand.filled
  /\ hand.filled + SizeSum(o.children, Ahead(o.children, hand.at)) <= o.parentSz
  /\ \A i \in Waiting(o.children) : i < hand.at => o.children[i].st = "ACCEPTED"
  /\ Unmatched(hand.id, o.children, keys,
               {i \in Waiting(o.children) : i >= hand.at \/ hand.filled = 0})

LEMMA Sums ==
  ASSUME NEW ch \in Seq(Children), NEW S, S \subseteq DOMAIN ch
  PROVE  /\ IsFiniteSet(S) /\ Sized(ch, S) /\ SizeSum(ch, S) \in Nat
         /\ S = {} => SizeSum(ch, S) = 0
         /\ \A x \in S : SizeSum(ch, S) = ch[x].sz + SizeSum(ch, S \ {x})
<1>1. IsFiniteSet(S)
  <2>1. Len(ch) \in Nat /\ DOMAIN ch = 1..Len(ch)
    OBVIOUS
  <2>2. IsFiniteSet(1..Len(ch))
    BY <2>1, FS_Interval
  <2> QED BY <2>1, <2>2, FS_Subset
<1>2. Sized(ch, S)
  <2>1. \A i \in S : ch[i] \in Children
    OBVIOUS
  <2> QED BY <2>1 DEF Sized, Children
<1> QED BY <1>1, <1>2, SizeSumFacts

(* Two parts of the children. *)
LEMMA PartsOf ==
  ASSUME NEW ch \in Seq(Children), NEW k
  PROVE  /\ Waiting(ch) \subseteq DOMAIN ch /\ FilledTo(ch, k) \subseteq DOMAIN ch
         /\ Ahead(ch, k) \subseteq DOMAIN ch
  BY DEF Waiting, FilledTo, Ahead

LEMMA SumOfTwo ==
  ASSUME NEW ch \in Seq(Children), NEW A, NEW B, A \subseteq DOMAIN ch, B \subseteq DOMAIN ch,
         A \cap B = {}
  PROVE  SizeSum(ch, A \cup B) = SizeSum(ch, A) + SizeSum(ch, B)
<1>1. IsFiniteSet(A) /\ IsFiniteSet(B) /\ Sized(ch, A) /\ Sized(ch, B)
  BY Sums
<1> QED BY <1>1, JoinedSum

(* The children of the slices of a total. *)
LEMMA FreshChildren ==
  ASSUME SizesAssumption, NEW total \in Nat \ {0}, NEW strat, NEW gen \in Nat,
         NEW b, b = BuildChildren(total, strat, gen)
  PROVE  /\ b \in Seq(Children) /\ Len(b) > 0
         /\ \A i \in DOMAIN b : b[i].sz > 0 /\ b[i].st = "NEW" /\ b[i].gen = gen /\ b[i].n = i
         /\ \E slice \in Nat \ {0} :
              Len(b) = Ceiling(total, slice) /\ SlicedAfter(0, b, total, slice)
<1>1. PICK slice \in Nat \ {0} : slice = SliceSize(total, strat)
  BY SliceIs
<1>2. PICK n \in Nat \ {0} : n = Ceiling(total, slice)
  BY Slices
<1>3. b \in Seq(Children) /\ Len(b) > 0 /\ \A i \in DOMAIN b : b[i].sz \in 1..total
  BY ChildrenAre
<1>4. b = [i \in 1..n |-> [n |-> i, gen |-> gen, sz |-> Least(total - (i - 1) * slice, slice),
                           st |-> "NEW"]]
  BY <1>1, <1>2 DEF BuildChildren
<1>5. DOMAIN b = 1..n /\ Len(b) = n
  BY <1>3, <1>4
<1>6. ASSUME NEW i \in 1..n
      PROVE  /\ b[i].st = "NEW" /\ b[i].gen = gen /\ b[i].n = i
             /\ b[i].sz = Least(total - (i - 1) * slice, slice)
  BY <1>4
<1>7. \A i \in DOMAIN b : b[i].sz > 0
  BY <1>3
<1>8. SlicedAfter(0, b, total, slice)
  <2>1. \A i \in 1..n : 0 + i = i
    OBVIOUS
  <2> QED BY <1>2, <1>6, <2>1 DEF SlicedAfter
<1> QED BY <1>2, <1>3, <1>5, <1>6, <1>7, <1>8

(* A new order waits as a whole, and none of its children was matched. *)
LEMMA NewOrderRests ==
  ASSUME SizesAssumption, NEW kind, NEW dir, NEW size \in Nat \ {0}, NEW strat,
         NEW budget, NEW parent, NEW id, NEW keys, \A key \in keys : key[1] # id,
         NEW o, o = NewOrder(kind, dir, size, strat, budget, parent)
  PROVE  ChildrenKnown(o) /\ Rests(id, o, keys)
<1>1. PICK b : b = BuildChildren(size, strat, 0)
  OBVIOUS
<1>2. o.children = b /\ o.parentSz = size /\ o.totalFilled = 0 /\ o.retryGen = 0
  BY <1>1 DEF NewOrder
<1>3. /\ b \in Seq(Children) /\ Len(b) > 0
      /\ \A i \in DOMAIN b : b[i].sz > 0 /\ b[i].st = "NEW" /\ b[i].gen = 0 /\ b[i].n = i
  BY <1>1, FreshChildren
<1>4. PICK slice \in Nat \ {0} :
        Len(b) = Ceiling(size, slice) /\ SlicedAfter(0, b, size, slice)
  BY <1>1, FreshChildren
<1>5. Waiting(b) = DOMAIN b /\ Ahead(b, 1) = DOMAIN b /\ DOMAIN b = 1..Len(b) /\ Len(b) \in Nat
  <2>1. DOMAIN b = 1..Len(b) /\ Len(b) \in Nat
    BY <1>3
  <2>2. Waiting(b) = DOMAIN b
    <3>1. \A i \in DOMAIN b : b[i].st \in Pending
      BY <1>3 DEF Pending
    <3> QED BY <3>1 DEF Waiting
  <2> QED BY <2>1, <2>2 DEF Ahead
<1>6. SizeSum(b, DOMAIN b) = size
  <2>1. PICK last \in Nat : last = Ceiling(size, slice) /\ last = Len(b)
    BY <1>4, <1>5
  <2>2. SizeSum(b, (0 + 1)..(0 + last)) = size
    BY <1>4, <2>1, SlicedSum
  <2>3. 0 + 1 = 1 /\ 0 + last = last
    OBVIOUS
  <2> QED BY <1>5, <2>1, <2>2, <2>3
<1>7. ChildrenKnown(o)
  BY <1>2, <1>3, <1>5 DEF ChildrenKnown
<1>8. Unmatched(id, b, keys, Waiting(b))
  <2>1. \A c : KeyOf(id, c)[1] = id
    BY DEF KeyOf
  <2> QED BY <2>1 DEF Unmatched
<1>9. Waiting(b) # {}
  BY <1>3, <1>5
<1> QED BY <1>2, <1>5, <1>6, <1>7, <1>8, <1>9 DEF Rests

(* An order that is taken is in hand before its first child. *)
LEMMA TakenIsWorked ==
  ASSUME NEW o \in Orders, o.status \notin Terminal, NEW id, NEW keys,
         ChildrenKnown(o), Rests(id, o, keys),
         NEW o2, o2 = [o EXCEPT !.status = IF o.status = "NEW" THEN "ACCEPTED" ELSE o.status],
         NEW hand, hand.id = id, hand.at = 1, hand.filled = 0
  PROVE  ChildrenKnown(o2) /\ Worked(hand, o2, keys)
<1>1. PICK ch : ch = o.children
  OBVIOUS
<1>2. /\ ch \in Seq(Children) /\ DOMAIN ch = 1..Len(ch) /\ Len(ch) \in Nat
      /\ o.parentSz \in Nat /\ o.status \in Statuses
  BY <1>1 DEF Orders, Statuses
<1>3. /\ o2.children = ch /\ o2.parentSz = o.parentSz /\ o2.retryGen = o.retryGen
      /\ o2.status \in {"ACCEPTED", "PARTIALLY_FILLED"}
  BY <1>1, <1>2 DEF Orders, Statuses, Pending, Terminal
<1>4. ChildrenKnown(o2)
  BY <1>1, <1>3 DEF ChildrenKnown
<1>5. FilledTo(ch, 1) = {} /\ SizeSum(ch, FilledTo(ch, 1)) = 0
  <2>1. FilledTo(ch, 1) = {}
    BY <1>2 DEF FilledTo
  <2> QED BY <1>2, <2>1, Sums
<1>6. \A i \in Waiting(ch) : i \in DOMAIN ch /\ ~(i < 1)
  BY <1>2 DEF Waiting
<1>7. {i \in Waiting(ch) : i >= 1 \/ 0 = 0} = Waiting(ch)
  OBVIOUS
<1>8. /\ SizeSum(ch, Ahead(ch, 1)) <= o.parentSz /\ SizeSum(ch, Ahead(ch, 1)) \in Nat
      /\ Unmatched(id, ch, keys, Waiting(ch))
  <2>1. Ahead(ch, 1) \subseteq DOMAIN ch
    BY <1>2, PartsOf
  <2> QED BY <1>1, <1>2, <2>1, Sums DEF Rests
<1>9. hand.at <= Len(ch) + 1
  BY <1>2
<1>10. Unmatched(hand.id, ch, keys, {i \in Waiting(ch) : i >= hand.at \/ hand.filled = 0})
  BY <1>7, <1>8 DEF Unmatched
<1>11. \A i \in Waiting(ch) : i < hand.at => ch[i].st = "ACCEPTED"
  BY <1>6
<1>12. SizeSum(ch, FilledTo(ch, hand.at)) <= hand.filled
  BY <1>5
<1>13. hand.filled + SizeSum(ch, Ahead(ch, hand.at)) <= o2.parentSz
  BY <1>2, <1>3, <1>8
<1> QED BY <1>3, <1>4, <1>9, <1>10, <1>11, <1>12, <1>13 DEF Worked

(* What may become of a child that is reached, and how much of it is counted. *)
Passed(c, d, counted) ==
  /\ d.n = c.n /\ d.gen = c.gen
  /\ \/ c.st \notin Pending /\ d = c /\ counted = IF c.st = "FILLED" THEN c.sz ELSE 0
     \/ c.st \in Pending /\ d.st = "ACCEPTED" /\ d.sz > 0 /\ d.sz + counted = c.sz
     \/ c.st \in Pending /\ d.st = "REJECTED" /\ counted = 0
     \/ c.st \in Pending /\ d.st = "FILLED" /\ d.sz = c.sz /\ counted = c.sz

(* The sums after the child k was passed. *)
LEMMA SumsAfterChild ==
  ASSUME NEW ch \in Seq(Children), NEW k \in DOMAIN ch, NEW d \in Children,
         NEW counted \in Nat, Passed(ch[k], d, counted),
         NEW ch2, ch2 = [ch EXCEPT ![k] = d], NEW filled \in Nat, NEW size \in Nat,
         SizeSum(ch, FilledTo(ch, k)) <= filled,
         filled + SizeSum(ch, Ahead(ch, k)) <= size
  PROVE  /\ SizeSum(ch2, FilledTo(ch2, k + 1)) <= filled + counted
         /\ (filled + counted) + SizeSum(ch2, Ahead(ch2, k + 1)) <= size
<1>1. /\ ch2 \in Seq(Children) /\ DOMAIN ch2 = DOMAIN ch /\ ch2[k] = d /\ k \in Nat
      /\ \A i \in DOMAIN ch : i # k => ch2[i] = ch[i]
      /\ \A i \in DOMAIN ch : i \in Nat
  OBVIOUS
<1>2. PICK c \in Children : c = ch[k]
  OBVIOUS
<1>3. PICK rest : rest = Ahead(ch, k) \ {k}
  OBVIOUS
<1>4. PICK done : done = FilledTo(ch, k)
  OBVIOUS
<1>5. /\ rest \subseteq DOMAIN ch /\ k \notin rest /\ done \subseteq DOMAIN ch /\ k \notin done
  BY <1>1, <1>3, <1>4, PartsOf DEF FilledTo
<1>6. /\ SizeSum(ch, rest) \in Nat /\ SizeSum(ch2, rest) = SizeSum(ch, rest)
      /\ SizeSum(ch, done) \in Nat /\ SizeSum(ch2, done) = SizeSum(ch, done)
  <2>1. /\ IsFiniteSet(rest) /\ Sized(ch, rest) /\ SizeSum(ch, rest) \in Nat
        /\ IsFiniteSet(done) /\ Sized(ch, done) /\ SizeSum(ch, done) \in Nat
    BY <1>5, Sums
  <2>2. (\A i \in rest : ch2[i].sz = ch[i].sz) /\ (\A i \in done : ch2[i].sz = ch[i].sz)
    BY <1>1, <1>5
  <2> QED BY <2>1, <2>2, SameSum
<1>7. SizeSum(ch, Ahead(ch, k)) =
        IF c.st \in Pending \/ c.st = "FILLED" THEN c.sz + SizeSum(ch, rest)
                                               ELSE SizeSum(ch, rest)
  <2>1. k \in Ahead(ch, k) <=> c.st \in Pending \/ c.st = "FILLED"
    BY <1>1, <1>2 DEF Ahead, Waiting
  <2>2. CASE k \in Ahead(ch, k)
    <3>1. Ahead(ch, k) \subseteq DOMAIN ch
      BY PartsOf
    <3> QED BY <1>2, <1>3, <2>1, <2>2, <3>1, Sums
  <2>3. CASE k \notin Ahead(ch, k)
    <3>1. rest = Ahead(ch, k)
      BY <1>3, <2>3
    <3> QED BY <2>1, <2>3, <3>1
  <2> QED BY <2>2, <2>3
<1>8. Ahead(ch2, k + 1) = IF d.st \in Pending THEN rest \cup {k} ELSE rest
  <2>1. \A i \in DOMAIN ch : i # k => (i >= k + 1 <=> i >= k)
    BY <1>1
  <2>2. ~(k >= k + 1)
    BY <1>1
  <2>3. \A i : i # k => (i \in Ahead(ch2, k + 1) <=> i \in Ahead(ch, k))
    BY <1>1, <2>1 DEF Ahead, Waiting
  <2>4. k \in Ahead(ch2, k + 1) <=> d.st \in Pending
    BY <1>1, <2>2 DEF Ahead, Waiting
  <2> QED BY <1>3, <2>3, <2>4
<1>9. FilledTo(ch2, k + 1) = IF d.st = "FILLED" THEN done \cup {k} ELSE done
  <2>1. \A i \in DOMAIN ch : i # k => (i < k + 1 <=> i < k)
    BY <1>1
  <2>2. k < k + 1 /\ ~(k < k)
    BY <1>1
  <2>3. \A i : i # k => (i \in FilledTo(ch2, k + 1) <=> i \in FilledTo(ch, k))
    BY <1>1, <2>1 DEF FilledTo
  <2>4. k \in FilledTo(ch2, k + 1) <=> d.st = "FILLED"
    BY <1>1, <2>2 DEF FilledTo
  <2>5. PICK new : new = FilledTo(ch2, k + 1)
    OBVIOUS
  <2>6. \A i : i \in new <=> i \in done \/ (i = k /\ d.st = "FILLED")
    BY <1>4, <1>5, <2>3, <2>4, <2>5
  <2>7. new = IF d.st = "FILLED" THEN done \cup {k} ELSE done
    BY <2>6
  <2> QED BY <2>5, <2>7
<1>10. /\ SizeSum(ch2, rest \cup {k}) = d.sz + SizeSum(ch, rest)
       /\ SizeSum(ch2, done \cup {k}) = d.sz + SizeSum(ch, done)
  <2>1. (rest \cup {k}) \ {k} = rest /\ (done \cup {k}) \ {k} = done
    BY <1>5
  <2>2. rest \cup {k} \subseteq DOMAIN ch2 /\ done \cup {k} \subseteq DOMAIN ch2
    BY <1>1, <1>5
  <2>3. SizeSum(ch2, rest \cup {k}) = ch2[k].sz + SizeSum(ch2, (rest \cup {k}) \ {k})
    BY <1>1, <2>2, Sums
  <2>4. SizeSum(ch2, done \cup {k}) = ch2[k].sz + SizeSum(ch2, (done \cup {k}) \ {k})
    BY <1>1, <2>2, Sums
  <2> QED BY <1>1, <1>6, <2>1, <2>3, <2>4
<1>11. c.sz \in Nat /\ d.sz \in Nat /\ "FILLED" \notin Pending /\ "ACCEPTED" \in Pending
       /\ "REJECTED" \notin Pending
  BY <1>2 DEF Children, Pending
<1>12. Passed(c, d, counted)
  BY <1>2
<1>13. PICK r \in Nat : r = SizeSum(ch, rest)
  BY <1>6
<1>14. PICK f \in Nat : f = SizeSum(ch, done)
  BY <1>6
<1>15. f <= filled /\ filled + (IF c.st \in Pending \/ c.st = "FILLED" THEN c.sz + r ELSE r) <= size
  BY <1>4, <1>7, <1>13, <1>14
<1>16. SizeSum(ch2, FilledTo(ch2, k + 1)) = IF d.st = "FILLED" THEN d.sz + f ELSE f
  BY <1>6, <1>9, <1>10, <1>14
<1>17. SizeSum(ch2, Ahead(ch2, k + 1)) = IF d.st \in Pending THEN d.sz + r ELSE r
  BY <1>6, <1>8, <1>10, <1>13
<1>18. (IF d.st = "FILLED" THEN d.sz + f ELSE f) <= filled + counted
  BY <1>11, <1>12, <1>15 DEF Passed
<1>19. (filled + counted) + (IF d.st \in Pending THEN d.sz + r ELSE r) <= size
  <2>1. PICK was \in Nat : was = c.sz
    BY <1>11
  <2>2. PICK sz \in Nat : sz = d.sz
    BY <1>11
  <2>3. CASE c.st \notin Pending /\ d = c /\ counted = IF c.st = "FILLED" THEN was ELSE 0
    BY <1>13, <1>15, <2>1, <2>3
  <2>4. CASE c.st \in Pending /\ d.st \in Pending /\ sz + counted = was
    <3>1. filled + (was + r) <= size
      BY <1>15, <2>1, <2>4
    <3>2. (filled + counted) + (sz + r) <= size
      <4>1. filled \in Nat /\ counted \in Nat /\ size \in Nat /\ sz + counted = was
        BY <2>4
      <4>2. was \in Nat /\ sz \in Nat /\ r \in Nat
        BY <1>13, <2>1, <2>2
      <4> QED BY ONLY <3>1, <4>1, <4>2
    <3> QED BY <2>2, <2>4, <3>2
  <2>5. CASE c.st \in Pending /\ d.st \notin Pending /\ counted <= was
    BY <1>13, <1>15, <2>1, <2>5
  <2> QED BY <1>11, <1>12, <2>1, <2>2, <2>3, <2>4, <2>5 DEF Passed
<1> QED BY <1>16, <1>17, <1>18, <1>19

LEMMA PassedIsWorked ==
  ASSUME NEW o \in Orders, ChildrenKnown(o), NEW keys, NEW keys2, NEW counted \in Nat,
         NEW hand, hand.at \in Nat \ {0}, hand.filled \in Nat, Worked(hand, o, keys),
         hand.at \in DOMAIN o.children, NEW d \in Children,
         Passed(o.children[hand.at], d, counted),
         \/ keys2 = keys
         \/ keys2 = keys \cup {KeyOf(hand.id, o.children[hand.at])} /\ counted > 0,
         NEW ch2, ch2 = [o.children EXCEPT ![hand.at] = d],
         NEW o2, o2 = [o EXCEPT !.children = ch2],
         NEW hand2, hand2.id = hand.id, hand2.at = hand.at + 1,
         hand2.filled = hand.filled + counted
  PROVE  ChildrenKnown(o2) /\ Worked(hand2, o2, keys2)
<1>1. PICK k \in Nat \ {0} : k = hand.at
  OBVIOUS
<1>2. PICK ch : ch = o.children
  OBVIOUS
<1>3. /\ ch \in Seq(Children) /\ k \in DOMAIN ch /\ DOMAIN ch = 1..Len(ch) /\ Len(ch) \in Nat
      /\ o.parentSz \in Nat
  BY <1>1, <1>2 DEF Orders
<1>4. /\ o2.children = ch2 /\ o2.parentSz = o.parentSz /\ o2.retryGen = o.retryGen
      /\ o2.status = o.status /\ ch2 = [ch EXCEPT ![k] = d]
  BY <1>1, <1>2 DEF Orders
<1>5. /\ DOMAIN ch2 = DOMAIN ch /\ Len(ch2) = Len(ch) /\ ch2[k] = d
      /\ \A i \in DOMAIN ch : i # k => ch2[i] = ch[i]
  BY <1>3, <1>4
<1>6. PICK c \in Children : c = ch[k]
  BY <1>3
<1>7. Passed(c, d, counted)
  BY <1>1, <1>2, <1>6
<1>8. /\ \A i \in DOMAIN ch : ch2[i].n = ch[i].n /\ ch2[i].gen = ch[i].gen
      /\ \A i \in DOMAIN ch : KeyOf(hand.id, ch2[i]) = KeyOf(hand.id, ch[i])
  <2>1. \A i \in DOMAIN ch : ch2[i].n = ch[i].n /\ ch2[i].gen = ch[i].gen
    BY <1>5, <1>6, <1>7 DEF Passed
  <2> QED BY <2>1 DEF KeyOf
<1>9. d.st \in Pending => d.sz > 0 /\ d.st = "ACCEPTED" /\ c.st \in Pending
  BY <1>7 DEF Passed, Pending
<1>10. ChildrenKnown(o2)
  <2>1. ASSUME NEW i \in Waiting(ch2) PROVE ch2[i].sz > 0
    <3>1. i # k => i \in Waiting(ch) /\ ch2[i] = ch[i]
      BY <1>5 DEF Waiting
    <3>2. i = k => d.st \in Pending
      BY <1>5 DEF Waiting
    <3> QED BY <1>2, <1>5, <1>9, <3>1, <3>2 DEF ChildrenKnown
  <2>2. \A i \in DOMAIN ch2 : ch2[i].gen <= o2.retryGen
    BY <1>2, <1>4, <1>5, <1>8 DEF ChildrenKnown
  <2>3. \A i, j \in DOMAIN ch2 : ch2[i].n = ch2[j].n /\ ch2[i].gen = ch2[j].gen => i = j
    BY <1>2, <1>5, <1>8 DEF ChildrenKnown
  <2> QED BY <1>4, <2>1, <2>2, <2>3 DEF ChildrenKnown
<1>11. /\ SizeSum(ch2, FilledTo(ch2, k + 1)) <= hand.filled + counted
       /\ (hand.filled + counted) + SizeSum(ch2, Ahead(ch2, k + 1)) <= o.parentSz
  <2>1. /\ SizeSum(ch, FilledTo(ch, k)) <= hand.filled
        /\ hand.filled + SizeSum(ch, Ahead(ch, k)) <= o.parentSz
    BY <1>1, <1>2 DEF Worked
  <2> QED BY <1>3, <1>4, <1>6, <1>7, <2>1, SumsAfterChild
<1>12. ASSUME NEW i \in Waiting(ch2), i < k + 1 PROVE ch2[i].st = "ACCEPTED"
  <2>1. i \in DOMAIN ch /\ i \in Nat /\ (i # k => i < k /\ i \in Waiting(ch) /\ ch2[i] = ch[i])
    BY <1>3, <1>5, <1>12 DEF Waiting
  <2>2. i = k => d.st \in Pending
    BY <1>5 DEF Waiting
  <2>3. \A j \in Waiting(ch) : j < k => ch[j].st = "ACCEPTED"
    BY <1>1, <1>2 DEF Worked
  <2> QED BY <1>5, <1>9, <2>1, <2>2, <2>3
<1>13. ASSUME NEW i \in Waiting(ch2), i >= k + 1 \/ hand.filled + counted = 0
       PROVE  KeyOf(hand.id, ch2[i]) \notin keys2
  <2>1. /\ i \in DOMAIN ch /\ i \in Nat
        /\ i # k => i \in Waiting(ch) /\ ch2[i] = ch[i]
        /\ i = k => d.st \in Pending
    BY <1>3, <1>5 DEF Waiting
  <2>2. i \in Waiting(ch) /\ (i >= k \/ hand.filled = 0)
    <3>1. i = k => i \in Waiting(ch)
      BY <1>6, <1>9, <2>1 DEF Waiting
    <3> QED BY <1>13, <2>1, <3>1
  <2>3. KeyOf(hand.id, ch[i]) \notin keys
    <3>1. Unmatched(hand.id, ch, keys, {j \in Waiting(ch) : j >= k \/ hand.filled = 0})
      BY <1>1, <1>2 DEF Worked
    <3> QED BY <2>2, <3>1 DEF Unmatched
  <2>4. KeyOf(hand.id, ch2[i]) = KeyOf(hand.id, ch[i])
    BY <1>8, <2>1
  <2>5. CASE keys2 = keys
    BY <2>3, <2>4, <2>5
  <2>6. CASE keys2 = keys \cup {KeyOf(hand.id, ch[k])} /\ counted > 0
    <3>1. i # k
      BY <1>13, <2>6
    <3>2. ~(ch[i].n = ch[k].n /\ ch[i].gen = ch[k].gen)
      BY <1>2, <1>3, <2>1, <3>1 DEF ChildrenKnown
    <3>3. KeyOf(hand.id, ch[i]) # KeyOf(hand.id, ch[k])
      BY <3>2 DEF KeyOf
    <3> QED BY <2>3, <2>4, <2>6, <3>3
  <2> QED BY <1>1, <1>2, <2>5, <2>6
<1>14. hand2.at <= Len(o2.children) + 1
  BY <1>1, <1>3, <1>4, <1>5
<1>15. o2.status \in {"ACCEPTED", "PARTIALLY_FILLED"}
  BY <1>4 DEF Worked
<1>16. Unmatched(hand2.id, ch2, keys2, {i \in Waiting(ch2) : i >= hand2.at \/ hand2.filled = 0})
  BY <1>1, <1>13 DEF Unmatched
<1> QED
  BY <1>1, <1>4, <1>10, <1>11, <1>12, <1>14, <1>15, <1>16 DEF Worked

-----------------------------------------------------------------------------
(* An order that was gone through, and stays *)

(* Nothing of it was matched: it goes on waiting. *)
LEMMA UnfilledRests ==
  ASSUME NEW o \in Orders, ChildrenKnown(o), NEW keys, NEW hand, hand.filled \in Nat,
         Worked(hand, o, keys), hand.at = Len(o.children) + 1,
         NEW o2, o2 = WithFilled(o, hand.filled, StatusAfter(o, hand.filled)),
         o2.status \notin Terminal, o2.status # "PARTIALLY_FILLED"
  PROVE  ChildrenKnown(o2) /\ Rests(hand.id, o2, keys)
<1>1. PICK ch : ch = o.children
  OBVIOUS
<1>2. /\ ch \in Seq(Children) /\ DOMAIN ch = 1..Len(ch) /\ Len(ch) \in Nat
      /\ o.parentSz \in Nat /\ o.status \in {"ACCEPTED", "PARTIALLY_FILLED"}
  BY <1>1 DEF Orders, Worked
<1>3. PICK st : st = StatusAfter(o, hand.filled)
  OBVIOUS
<1>4. /\ o2.children = ch /\ o2.parentSz = o.parentSz /\ o2.retryGen = o.retryGen
      /\ o2.status = st /\ o2.totalFilled = hand.filled
  BY <1>1, <1>3 DEF WithFilled, Orders
<1>5. hand.filled = 0 /\ o.status = "ACCEPTED" /\ HasPending(o)
  BY <1>2, <1>3, <1>4 DEF StatusAfter, Terminal
<1>6. Waiting(ch) # {}
  BY <1>1, <1>5 DEF HasPending, Waiting
<1>7. ChildrenKnown(o2)
  BY <1>1, <1>4 DEF ChildrenKnown
<1>8. PICK n \in Nat : n = Len(ch) + 1
  BY <1>2
<1>9. /\ SizeSum(ch, FilledTo(ch, n)) <= 0 /\ 0 + SizeSum(ch, Ahead(ch, n)) <= o.parentSz
      /\ Unmatched(hand.id, ch, keys, {i \in Waiting(ch) : i >= n \/ 0 = 0})
  BY <1>1, <1>5, <1>8 DEF Worked
<1>10. Ahead(ch, n) = Waiting(ch) /\ Ahead(ch, 1) = Waiting(ch) \cup FilledTo(ch, n)
  BY <1>2, <1>8 DEF Ahead, FilledTo, Waiting
<1>11. Waiting(ch) \cap FilledTo(ch, n) = {}
  BY DEF Waiting, FilledTo, Pending
<1>12. SizeSum(ch, Ahead(ch, 1)) = SizeSum(ch, Waiting(ch)) + SizeSum(ch, FilledTo(ch, n))
  BY <1>2, <1>10, <1>11, PartsOf, SumOfTwo
<1>13. SizeSum(ch, Waiting(ch)) \in Nat /\ SizeSum(ch, FilledTo(ch, n)) \in Nat
  BY <1>2, PartsOf, Sums
<1>14. /\ SizeSum(ch, Ahead(ch, 1)) <= o2.parentSz
       /\ o2.totalFilled + SizeSum(ch, Waiting(ch)) <= o2.parentSz
  BY <1>2, <1>4, <1>5, <1>9, <1>10, <1>12, <1>13
<1>15. Unmatched(hand.id, ch, keys, Waiting(ch))
  BY <1>9 DEF Unmatched
<1> QED BY <1>4, <1>6, <1>7, <1>14, <1>15 DEF Rests

(* What stands where after one sequence is put behind another. *)
LEMMA Behind ==
  ASSUME NEW S, NEW s \in Seq(S), NEW b \in Seq(S), NEW n, n = Len(s), NEW all, all = s \o b,
         NEW last, last = n + Len(b)
  PROVE  /\ all \in Seq(S) /\ DOMAIN all = 1..last /\ n \in Nat /\ last \in Nat
         /\ \A i \in 1..n : i \in 1..last /\ all[i] = s[i]
         /\ \A i \in 1..Len(b) : all[n + i] = b[i]
         /\ \A i \in (n + 1)..last : i \in 1..last /\ i - n \in 1..Len(b) /\ all[i] = b[i - n]
         /\ \A i \in 1..last : i \in 1..n \/ i \in (n + 1)..last
<1>1. n \in Nat /\ last \in Nat
  OBVIOUS
<1>2. PICK m \in Nat : m = Len(b)
  OBVIOUS
<1>3. all \in Seq(S) /\ Len(all) = last
  BY ConcatProperties
<1>4. \A i \in 1..last : all[i] = IF i <= n THEN s[i] ELSE b[i - n]
  BY ConcatProperties
<1>5. \A i \in 1..n : i \in 1..last /\ i <= n
  BY <1>1, <1>2
<1>6. \A i \in 1..m : n + i \in 1..last /\ ~(n + i <= n) /\ (n + i) - n = i
  BY <1>1, <1>2
<1>7. \A i \in (n + 1)..last : i \in 1..last /\ ~(i <= n) /\ i - n \in 1..m
  BY <1>1, <1>2
<1>8. \A i \in 1..last : i \in 1..n \/ i \in (n + 1)..last
  BY <1>1
<1>9. DOMAIN all = 1..last
  BY <1>3
<1>10. \A i \in 1..n : i \in 1..last /\ all[i] = s[i]
  BY <1>4, <1>5
<1>11. \A i \in 1..m : all[n + i] = b[i]
  BY <1>4, <1>6
<1>12. \A i \in (n + 1)..last : i \in 1..last /\ i - n \in 1..m /\ all[i] = b[i - n]
  BY <1>4, <1>7
<1> QED BY <1>1, <1>2, <1>3, <1>8, <1>9, <1>10, <1>11, <1>12

(* A child that is off the book, or was never on it. *)
OffBook(d, c) ==
  /\ d.sz = c.sz /\ d.n = c.n /\ d.gen = c.gen
  /\ d.st \notin Pending
  /\ d.st = "FILLED" <=> c.st = "FILLED"

AllOff(old, ch) == Len(old) = Len(ch) /\ \A i \in 1..Len(ch) : OffBook(old[i], ch[i])

(* The sums of an order that was sliced anew. *)
AnewSums(all, ch, left) ==
  /\ Waiting(all) # {}
  /\ SizeSum(all, Waiting(all)) = left
  /\ SizeSum(all, Ahead(all, 1)) = left + SizeSum(ch, FilledTo(ch, Len(ch) + 1))

(* Its children: those it had, and those of the new generation. *)
AnewChildren(all, ch, gen) ==
  /\ \A i \in Waiting(all) : all[i].sz > 0 /\ all[i].gen = gen
  /\ \A i \in DOMAIN all :
       \/ i \in 1..Len(ch) /\ all[i].gen = ch[i].gen /\ all[i].n = ch[i].n
       \/ all[i].gen = gen /\ all[i].n = i - Len(ch) /\ i \in Int

LEMMA SlicedAnew ==
  ASSUME SizesAssumption, NEW ch \in Seq(Children), NEW old \in Seq(Children),
         AllOff(old, ch),
         NEW left \in Nat \ {0}, NEW strat, NEW gen \in Nat,
         NEW all, all = old \o BuildChildren(left, strat, gen)
  PROVE  AnewSums(all, ch, left) /\ AnewChildren(all, ch, gen)
<1> DEFINE n == Len(ch)
<1>a. Len(old) = n /\ n \in Nat /\ \A i \in 1..n : OffBook(old[i], ch[i])
  BY DEF AllOff
<1> HIDE DEF n
<1>1. PICK b : b = BuildChildren(left, strat, gen)
  OBVIOUS
<1>0. SizesAssumption /\ left \in Nat \ {0} /\ gen \in Nat
  OBVIOUS
<1>2. /\ b \in Seq(Children) /\ Len(b) > 0
      /\ \A i \in DOMAIN b : b[i].sz > 0 /\ b[i].st = "NEW" /\ b[i].gen = gen /\ b[i].n = i
  BY ONLY <1>0, <1>1, FreshChildren
<1>3. PICK slice \in Nat \ {0} :
        Len(b) = Ceiling(left, slice) /\ SlicedAfter(0, b, left, slice)
  BY ONLY <1>0, <1>1, FreshChildren
<1>4. PICK m \in Nat \ {0} : m = Len(b)
  BY <1>2
<1>5. DOMAIN b = 1..m /\ DOMAIN ch = 1..n /\ n \in Nat /\ n = Len(old)
  BY <1>2, <1>4, <1>a DEF n
<1>6. PICK last : last = n + m
  OBVIOUS
<1>7. /\ all \in Seq(Children) /\ DOMAIN all = 1..last /\ last \in Nat
      /\ \A i \in 1..n : i \in 1..last /\ all[i] = old[i]
      /\ \A i \in 1..m : all[n + i] = b[i]
      /\ \A i \in (n + 1)..last : i \in 1..last /\ i - n \in 1..m /\ all[i] = b[i - n]
      /\ \A i \in 1..last : i \in 1..n \/ i \in (n + 1)..last
  <2>1. /\ old \in Seq(Children) /\ b \in Seq(Children) /\ all = old \o b
        /\ n = Len(old) /\ m = Len(b) /\ last = n + Len(b)
    BY <1>1, <1>2, <1>4, <1>5, <1>6
  <2> QED BY ONLY <2>1, Behind
<1>8. \A i \in 1..n : OffBook(all[i], ch[i])
  BY <1>7, <1>a
<1>9. \A i \in (n + 1)..last :
        all[i].sz > 0 /\ all[i].st \in Pending /\ all[i].gen = gen /\ all[i].n = i - n
  <2>1. \A k \in 1..m : b[k].sz > 0 /\ b[k].st = "NEW" /\ b[k].gen = gen /\ b[k].n = k
    BY <1>2, <1>5
  <2>2. \A i \in (n + 1)..last : i - n \in 1..m /\ all[i] = b[i - n]
    BY <1>7
  <2>3. "NEW" \in Pending
    BY DEF Pending
  <2> QED BY ONLY <2>1, <2>2, <2>3
<1>10. Waiting(all) = (n + 1)..last
  <2>1. \A i \in 1..n : all[i].st \notin Pending
    BY <1>8 DEF OffBook
  <2> QED BY <1>7, <1>9, <2>1 DEF Waiting
<1>11. n + 1 \in (n + 1)..last
  BY <1>4, <1>5, <1>6
<1>12. PICK done : done = FilledTo(ch, n + 1)
  OBVIOUS
<1>13. done = {i \in 1..n : ch[i].st = "FILLED"}
  BY <1>5, <1>12 DEF FilledTo
<1>14. Waiting(all) \cap done = {}
  BY <1>5, <1>10, <1>13
<1>15. Ahead(all, 1) = Waiting(all) \cup done
  <2>1. PICK filled : filled = {i \in DOMAIN all : i >= 1 /\ all[i].st = "FILLED"}
    OBVIOUS
  <2>2. Ahead(all, 1) = Waiting(all) \cup filled
    BY <2>1 DEF Ahead
  <2>3. ASSUME NEW i \in done PROVE i \in filled
    <3>1. i \in 1..n /\ ch[i].st = "FILLED"
      BY <1>13
    <3>2. all[i].st = "FILLED"
      BY <1>8, <3>1 DEF OffBook
    <3>3. i \in DOMAIN all /\ i >= 1
      <4>1. i \in DOMAIN all
        BY ONLY <1>7, <3>1
      <4>2. i >= 1
        BY ONLY <1>5, <3>1
      <4> QED BY <4>1, <4>2
    <3> QED BY <2>1, <3>2, <3>3
  <2>4. \A i \in filled : i \in Waiting(all) \/ i \in done
    <3>1. \A i \in filled : i \in 1..last /\ all[i].st = "FILLED"
      BY <1>7, <2>1
    <3>2. \A i \in 1..n : all[i].st = "FILLED" => ch[i].st = "FILLED"
      BY <1>8 DEF OffBook
    <3> QED BY <1>7, <1>10, <1>13, <3>1, <3>2
  <2> QED BY <2>2, <2>3, <2>4
<1>16. SizeSum(all, done) = SizeSum(ch, done) /\ SizeSum(ch, done) \in Nat
  <2>1. IsFiniteSet(done) /\ Sized(ch, done) /\ SizeSum(ch, done) \in Nat
    BY <1>12, PartsOf, Sums
  <2>2. \A i \in done : all[i].sz = ch[i].sz
    BY <1>8, <1>13 DEF OffBook
  <2> QED BY <2>1, <2>2, SameSum
<1>17. SizeSum(all, Waiting(all)) = left
  <2>1. PICK k \in Nat : k = Ceiling(left, slice) /\ k = m
    BY <1>3, <1>4
  <2>2. SlicedAfter(n, all, left, slice)
    <3>1. \A i \in 1..m : 0 + i = i
      OBVIOUS
    <3>2. \A i \in 1..m : b[0 + i].sz = Least(left - (i - 1) * slice, slice)
      BY <1>3, <2>1 DEF SlicedAfter
    <3>3. \A i \in 1..m : all[n + i].sz = b[0 + i].sz
      BY <1>7, <3>1
    <3> QED BY <2>1, <3>2, <3>3 DEF SlicedAfter
  <2>3. SizeSum(all, (n + 1)..(n + k)) = left
    BY <1>5, <2>1, <2>2, SlicedSum
  <2> QED BY <1>6, <1>10, <2>1, <2>3
<1>18. SizeSum(all, Ahead(all, 1)) = left + SizeSum(ch, done)
  <2>1. Waiting(all) \subseteq DOMAIN all /\ done \subseteq DOMAIN all
    BY <1>7, <1>13, PartsOf
  <2>2. SizeSum(all, Waiting(all) \cup done) = SizeSum(all, Waiting(all)) + SizeSum(all, done)
    BY ONLY <1>7, <1>14, <2>1, SumOfTwo
  <2> QED BY <1>15, <1>16, <1>17, <2>2
<1>19. \A i \in DOMAIN all :
         \/ i \in 1..n /\ all[i].gen = ch[i].gen /\ all[i].n = ch[i].n
         \/ all[i].gen = gen /\ all[i].n = i - n /\ i \in Int
  <2>1. \A i \in 1..n : all[i].gen = ch[i].gen /\ all[i].n = ch[i].n
    BY <1>8 DEF OffBook
  <2>2. \A i \in (n + 1)..last : all[i].gen = gen /\ all[i].n = i - n
    BY <1>9
  <2>3. (\A i \in 1..last : i \in Int) /\ n \in Int
    BY <1>5
  <2>4. \A i \in DOMAIN all : i \in 1..last /\ (i \in 1..n \/ i \in (n + 1)..last)
    BY <1>7
  <2> QED BY ONLY <2>1, <2>2, <2>3, <2>4
<1>20. AnewSums(all, ch, left)
  BY <1>10, <1>11, <1>12, <1>17, <1>18 DEF AnewSums, n
<1>21. AnewChildren(all, ch, gen)
  BY <1>9, <1>10, <1>19 DEF AnewChildren, n
<1> QED BY <1>20, <1>21

(* The keys of an order are of its generations so far. *)
KeysBefore(keys, id, gen) == \A key \in keys : key[1] = id => key[3] <= gen

(* What was on the book is off it, and the rest is sliced anew. *)
LEMMA RetriedRests ==
  ASSUME SizesAssumption, NEW o \in Orders, ChildrenKnown(o), NEW keys,
         NEW hand, hand.filled \in Nat, hand.filled < o.parentSz,
         KeysBefore(keys, hand.id, o.retryGen),
         Worked(hand, o, keys), hand.at = Len(o.children) + 1,
         NEW mid, mid = WithFilled(o, hand.filled, "PARTIALLY_FILLED"),
         NEW o2, o2 = Retried(mid)
  PROVE  ChildrenKnown(o2) /\ Rests(hand.id, o2, keys) /\ o2.retryGen = o.retryGen + 1
<1>1. PICK ch : ch = o.children
  OBVIOUS
<1>2. PICK n \in Nat : n = Len(ch)
  BY <1>1 DEF Orders
<1>3. /\ ch \in Seq(Children) /\ DOMAIN ch = 1..n
      /\ o.parentSz \in Nat /\ o.retryGen \in Nat
  BY <1>1, <1>2 DEF Orders
<1>4. PICK gen \in Nat \ {0} : gen = o.retryGen + 1
  BY <1>3
<1>5. PICK left \in Nat \ {0} : left = o.parentSz - hand.filled
  BY <1>3
<1>6. /\ mid \in Orders /\ mid.children = ch /\ mid.parentSz = o.parentSz
      /\ mid.retryGen = o.retryGen /\ mid.totalFilled = hand.filled
  <2>1. "PARTIALLY_FILLED" \in Statuses
    BY DEF Statuses
  <2>2. PICK filled \in Nat : filled = hand.filled
    OBVIOUS
  <2>3. mid = WithFilled(o, filled, "PARTIALLY_FILLED")
    BY <2>2
  <2>4. /\ Follows(mid, o) /\ mid.totalFilled = filled /\ mid.children = o.children
        /\ mid.retryGen = o.retryGen
    BY <2>1, <2>3, FilledSet
  <2> QED BY <1>1, <2>2, <2>4 DEF Follows
<1>7. PICK old : old = OffTheBook(mid)
  OBVIOUS
<1>8. PICK strat : strat = mid.strat
  OBVIOUS
<1>9. PICK all : all = old \o BuildChildren(left, strat, gen)
  OBVIOUS
<1>10. /\ o2.children = all /\ o2.parentSz = o.parentSz /\ o2.retryGen = gen
       /\ o2.totalFilled = hand.filled
  <2>1. PICK budget : budget = LessBudget(mid)
    OBVIOUS
  <2>2. NextGen(mid) = gen
    BY <1>4, <1>6 DEF NextGen
  <2>3. o2 = [mid EXCEPT !.retryBudget = budget, !.retryGen = gen, !.children = all]
    BY <1>5, <1>6, <1>7, <1>8, <1>9, <2>1, <2>2 DEF Retried
  <2> QED BY ONLY <1>6, <2>3 DEF Orders
<1>11. /\ old \in Seq(Children) /\ Len(old) = n
       /\ \A i \in 1..n : OffBook(old[i], ch[i])
  <2>1. old = [i \in 1..n |-> IF ch[i].st \in {"ACCEPTED", "REJECTED"}
                                THEN [ch[i] EXCEPT !.st = "CANCELLED"] ELSE ch[i]]
    BY <1>3, <1>6, <1>7 DEF OffTheBook, Cancelling
  <2>2. old \in Seq(Children)
    BY <1>6, <1>7, CancellingIs DEF OffTheBook
  <2>3. Len(old) = n
    BY <2>1, <2>2
  <2>4. ASSUME NEW i \in 1..n PROVE OffBook(old[i], ch[i])
    <3>1. ch[i] \in Children
      BY <1>3
    <3>2. ch[i].st \in Pending => ch[i].st = "ACCEPTED"
      <4>1. \A j \in Waiting(ch) : j < n + 1 => ch[j].st = "ACCEPTED"
        BY <1>1, <1>2 DEF Worked
      <4>2. i < n + 1
        OBVIOUS
      <4> QED BY <1>3, <4>1, <4>2 DEF Waiting
    <3>3. CASE ch[i].st \in {"ACCEPTED", "REJECTED"}
      <4>1. old[i] = [ch[i] EXCEPT !.st = "CANCELLED"]
        BY <2>1, <3>3
      <4> QED BY <3>1, <3>3, <4>1 DEF Children, Pending, OffBook
    <3>4. CASE ch[i].st \notin {"ACCEPTED", "REJECTED"}
      <4>1. old[i] = ch[i]
        BY <2>1, <3>4
      <4> QED BY <3>2, <3>4, <4>1 DEF OffBook
    <3> QED BY <3>3, <3>4
  <2> QED BY <2>2, <2>3, <2>4
<1>12. PICK done : done = SizeSum(ch, FilledTo(ch, n + 1))
  OBVIOUS
<1>13. /\ Waiting(all) # {}
       /\ SizeSum(all, Waiting(all)) = left
       /\ SizeSum(all, Ahead(all, 1)) = left + done
       /\ \A i \in Waiting(all) : all[i].sz > 0 /\ all[i].gen = gen
       /\ \A i \in DOMAIN all :
            \/ i \in 1..n /\ all[i].gen = ch[i].gen /\ all[i].n = ch[i].n
            \/ all[i].gen = gen /\ all[i].n = i - n /\ i \in Int /\ n \in Int
  <2>1. SizesAssumption /\ ch \in Seq(Children) /\ left \in Nat \ {0} /\ gen \in Nat
    BY <1>3
  <2>2. AllOff(old, ch)
    BY <1>2, <1>11 DEF AllOff
  <2>3. AnewSums(all, ch, left) /\ AnewChildren(all, ch, gen)
    BY ONLY <1>9, <1>11, <2>1, <2>2, SlicedAnew
  <2>4. n = Len(ch) /\ n \in Int
    BY <1>2
  <2> QED BY ONLY <1>12, <2>3, <2>4 DEF AnewSums, AnewChildren
<1>14. done \in Nat /\ done <= hand.filled
  <2>1. done \in Nat
    BY <1>3, <1>12, PartsOf, Sums
  <2> QED BY <1>1, <1>2, <1>12, <2>1 DEF Worked
<1>15. /\ SizeSum(all, Ahead(all, 1)) <= o.parentSz
       /\ hand.filled + SizeSum(all, Waiting(all)) <= o.parentSz
  <2>1. hand.filled \in Nat /\ o.parentSz \in Nat
    BY <1>3
  <2> QED BY ONLY <1>5, <1>13, <1>14, <2>1
<1>16. Unmatched(hand.id, all, keys, Waiting(all))
  <2> SUFFICES ASSUME NEW i \in Waiting(all) PROVE KeyOf(hand.id, all[i]) \notin keys
    BY DEF Unmatched
  <2>1. KeyOf(hand.id, all[i])[1] = hand.id /\ KeyOf(hand.id, all[i])[3] = gen
    BY <1>13 DEF KeyOf
  <2>2. ~(gen <= o.retryGen)
    BY ONLY <1>3, <1>4
  <2> QED BY <2>1, <2>2 DEF KeysBefore
<1>17. ChildrenKnown(o2)
  <2>1. \A i \in 1..n : ch[i].gen <= o.retryGen /\ ch[i].gen \in Nat
    <3>1. \A i \in 1..n : ch[i] \in Children
      BY <1>3
    <3> QED BY <1>1, <1>3, <3>1 DEF ChildrenKnown, Children
  <2>2. \A i \in 1..n : ch[i].gen <= gen /\ ch[i].gen # gen
    BY ONLY <1>3, <1>4, <2>1
  <2>3. \A i \in DOMAIN all : all[i].gen <= gen
    BY ONLY <1>4, <1>13, <2>2
  <2>4. ASSUME NEW i \in DOMAIN all, NEW j \in DOMAIN all,
               all[i].n = all[j].n, all[i].gen = all[j].gen
        PROVE  i = j
    <3>1. CASE i \in 1..n /\ all[i].gen = ch[i].gen /\ all[i].n = ch[i].n
      <4>1. j \in 1..n /\ all[j].gen = ch[j].gen /\ all[j].n = ch[j].n
        BY <1>13, <2>2, <2>4, <3>1
      <4> QED BY <1>1, <1>3, <2>4, <3>1, <4>1 DEF ChildrenKnown
    <3>2. CASE all[i].gen = gen /\ all[i].n = i - n /\ i \in Int /\ n \in Int
      <4>1. all[j].n = j - n /\ j \in Int
        BY <1>13, <2>2, <2>4, <3>2
      <4>2. i - n = j - n /\ i \in Int /\ j \in Int /\ n \in Int
        BY <2>4, <3>2, <4>1
      <4> QED BY ONLY <4>2
    <3> QED BY <1>13, <3>1, <3>2
  <2> QED BY <1>10, <1>13, <2>3, <2>4 DEF ChildrenKnown
<1> QED BY <1>4, <1>10, <1>13, <1>15, <1>16, <1>17 DEF Rests

-----------------------------------------------------------------------------
(* What every step keeps of that *)

(***************************************************************************)
(* The keys of all fills are known, and a key is of an order's generation  *)
(* that has been.                                                          *)
(***************************************************************************)
KeysKnown ==
  /\ \A f \in fills : f.key \in fillKeys
  /\ phase # "rest" => \A f \in newFills : f.key \in fillKeys
  /\ \A key \in fillKeys : key[1] \in Created /\ key[3] <= order[key[1]].retryGen

OrderRests(id, o, keys) == o.status \notin Terminal => ChildrenKnown(o) /\ Rests(id, o, keys)

WorkKnown ==
  /\ \A id \in Created : id \notin InHand(cur) => OrderRests(id, order[id], fillKeys)
  /\ cur # None => ChildrenKnown(order[cur.id]) /\ Worked(cur, order[cur.id], fillKeys)

RestInv == KeysKnown /\ WorkKnown

(* Keys of other orders do not matter to an order. *)
LEMMA RestsOn ==
  ASSUME NEW id, NEW o, NEW keys, OrderRests(id, o, keys), NEW more,
         \A key \in more : key[1] = id => key \in keys
  PROVE  OrderRests(id, o, more)
<1>1. \A c : KeyOf(id, c)[1] = id
  BY DEF KeyOf
<1>2. Unmatched(id, o.children, keys, Waiting(o.children)) =>
        Unmatched(id, o.children, more, Waiting(o.children))
  BY <1>1 DEF Unmatched
<1> QED BY <1>2 DEF OrderRests, Rests

LEMMA MovesRest ==
  ASSUME RestInv, UNCHANGED <<order, seq, cur, fills, fillKeys>>,
         \/ newFills' = newFills /\ (phase' # "rest" => phase # "rest")
         \/ newFills' = {}
  PROVE  RestInv'
<1>1. Created' = Created
  BY DEF Created
<1>2. KeysKnown'
  BY <1>1 DEF RestInv, KeysKnown
<1>3. WorkKnown'
  BY <1>1 DEF RestInv, WorkKnown
<1> QED BY <1>2, <1>3 DEF RestInv

(* All keys were known when they were applied. *)
LEMMA ApplyRests ==
  ASSUME SimInv, RestInv, ApplyFills
  PROVE  RestInv'
<1>1. /\ phase = "apply" /\ phase' = "rest" /\ fills' = fills \cup Applied
      /\ fillKeys' = {f.key : f \in fills'} /\ UNCHANGED <<order, seq, cur>>
  BY DEF ApplyFills
<1>2. Applied = {}
  BY <1>1 DEF Applied, RestInv, KeysKnown
<1>3. (\A key \in fillKeys' : key \in fillKeys) /\ Created' = Created
  BY <1>1, <1>2 DEF RestInv, KeysKnown, Created
<1>4. cur = None
  BY <1>1 DEF SimInv, PhaseKnown
<1>5. KeysKnown'
  BY <1>1, <1>3 DEF RestInv, KeysKnown
<1>6. ASSUME NEW id \in Created, id \notin InHand(cur)
      PROVE  OrderRests(id, order[id], fillKeys')
  BY <1>3, <1>6, RestsOn DEF RestInv, WorkKnown
<1>7. WorkKnown'
  BY <1>1, <1>3, <1>4, <1>6 DEF WorkKnown
<1> QED BY <1>5, <1>7 DEF RestInv

LEMMA CreateRests ==
  ASSUME SizesAssumption, SimInv, RestInv,
         NEW dir \in Dirs, NEW size \in Sizes, NEW strat \in Strats,
         CreateOrder(dir, size, strat)
  PROVE  RestInv'
<1>1. PICK n : n = seq + 1
  OBVIOUS
<1>2. PICK o : o = NewOrder("new", dir, size, strat, RetryBudget, None)
  OBVIOUS
<1>3. /\ phase = "recs" /\ seq < MaxNew /\ seq' = n /\ order' = [order EXCEPT ![n] = o]
      /\ UNCHANGED <<fills, fillKeys, newFills, phase, cur>>
  BY <1>1, <1>2 DEF CreateOrder, fillVars
<1>4. cur = None /\ order \in [Ids -> Orders \cup {None}] /\ seq \in 0..MaxOrders
  BY <1>3 DEF SimInv, PhaseKnown, SimTypeOK
<1>5. n \in Ids /\ n \notin Created /\ Created' = Created \cup {n} /\ Created \subseteq Ids
  BY <1>1, <1>3, <1>4 DEF SizesAssumption, Ids, Created
<1>6. order'[n] = o /\ \A id \in Created : order'[id] = order[id]
  BY <1>3, <1>4, <1>5
<1>7. ChildrenKnown(o) /\ Rests(n, o, fillKeys)
  <2>1. size \in Nat \ {0}
    BY DEF SizesAssumption
  <2>2. \A key \in fillKeys : key[1] # n
    BY <1>5 DEF RestInv, KeysKnown
  <2>3. SizesAssumption
    OBVIOUS
  <2> QED BY ONLY <1>2, <2>1, <2>2, <2>3, NewOrderRests
<1>8. KeysKnown'
  BY <1>3, <1>5, <1>6 DEF RestInv, KeysKnown
<1>9. WorkKnown'
  <2>1. \A id \in Created : id \notin InHand(cur) => OrderRests(id, order[id], fillKeys)
    BY DEF RestInv, WorkKnown
  <2>2. OrderRests(n, o, fillKeys)
    BY <1>7 DEF OrderRests
  <2> QED BY <1>3, <1>4, <1>5, <1>6, <2>1, <2>2 DEF WorkKnown
<1> QED BY <1>8, <1>9 DEF RestInv

(***************************************************************************)
(* A step that changes the order in hand, or takes one: the others rest as *)
(* they did, and the new keys are of this one.                             *)
(***************************************************************************)
LEMMA OneRests ==
  ASSUME SizesAssumption, SimInv, RestInv, NEW c \in Created, InHand(cur) \subseteq {c},
         NEW o, o \in Orders, order[c].retryGen <= o.retryGen,
         order' = [order EXCEPT ![c] = o], UNCHANGED <<seq, fills, phase>>,
         NEW more, fillKeys' = fillKeys \cup more,
         \A key \in more : key[1] = c /\ key[3] <= o.retryGen,
         phase # "rest", \A f \in newFills' : f \in newFills \/ f.key \in more,
         \/ cur' = None /\ OrderRests(c, o, fillKeys')
         \/ cur' # None /\ cur'.id = c /\ ChildrenKnown(o) /\ Worked(cur', o, fillKeys')
  PROVE  RestInv'
<1>1. /\ Created' = Created /\ Created \subseteq Ids
      /\ order \in [Ids -> Orders \cup {None}] /\ fillKeys \subseteq Keys
      /\ \A id \in Created : order[id] \in Orders
  BY DEF SimInv, SimTypeOK, TablesKnown, Created, Ids, SizesAssumption
<1>2. \A id \in Created : order'[id] = IF id = c THEN o ELSE order[id]
  BY <1>1
<1>3. KeysKnown'
  <2>1. ASSUME NEW key \in fillKeys'
        PROVE  key[1] \in Created /\ key[3] <= order'[key[1]].retryGen
    <3>1. CASE key \in more
      BY <1>2, <3>1
    <3>2. CASE key \in fillKeys
      <4>1. key[1] \in Created /\ key[3] <= order[key[1]].retryGen /\ key[3] \in Nat
        BY <1>1, <3>2 DEF RestInv, KeysKnown, Keys
      <4>2. CASE key[1] # c
        BY <1>2, <4>1, <4>2
      <4>3. CASE key[1] = c
        <5>1. order[c].retryGen \in Nat /\ o.retryGen \in Nat
          BY <1>1 DEF Orders
        <5>2. key[3] <= o.retryGen
          BY <4>1, <4>3, <5>1
        <5> QED BY <1>2, <4>1, <4>3, <5>2
      <4> QED BY <4>2, <4>3
    <3> QED BY <3>1, <3>2
  <2>2. \A f \in newFills' : f.key \in fillKeys'
    BY DEF RestInv, KeysKnown
  <2>3. \A f \in fills' : f.key \in fillKeys'
    BY DEF RestInv, KeysKnown
  <2> QED BY <1>1, <2>1, <2>2, <2>3 DEF KeysKnown
<1>4. ASSUME NEW id \in Created, id # c
      PROVE  OrderRests(id, order'[id], fillKeys')
  <2>1. OrderRests(id, order[id], fillKeys)
    BY <1>4 DEF RestInv, WorkKnown
  <2>2. \A key \in fillKeys' : key[1] = id => key \in fillKeys
    BY <1>4
  <2>3. OrderRests(id, order[id], fillKeys')
    BY <2>1, <2>2, RestsOn
  <2> QED BY <1>2, <1>4, <2>3
<1>5. order'[c] = o
  BY <1>2
<1>6. ASSUME NEW id \in Created', id \notin InHand(cur')
      PROVE  OrderRests(id, order'[id], fillKeys')
  <2>1. CASE id # c
    BY <1>1, <1>4, <2>1
  <2>2. CASE id = c
    <3>1. cur' # None => id \in InHand(cur')
      BY <2>2 DEF InHand
    <3> QED BY <1>5, <1>6, <2>2, <3>1
  <2> QED BY <2>1, <2>2
<1>7. cur' # None => ChildrenKnown(order'[cur'.id]) /\ Worked(cur', order'[cur'.id], fillKeys')
  BY <1>5
<1>8. WorkKnown'
  BY <1>6, <1>7 DEF WorkKnown
<1> QED BY <1>3, <1>8 DEF RestInv

LEMMA TakeRests ==
  ASSUME SizesAssumption, NoIdAssumption, SimInv, RestInv, TakeOrder \/ TakeSpawn
  PROVE  RestInv'
<1>1. PICK c \in Ids, depth \in Nat :
        /\ Process(c, depth) /\ cur = None /\ phase # "rest"
        /\ UNCHANGED <<seq, fillVars, phase>>
        /\ c \in Held(todo) \/ c \in Held(IdsOf(queue))
  <2>1. todo \in Seq(Ids) /\ queue \in Seq(Queued)
    BY DEF SimInv, SimTypeOK, Queued
  <2>2. CASE TakeOrder
    <3>1. /\ Process(Head(todo), 0) /\ cur = None /\ phase # "rest"
          /\ UNCHANGED <<seq, fillVars, phase>> /\ todo # <<>>
      BY <2>2 DEF TakeOrder, Passing
    <3>2. Head(todo) \in Ids /\ Head(todo) \in Held(todo)
      BY <2>1, <3>1, HeldHead
    <3> QED BY <3>1, <3>2
  <2>3. CASE TakeSpawn
    <3>1. /\ Process(Head(queue).id, Head(queue).depth) /\ cur = None /\ phase # "rest"
          /\ UNCHANGED <<seq, fillVars, phase>> /\ queue # <<>>
      BY <2>3 DEF TakeSpawn, Passing
    <3>2. PICK h : h = Head(queue).id
      OBVIOUS
    <3>3. /\ IdsOf(queue) \in Seq(Ids) /\ IdsOf(queue) # <<>> /\ Head(IdsOf(queue)) = h
      BY <2>1, <3>1, <3>2, IdsOfQueue
    <3>4. h \in Ids /\ h \in Held(IdsOf(queue))
      BY <3>3, HeldHead
    <3>5. Head(queue).depth \in Nat
      <4>1. Head(queue) \in Queued
        BY <2>1, <3>1
      <4> QED BY <4>1 DEF Queued
    <3> QED BY <3>1, <3>2, <3>4, <3>5
  <2> QED BY <2>2, <2>3
<1>2. c \in Created /\ order[c] \in Orders /\ order[c].status \notin Terminal
  <2>1. c \in Created /\ c \notin history
    BY <1>1 DEF SimInv, ListsKnown, OnePlace
  <2> QED BY <2>1 DEF SimInv, TablesKnown, HistoryIsOver
<1>3. InHand(cur) = {}
  BY <1>1 DEF InHand
<1>4. ChildrenKnown(order[c]) /\ Rests(c, order[c], fillKeys)
  BY <1>2, <1>3 DEF RestInv, WorkKnown, OrderRests
<1>5. PICK was : was = order[c]
  OBVIOUS
<1>6. PICK o : o = [was EXCEPT !.status = IF was.status = "NEW" THEN "ACCEPTED" ELSE was.status]
  OBVIOUS
<1>7. order' = [order EXCEPT ![c] = o] /\ cur' = [id |-> c, depth |-> depth, at |-> 1, filled |-> 0]
  BY <1>1, <1>5, <1>6 DEF Process, SimInv, SimTypeOK
<1>8. PICK hand : hand = cur'
  OBVIOUS
<1>9. hand.id = c /\ hand.at = 1 /\ hand.filled = 0 /\ hand # None
  <2>1. hand.id = c /\ hand.at = 1 /\ hand.filled = 0
    BY <1>7, <1>8
  <2>2. hand \in Hands
    BY <1>7, <1>8 DEF Hands
  <2>3. hand # None
    BY <2>2 DEF NoIdAssumption
  <2> QED BY <2>1, <2>2, <2>3
<1>10. ChildrenKnown(o) /\ Worked(hand, o, fillKeys)
  <2>1. /\ was \in Orders /\ was.status \notin Terminal
        /\ ChildrenKnown(was) /\ Rests(c, was, fillKeys)
    BY <1>2, <1>4, <1>5
  <2> QED BY ONLY <1>6, <1>9, <2>1, TakenIsWorked
<1>11. o \in Orders /\ o.retryGen = was.retryGen /\ was.retryGen \in Nat
  BY <1>2, <1>5, <1>6 DEF Orders, Pending
<1>12. order[c].retryGen <= o.retryGen
  BY <1>5, <1>11
<1>13. /\ UNCHANGED <<seq, fills, phase>> /\ fillKeys' = fillKeys \cup {} /\ newFills' = newFills
  BY <1>1 DEF fillVars
<1> QED BY <1>1, <1>2, <1>3, <1>7, <1>8, <1>9, <1>10, <1>11, <1>12, <1>13, OneRests

(* A child is passed; it is matched under a key of its own, or not at all. *)
LEMMA PassChildRests ==
  ASSUME SizesAssumption, NoIdAssumption, SimInv, SimInv', RestInv, ToChild,
         NEW d \in Children, NEW counted \in Nat, Passed(Child, d, counted),
         PassChild(d, counted), UNCHANGED <<seq, fills, phase>>,
         \/ UNCHANGED <<fillKeys, newFills>>
         \/ /\ fillKeys' = fillKeys \cup {Key} /\ counted > 0
            /\ \A f \in newFills' : f \in newFills \/ f.key = Key
  PROVE  RestInv'
<1>0. PICK more : /\ fillKeys' = fillKeys \cup more
                  /\ more = {} \/ (more = {Key} /\ counted > 0)
                  /\ \A f \in newFills' : f \in newFills \/ f.key \in more
  <2>1. CASE UNCHANGED <<fillKeys, newFills>>
    <3>1. PICK more : more = {}
      OBVIOUS
    <3>2. /\ fillKeys' = fillKeys \cup more
          /\ \A f \in newFills' : f \in newFills \/ f.key \in more
      BY <2>1, <3>1
    <3> QED BY <3>1, <3>2
  <2>2. CASE /\ fillKeys' = fillKeys \cup {Key} /\ counted > 0
             /\ \A f \in newFills' : f \in newFills \/ f.key = Key
    <3>1. PICK more : more = {Key}
      OBVIOUS
    <3>2. /\ fillKeys' = fillKeys \cup more
          /\ \A f \in newFills' : f \in newFills \/ f.key \in more
      BY <2>2, <3>1
    <3> QED BY <2>2, <3>1, <3>2
  <2> QED BY <2>1, <2>2
<1>1. cur # None /\ cur.at <= Len(Current.children)
  BY DEF ToChild
<1>2. PICK c : c = cur.id
  OBVIOUS
<1>3. /\ cur \in Hands /\ c \in Created /\ cur.at \in Nat \ {0} /\ cur.filled \in Nat
      /\ Current = order[c] /\ order[c] \in Orders /\ phase # "rest"
  BY <1>1, <1>2, InHandIs DEF Current
<1>4. PICK was : was = order[c]
  OBVIOUS
<1>5. PICK k : k = cur.at
  OBVIOUS
<1>6. /\ was \in Orders /\ was.children \in Seq(Children) /\ k \in DOMAIN was.children
      /\ Child = was.children[k]
  <2>1. was.children \in Seq(Children)
    BY <1>3, <1>4 DEF Orders
  <2>2. k <= Len(was.children) /\ k \in Nat \ {0}
    BY <1>1, <1>3, <1>4, <1>5
  <2> QED BY <1>3, <1>4, <1>5, <2>1, <2>2 DEF Child
<1>7. PICK next : next = [was.children EXCEPT ![k] = d]
  OBVIOUS
<1>8. PICK o : o = [was EXCEPT !.children = next]
  OBVIOUS
<1>9. next \in Seq(Children)
  BY <1>6, <1>7
<1>10. o \in Orders /\ o.retryGen = was.retryGen /\ was.retryGen \in Nat
  BY <1>6, <1>8, <1>9 DEF Orders
<1>11. order' = [order EXCEPT ![c] = o]
  BY <1>2, <1>3, <1>4, <1>5, <1>7, <1>8 DEF PassChild, SimInv, SimTypeOK
<1>12. PICK hand : hand = cur
  OBVIOUS
<1>13. PICK hand2 : hand2 = cur'
  OBVIOUS
<1>14. hand2.id = c /\ hand2.at = k + 1 /\ hand2.filled = hand.filled + counted /\ hand2 # None
  <2>0. PICK at \in Nat, filled \in Nat : at = cur.at + 1 /\ filled = cur.filled + counted
    BY <1>3
  <2>1. hand2 = [hand EXCEPT !.at = at, !.filled = filled]
    BY <1>12, <1>13, <2>0 DEF PassChild
  <2>2. hand \in Hands /\ hand.id = c /\ hand.at = k
    BY <1>2, <1>3, <1>5, <1>12
  <2>4. hand2.id = c /\ hand2.at = at /\ hand2.filled = filled /\ hand2 \in Hands
    BY <2>1, <2>2 DEF Hands
  <2> QED BY <1>5, <1>12, <2>0, <2>4 DEF NoIdAssumption
<1>15. ChildrenKnown(was) /\ Worked(hand, was, fillKeys)
  BY <1>1, <1>2, <1>4, <1>12 DEF RestInv, WorkKnown
<1>16. Key = KeyOf(c, was.children[k])
  BY <1>2, <1>6 DEF Key, KeyOf
<1>17. PICK keys : keys = fillKeys
  OBVIOUS
<1>18. PICK keys2 : keys2 = fillKeys'
  OBVIOUS
<1>19. \/ keys2 = keys
       \/ keys2 = keys \cup {KeyOf(c, was.children[k])} /\ counted > 0
  BY <1>0, <1>16, <1>17, <1>18
<1>20. ChildrenKnown(o) /\ Worked(hand2, o, keys2)
  <2>1. /\ was \in Orders /\ ChildrenKnown(was) /\ Worked(hand, was, keys)
        /\ hand.at \in Nat \ {0} /\ hand.filled \in Nat
        /\ hand.at \in DOMAIN was.children /\ Passed(was.children[hand.at], d, counted)
        /\ d \in Children /\ counted \in Nat
    BY <1>3, <1>5, <1>6, <1>12, <1>15, <1>17
  <2>2. /\ hand.id = c /\ hand.at = k
        /\ next = [was.children EXCEPT ![hand.at] = d]
        /\ hand2.id = hand.id /\ hand2.at = hand.at + 1
    BY <1>2, <1>5, <1>7, <1>12, <1>14
  <2>3. \/ keys2 = keys
        \/ keys2 = keys \cup {KeyOf(hand.id, was.children[hand.at])} /\ counted > 0
    BY <1>19, <2>2
  <2> QED BY ONLY <1>8, <1>14, <2>1, <2>2, <2>3, PassedIsWorked
<1>21. InHand(cur) \subseteq {c}
  BY <1>1, <1>2 DEF InHand
<1>22. \A key \in more : key[1] = c /\ key[3] <= o.retryGen
  <2>1. was.children[k].gen <= was.retryGen
    BY <1>6, <1>15 DEF ChildrenKnown
  <2> QED BY <1>0, <1>10, <1>16, <2>1 DEF KeyOf
<1>23. order[c].retryGen <= o.retryGen
  BY <1>4, <1>10
<1> QED BY <1>0, <1>3, <1>10, <1>11, <1>13, <1>14, <1>18, <1>20, <1>21, <1>22, <1>23, OneRests

LEMMA ChildStepRests ==
  ASSUME SizesAssumption, NoIdAssumption, SimInv, SimInv', RestInv,
         \/ ChildOver \/ ChildRests \/ ChildSlips
         \/ \E q \in 1..MaxSize : ChildFills(q)
  PROVE  RestInv'
<1>1. ToChild /\ cur # None
  BY DEF ChildOver, ChildRests, ChildSlips, ChildFills, ToChild
<1>2. PICK c : c = Child
  OBVIOUS
<1>3. c \in Children /\ Current.children \in Seq(Children) /\ cur.at \in DOMAIN Current.children
  <2>1. Current \in Orders /\ cur.at \in Nat \ {0}
    BY <1>1, InHandIs
  <2>2. Current.children \in Seq(Children)
    BY <2>1 DEF Orders
  <2> QED
    BY <1>1, <1>2, <2>1, <2>2 DEF ToChild, Child
<1>4. /\ c.sz \in Nat
      /\ [c EXCEPT !.st = "ACCEPTED"] \in Children
      /\ [c EXCEPT !.st = "REJECTED"] \in Children
      /\ [c EXCEPT !.st = "FILLED"] \in Children
  BY <1>3 DEF Children, Pending
<1>5. c.st \in Pending => c.sz > 0 /\ Key \notin fillKeys
  <2>1. ChildrenKnown(Current) /\ Worked(cur, Current, fillKeys)
    BY <1>1 DEF RestInv, WorkKnown, Current
  <2>2. ASSUME c.st \in Pending PROVE cur.at \in Waiting(Current.children)
    BY <1>2, <1>3, <2>2 DEF Waiting, Child
  <2>3. cur.at >= cur.at
    BY <1>1, InHandIs
  <2>4. ASSUME c.st \in Pending PROVE c.sz > 0
    BY <1>2, <2>1, <2>2, <2>4 DEF ChildrenKnown, Child
  <2>5. ASSUME c.st \in Pending PROVE Key \notin fillKeys
    <3>1. KeyOf(cur.id, Child) \notin fillKeys
      BY <2>1, <2>2, <2>3, <2>5 DEF Worked, Unmatched, Child
    <3> QED BY <3>1 DEF KeyOf, Key
  <2> QED BY <2>4, <2>5
<1>6. CASE ChildOver
  <2>1. PICK counted : counted = IF c.st = "FILLED" THEN c.sz ELSE 0
    OBVIOUS
  <2>2. counted \in Nat /\ Passed(c, c, counted)
    BY <1>2, <1>4, <1>6, <2>1 DEF ChildOver, Passed
  <2>3. /\ PassChild(c, counted) /\ UNCHANGED <<seq, fills, phase>>
        /\ UNCHANGED <<fillKeys, newFills>>
    BY <1>2, <1>6, <2>1 DEF ChildOver, fillVars, passVars
  <2> QED BY <1>1, <1>2, <1>3, <2>2, <2>3, PassChildRests
<1>7. CASE ChildRests
  <2>1. PICK d : d = [c EXCEPT !.st = "ACCEPTED"]
    OBVIOUS
  <2>2. d \in Children /\ d.st = "ACCEPTED" /\ d.sz = c.sz /\ d.n = c.n /\ d.gen = c.gen
    BY <1>3, <1>4, <2>1 DEF Children
  <2>3. c.st \in Pending
    BY <1>2, <1>7 DEF ChildRests
  <2>4. Passed(c, d, 0)
    BY <1>4, <1>5, <2>2, <2>3 DEF Passed
  <2>5. /\ PassChild(d, 0) /\ UNCHANGED <<seq, fills, phase>>
        /\ UNCHANGED <<fillKeys, newFills>>
    BY <1>2, <1>7, <2>1 DEF ChildRests, fillVars, passVars
  <2> QED BY <1>1, <1>2, <2>2, <2>4, <2>5, PassChildRests
<1>8. CASE ChildSlips
  <2>1. PICK d : d = [c EXCEPT !.st = "REJECTED"]
    OBVIOUS
  <2>2. d \in Children /\ d.st = "REJECTED" /\ d.n = c.n /\ d.gen = c.gen
    BY <1>3, <1>4, <2>1 DEF Children
  <2>3. c.st \in Pending
    BY <1>2, <1>8 DEF ChildSlips
  <2>4. Passed(c, d, 0)
    BY <2>2, <2>3 DEF Passed
  <2>5. /\ PassChild(d, 0) /\ UNCHANGED <<seq, fills, phase>>
        /\ UNCHANGED <<fillKeys, newFills>>
    BY <1>2, <1>8, <2>1 DEF ChildSlips, fillVars, passVars
  <2> QED BY <1>1, <1>2, <2>2, <2>4, <2>5, PassChildRests
<1>9. ASSUME NEW q \in 1..MaxSize, ChildFills(q) PROVE RestInv'
  <2>1. c.st \in Pending /\ q <= c.sz /\ q \in Nat \ {0} /\ Key \notin fillKeys
    <3>1. c.st \in Pending /\ q <= c.sz
      BY <1>2, <1>9 DEF ChildFills
    <3>2. q \in Nat \ {0}
      BY DEF SizesAssumption
    <3> QED BY <1>5, <3>1, <3>2
  <2>2. PICK d : d = IF q = c.sz THEN [c EXCEPT !.st = "FILLED"]
                                 ELSE [c EXCEPT !.st = "ACCEPTED", !.sz = @ - q]
    OBVIOUS
  <2>3. PICK f : f = [key |-> Key, order |-> cur.id, qty |-> q]
    OBVIOUS
  <2>4. /\ PassChild(d, q) /\ newFills' = newFills \cup {f} /\ f.key = Key
        /\ fillKeys' = fillKeys \cup {Key} /\ UNCHANGED <<seq, fills, phase>>
    BY <1>2, <1>9, <2>1, <2>2, <2>3 DEF ChildFills, passVars, fillVars
  <2>5. d \in Children /\ Passed(c, d, q)
    <3>1. CASE q = c.sz
      <4>1. d = [c EXCEPT !.st = "FILLED"]
        BY <2>2, <3>1
      <4>2. d \in Children /\ d.st = "FILLED" /\ d.sz = c.sz /\ d.n = c.n /\ d.gen = c.gen
        BY <1>3, <1>4, <4>1 DEF Children
      <4> QED BY <2>1, <3>1, <4>2 DEF Passed
    <3>2. CASE q # c.sz
      <4>1. PICK left : left = c.sz - q
        OBVIOUS
      <4>2. left \in Nat /\ left > 0 /\ left + q = c.sz
        BY <1>4, <2>1, <3>2, <4>1
      <4>3. d = [c EXCEPT !.st = "ACCEPTED", !.sz = left]
        BY <1>3, <2>2, <3>2, <4>1 DEF Children
      <4>4. d \in Children /\ d.st = "ACCEPTED" /\ d.sz = left /\ d.n = c.n /\ d.gen = c.gen
        BY <1>3, <4>2, <4>3 DEF Children, Pending
      <4> QED BY <2>1, <4>2, <4>4 DEF Passed
    <3> QED BY <3>1, <3>2
  <2> QED BY <1>1, <1>2, <2>1, <2>4, <2>5, PassChildRests
<1> QED BY <1>6, <1>7, <1>8, <1>9

-----------------------------------------------------------------------------
(* An order that is done for the pass, and one that it spawned *)

LEMMA DoneRests ==
  ASSUME SizesAssumption, SimInv, RestInv, cur # None, NEW o \in Orders,
         Current.retryGen <= o.retryGen, Done(o), OrderRests(cur.id, o, fillKeys)
  PROVE  RestInv'
<1>1. PICK c : c = cur.id
  OBVIOUS
<1>2. c \in Created /\ order[c].retryGen <= o.retryGen /\ phase # "rest"
  BY <1>1, InHandIs DEF Current
<1>3. InHand(cur) \subseteq {c}
  BY <1>1 DEF InHand
<1>4. /\ order' = [order EXCEPT ![c] = o] /\ cur' = None
      /\ UNCHANGED <<seq, fills, fillKeys, newFills, phase>>
  BY <1>1 DEF Done, Sorted, fillVars
<1>5. OrderRests(c, o, fillKeys')
  BY <1>1, <1>4
<1>6. PICK more : more = {}
  OBVIOUS
<1>7. /\ fillKeys' = fillKeys \cup more
      /\ \A key \in more : key[1] = c /\ key[3] <= o.retryGen
      /\ \A f \in newFills' : f \in newFills \/ f.key \in more
  BY <1>4, <1>6
<1> QED BY <1>2, <1>3, <1>4, <1>5, <1>7, OneRests

(* What is over no longer waits for anything. *)
LEMMA OverRests ==
  ASSUME NEW id, NEW o, o.status \in Terminal, NEW keys
  PROVE  OrderRests(id, o, keys)
  BY DEF OrderRests

(* The order that was spawned has not been matched. *)
LEMMA SpawnRests ==
  ASSUME SizesAssumption, NoIdAssumption, SimInv, RestInv, cur # None,
         NEW o \in Orders, o.status \in Terminal, o.retryGen = Current.retryGen,
         NEW kind, NEW dir, NEW size \in Nat \ {0}, NEW strat, NEW budget, NEW parent,
         NEW s, s = NewOrder(kind, dir, size, strat, budget, parent),
         Spawn(o, s)
  PROVE  RestInv'
<1>1. PICK c : c = cur.id
  OBVIOUS
<1>2. PICK n : n = seq + 1
  OBVIOUS
<1>3. /\ c \in Created /\ order[c] \in Orders /\ o.retryGen = order[c].retryGen
      /\ phase # "rest" /\ seq \in 0..MaxOrders /\ MaxOrders \in Nat
      /\ order \in [Ids -> Orders \cup {None}] /\ fillKeys \subseteq Keys
  BY <1>1, InHandIs DEF Current, SimInv, SimTypeOK, SizesAssumption
<1>4. /\ seq < MaxOrders /\ seq' = n /\ order' = [order EXCEPT ![c] = o, ![n] = s]
      /\ cur' = None /\ UNCHANGED <<fills, fillKeys, newFills, phase>>
  BY <1>1, <1>2 DEF Spawn, Sorted, fillVars
<1>5. n \in Ids /\ n \notin Created /\ n # c /\ Created' = Created \cup {n} /\ Created \subseteq Ids
  <2>0. seq \in Nat /\ MaxOrders \in Nat /\ n = seq + 1 /\ seq < MaxOrders
    BY <1>2, <1>3, <1>4
  <2>1. n \in 1..MaxOrders /\ n \notin 1..seq
    BY ONLY <2>0
  <2>2. 1..n = (1..seq) \cup {n} /\ 1..seq \subseteq 1..MaxOrders
    BY ONLY <2>0
  <2>3. Created' = 1..n
    BY <1>4 DEF Created
  <2>4. n \in Ids /\ n \notin Created /\ Created' = Created \cup {n} /\ Created \subseteq Ids
    BY <2>1, <2>2, <2>3 DEF Ids, Created
  <2> QED BY <1>3, <2>4
<1>6. /\ order'[n] = s /\ order'[c] = o
      /\ \A id \in Created : id # c => order'[id] = order[id]
  BY <1>3, <1>4, <1>5
<1>7. \A key \in fillKeys : key[1] # n
  BY <1>5 DEF RestInv, KeysKnown
<1>8. OrderRests(n, s, fillKeys)
  <2>1. ChildrenKnown(s) /\ Rests(n, s, fillKeys)
    BY <1>7, NewOrderRests
  <2> QED BY <2>1 DEF OrderRests
<1>9. OrderRests(c, o, fillKeys)
  BY OverRests
<1>10. KeysKnown'
  <2>1. \A key \in fillKeys : key[1] \in Created /\ key[3] <= order'[key[1]].retryGen
    <3>1. \A key \in fillKeys : key[1] \in Created /\ key[3] <= order[key[1]].retryGen
      BY DEF RestInv, KeysKnown
    <3>2. \A id \in Created : order'[id].retryGen = order[id].retryGen
      BY <1>3, <1>6
    <3> QED BY <3>1, <3>2
  <2> QED BY <1>4, <1>5, <2>1 DEF RestInv, KeysKnown
<1>11. ASSUME NEW id \in Created'
       PROVE  OrderRests(id, order'[id], fillKeys')
  <2>1. CASE id = n
    BY <1>4, <1>6, <1>8, <2>1
  <2>2. CASE id = c
    BY <1>4, <1>6, <1>9, <2>2
  <2>3. CASE id # n /\ id # c
    <3>1. id \in Created /\ id \notin InHand(cur)
      BY <1>1, <1>5, <2>3 DEF InHand
    <3>2. OrderRests(id, order[id], fillKeys)
      BY <3>1 DEF RestInv, WorkKnown
    <3> QED BY <1>4, <1>6, <2>3, <3>1, <3>2
  <2> QED BY <2>1, <2>2, <2>3
<1>12. WorkKnown'
  BY <1>4, <1>11 DEF WorkKnown
<1> QED BY <1>10, <1>12 DEF RestInv

(* What is known of the order in hand when its children have been gone through. *)
LEMMA ReachedIs ==
  ASSUME SizesAssumption, SimInv, RestInv, Reached
  PROVE  /\ cur # None /\ Current \in Orders /\ cur.filled \in Nat
         /\ ChildrenKnown(Current) /\ Worked(cur, Current, fillKeys)
         /\ cur.at = Len(Current.children) + 1
         /\ Advanced = WithFilled(Current, cur.filled, StatusAfter(Current, cur.filled))
         /\ Advanced.status = StatusAfter(Current, cur.filled)
         /\ Advanced.retryGen = Current.retryGen /\ Current.retryGen \in Nat
         /\ Advanced \in Orders
         /\ KeysBefore(fillKeys, cur.id, Current.retryGen)
<1>1. /\ cur # None /\ cur.filled \in Nat /\ Current \in Orders
      /\ cur.at = Len(Current.children) + 1 /\ Advanced \in Orders
  BY AdvancedIs, InHandIs DEF Reached
<1>2. ChildrenKnown(Current) /\ Worked(cur, Current, fillKeys)
  BY <1>1 DEF RestInv, WorkKnown, Current
<1>3. Advanced = WithFilled(Current, cur.filled, StatusAfter(Current, cur.filled))
  BY DEF Advanced, WithFilled
<1>4. PICK was : was = Current
  OBVIOUS
<1>5. PICK filled : filled = cur.filled
  OBVIOUS
<1>6. PICK st : st = StatusAfter(was, filled)
  OBVIOUS
<1>7. PICK o : o = WithFilled(was, filled, st)
  OBVIOUS
<1>8. o = Advanced
  BY <1>3, <1>4, <1>5, <1>6, <1>7
<1>9. was.status \in Statuses /\ was \in Orders /\ was.retryGen \in Nat
  BY <1>1, <1>4 DEF Orders, Statuses
<1>10. st \in Statuses
  BY <1>6, <1>9 DEF StatusAfter, Statuses, Pending, Terminal
<1>11. o.status = st /\ o.retryGen = was.retryGen
  BY <1>1, <1>5, <1>7, <1>9, <1>10, FilledSet
<1>12. KeysBefore(fillKeys, cur.id, Current.retryGen)
  BY DEF RestInv, KeysKnown, KeysBefore, Current
<1> QED BY <1>1, <1>2, <1>3, <1>4, <1>5, <1>6, <1>8, <1>9, <1>11, <1>12

LEMMA NotPartialRests ==
  ASSUME SizesAssumption, SimInv, RestInv, NotPartial
  PROVE  RestInv'
<1>1. Reached /\ Advanced.status # "PARTIALLY_FILLED" /\ Done(Advanced)
  BY DEF NotPartial
<1>2. PICK o : o = Advanced
  OBVIOUS
<1>3. PICK was : was = Current
  OBVIOUS
<1>4. PICK hand : hand = cur
  OBVIOUS
<1>5. /\ hand # None /\ was \in Orders /\ hand.filled \in Nat
      /\ ChildrenKnown(was) /\ Worked(hand, was, fillKeys) /\ hand.at = Len(was.children) + 1
      /\ o = WithFilled(was, hand.filled, StatusAfter(was, hand.filled))
      /\ o.retryGen = was.retryGen /\ was.retryGen \in Nat /\ o \in Orders
      /\ o.status # "PARTIALLY_FILLED" /\ Done(o)
  BY <1>1, <1>2, <1>3, <1>4, ReachedIs
<1>6. PICK keys : keys = fillKeys
  OBVIOUS
<1>7. OrderRests(hand.id, o, keys)
  <2>1. CASE o.status \in Terminal
    BY <2>1, OverRests
  <2>2. CASE o.status \notin Terminal
    <3>1. Worked(hand, was, keys)
      BY <1>5, <1>6
    <3>2. ChildrenKnown(o) /\ Rests(hand.id, o, keys)
      BY ONLY <1>5, <2>2, <3>1, UnfilledRests
    <3> QED BY <3>2 DEF OrderRests
  <2> QED BY <2>1, <2>2
<1>8. was.retryGen <= o.retryGen
  BY <1>5
<1> QED BY <1>3, <1>4, <1>5, <1>6, <1>7, <1>8, DoneRests

(* An order that is closed, with what was on the book cancelled. *)
LEMMA ClosedIs ==
  ASSUME SizesAssumption, SimInv, RestInv, Reached, NEW o,
         \/ o = WithStatus(Advanced, "CANCELLED", Cancelling(Advanced, Pending))
         \/ \E n \in Ids : o = WithSuccessor(Advanced, n, Cancelling(Advanced, Pending))
  PROVE  o \in Orders /\ o.status \in Terminal /\ o.retryGen = Current.retryGen
<1>1. PICK mid : mid = Advanced
  OBVIOUS
<1>2. PICK ch : ch = Cancelling(mid, Pending)
  OBVIOUS
<1>3. mid \in Orders /\ mid.retryGen = Current.retryGen
  BY <1>1, ReachedIs
<1>4. ch \in Seq(Children)
  BY <1>2, <1>3, CancellingIs
<1>5. CASE o = WithStatus(mid, "CANCELLED", ch)
  <2>1. o \in Orders
    BY <1>3, <1>4, <1>5 DEF WithStatus, Orders, Terminal
  <2>2. o.status = "CANCELLED" /\ o.retryGen = mid.retryGen
    BY <1>3, <1>5 DEF WithStatus, Orders
  <2> QED BY <1>3, <2>1, <2>2 DEF Terminal
<1>6. ASSUME NEW n \in Ids, o = WithSuccessor(mid, n, ch)
      PROVE  o \in Orders /\ o.status \in Terminal /\ o.retryGen = mid.retryGen
  <2>1. o \in Orders
    BY <1>3, <1>4, <1>6 DEF WithSuccessor, Orders, Terminal
  <2>2. o.status = "REPLACED" /\ o.retryGen = mid.retryGen
    BY <1>3, <1>6 DEF WithSuccessor, Orders
  <2> QED BY <2>1, <2>2 DEF Terminal
<1> QED BY <1>1, <1>2, <1>3, <1>5, <1>6

LEMMA ClosedRests ==
  ASSUME SizesAssumption, SimInv, RestInv, Reached, NEW o \in Orders,
         o.status \in Terminal, o.retryGen = Current.retryGen, Done(o)
  PROVE  RestInv'
<1>1. cur # None /\ Current.retryGen <= o.retryGen
  BY ReachedIs
<1>2. OrderRests(cur.id, o, fillKeys)
  BY OverRests
<1> QED BY <1>1, <1>2, DoneRests

LEMMA TooSmallRests ==
  ASSUME SizesAssumption, SimInv, RestInv, TooSmall
  PROVE  RestInv'
<1>1. PICK o : o = WithStatus(Advanced, "CANCELLED", Cancelling(Advanced, Pending))
  OBVIOUS
<1>2. Reached /\ Done(o)
  BY <1>1 DEF TooSmall, Partial, WithStatus
<1>3. o \in Orders /\ o.status \in Terminal /\ o.retryGen = Current.retryGen
  BY <1>1, <1>2, ClosedIs
<1> QED BY <1>2, <1>3, ClosedRests

LEMMA RetryRests ==
  ASSUME SizesAssumption, NoIdAssumption, SimInv, RestInv, Retry
  PROVE  RestInv'
<1>1. Reached /\ Advanced.status = "PARTIALLY_FILLED" /\ Done(Retried(Advanced))
  BY DEF Retry, Partial
<1>2. PICK mid : mid = Advanced
  OBVIOUS
<1>3. PICK was : was = Current
  OBVIOUS
<1>4. PICK hand : hand = cur
  OBVIOUS
<1>5. PICK keys : keys = fillKeys
  OBVIOUS
<1>6. PICK o : o = Retried(mid)
  OBVIOUS
<1>7. /\ hand # None /\ was \in Orders /\ hand.filled \in Nat
      /\ ChildrenKnown(was) /\ Worked(hand, was, keys) /\ hand.at = Len(was.children) + 1
      /\ mid = WithFilled(was, hand.filled, "PARTIALLY_FILLED")
      /\ was.retryGen \in Nat /\ mid \in Orders
      /\ KeysBefore(keys, hand.id, was.retryGen)
  BY <1>1, <1>2, <1>3, <1>4, <1>5, ReachedIs
<1>8. hand.filled < was.parentSz
  <2>1. StatusAfter(was, hand.filled) = "PARTIALLY_FILLED"
    BY <1>1, <1>3, <1>4, ReachedIs
  <2>2. was.parentSz \in Nat
    BY <1>7 DEF Orders
  <2> QED BY <1>7, <2>1, <2>2 DEF StatusAfter
<1>9. ChildrenKnown(o) /\ Rests(hand.id, o, keys) /\ o.retryGen = was.retryGen + 1
  BY ONLY SizesAssumption, <1>6, <1>7, <1>8, RetriedRests
<1>10. o \in Orders /\ Done(o)
  <2>1. Done(o)
    BY <1>1, <1>2, <1>6
  <2>2. PICK c : c = cur.id
    OBVIOUS
  <2>3. order' = [order EXCEPT ![c] = o] /\ seq' = seq
    BY <2>1, <2>2 DEF Done
  <2>4. c \in Created /\ c \in Ids /\ order \in [Ids -> Orders \cup {None}]
    BY <1>4, <1>7, <2>2, InHandIs DEF SimInv, SimTypeOK
  <2>5. order'[c] \in Orders
    <3>1. \A id \in Created' : order'[id] \in Orders
      BY RetryKeeps DEF SimInv, TablesKnown
    <3> QED BY <2>3, <2>4, <3>1 DEF Created
  <2> QED BY <2>1, <2>3, <2>4, <2>5
<1>11. was.retryGen <= o.retryGen
  BY <1>7, <1>9
<1>12. OrderRests(hand.id, o, keys)
  BY <1>9 DEF OrderRests
<1> QED BY <1>3, <1>4, <1>5, <1>7, <1>10, <1>11, <1>12, DoneRests

LEMMA ReplaceRests ==
  ASSUME SizesAssumption, NoIdAssumption, SimInv, RestInv, Replace
  PROVE  RestInv'
<1>1. PICK o : o = WithSuccessor(Advanced, seq + 1, Cancelling(Advanced, Pending))
  OBVIOUS
<1>2. PICK s : s = NewOrder("replacement", Current.dir, Remaining, Current.strat,
                            LessBudget(Current), cur.id)
  OBVIOUS
<1>3. Reached /\ Partial /\ Spawn(o, s) /\ seq < MaxOrders
  BY <1>1, <1>2 DEF Replace, Partial, WithSuccessor, Spawn
<1>4. seq + 1 \in Ids
  <2>1. seq \in Nat /\ seq < MaxOrders /\ MaxOrders \in Nat
    BY <1>3 DEF SimInv, SimTypeOK, SizesAssumption
  <2> QED BY <2>1 DEF Ids
<1>5. o \in Orders /\ o.status \in Terminal /\ o.retryGen = Current.retryGen
  BY <1>1, <1>3, <1>4, ClosedIs
<1>6. cur # None /\ Remaining \in Nat \ {0}
  BY <1>3, AdvancedIs DEF Partial
<1> QED BY <1>2, <1>3, <1>5, <1>6, SpawnRests

LEMMA UnwindRests ==
  ASSUME SizesAssumption, NoIdAssumption, SimInv, RestInv, Unwind
  PROVE  RestInv'
<1>1. PICK o : o = WithStatus(Advanced, "CANCELLED", Cancelling(Advanced, Pending))
  OBVIOUS
<1>2. PICK size : size = Advanced.totalFilled
  OBVIOUS
<1>3. PICK s : s = NewOrder("unwind", Opposite(Current.dir), size, "aggressive", 0, cur.id)
  OBVIOUS
<1>4. Reached /\ ((size = 0 /\ Done(o)) \/ (size # 0 /\ Spawn(o, s)))
  BY <1>1, <1>2, <1>3 DEF Unwind, Partial, WithStatus
<1>5. o \in Orders /\ o.status \in Terminal /\ o.retryGen = Current.retryGen
  BY <1>1, <1>4, ClosedIs
<1>6. cur # None /\ size \in Nat
  BY <1>2, <1>4, AdvancedIs
<1>7. CASE size = 0 /\ Done(o)
  BY <1>4, <1>5, <1>7, ClosedRests
<1>8. CASE size # 0 /\ Spawn(o, s)
  <2>1. size \in Nat \ {0} /\ Spawn(o, s)
    BY <1>6, <1>8
  <2> QED BY <1>3, <1>5, <1>6, <2>1, SpawnRests
<1> QED BY <1>4, <1>7, <1>8

-----------------------------------------------------------------------------
(* What active orders have on the book *)

LEMMA RestInit ==
  ASSUME SizesAssumption, NoIdAssumption, Init
  PROVE  RestInv
<1>1. Created = {} /\ fills = {} /\ fillKeys = {} /\ newFills = {} /\ cur = None
  BY DEF Init, Created
<1> QED BY <1>1 DEF RestInv, KeysKnown, WorkKnown

LEMMA RestNext ==
  ASSUME SizesAssumption, NoIdAssumption, SimInv, SimInv', RestInv, [Next]_vars
  PROVE  RestInv'
<1>1. CASE TickBegins
  <2>1. UNCHANGED <<order, seq, cur, fills, fillKeys>> /\ newFills' = {}
    BY <1>1 DEF TickBegins
  <2> QED BY <2>1, MovesRest
<1>2. CASE \E dir \in Dirs, size \in Sizes, strat \in Strats : CreateOrder(dir, size, strat)
  BY <1>2, CreateRests
<1>3. CASE \/ DeferredPassEnds \/ ExistingPassEnds \/ NewPassEnds
           \/ NoMoreOrders \/ DeferSpawn \/ UNCHANGED vars
  <2>1. /\ UNCHANGED <<order, seq, cur, fills, fillKeys, newFills>>
        /\ phase' # "rest" => phase # "rest"
    BY <1>3 DEF DeferredPassEnds, ExistingPassEnds, NewPassEnds, NoMoreOrders, DeferSpawn,
                vars, fillVars, passVars
  <2> QED BY <2>1, MovesRest
<1>4. CASE ApplyFills
  BY <1>4, ApplyRests
<1>5. CASE TakeOrder \/ TakeSpawn
  BY <1>5, TakeRests
<1>6. CASE \/ ChildOver \/ ChildRests \/ ChildSlips
           \/ \E q \in 1..MaxSize : ChildFills(q)
  BY <1>6, ChildStepRests
<1>7. CASE NotPartial
  BY <1>7, NotPartialRests
<1>8. CASE TooSmall
  BY <1>8, TooSmallRests
<1>9. CASE Retry
  BY <1>9, RetryRests
<1>10. CASE Replace
  BY <1>10, ReplaceRests
<1>11. CASE Unwind
  BY <1>11, UnwindRests
<1> QED
  BY <1>1, <1>2, <1>3, <1>4, <1>5, <1>6, <1>7, <1>8, <1>9, <1>10, <1>11 DEF Next, Pass

(***************************************************************************)
(* An order that is not over waits, with children that add up to no more   *)
(* than it lacks; in hand (advanceOrderFills, src/engine/execution.js),    *)
(* what is counted as filled and what is still ahead add up to no more     *)
(* than its size; and the key of a fill is never met twice.                *)
(***************************************************************************)
THEOREM RestInvariant == Spec => [](SimInv /\ RestInv)
<1>1. SizesAssumption /\ NoIdAssumption
  BY SizesAssumption, NoIdAssumption
<1>2. Init => SimInv /\ RestInv
  BY <1>1, SimInit, RestInit
<1>3. SimInv /\ RestInv /\ [Next]_vars => (SimInv /\ RestInv)'
  <2>1. SimInv /\ [Next]_vars => SimInv'
    BY <1>1, SimNext
  <2> QED BY <1>1, <2>1, RestNext
<1> QED
  BY <1>2, <1>3, PTL DEF Spec

LEMMA RestsFollows ==
  ASSUME SizesAssumption, SimInv, RestInv
  PROVE  RestsWhatItLacks
<1> SUFFICES ASSUME phase = "rest", NEW i \in DOMAIN orders
             PROVE  LET o == order[orders[i]] IN
                    OnTheBook(o) > 0 /\ o.totalFilled + OnTheBook(o) <= o.parentSz
  BY DEF RestsWhatItLacks, AtRest
<1>1. PICK id : id = orders[i]
  OBVIOUS
<1>2. PICK o : o = order[id]
  OBVIOUS
<1>3. id \in Ids /\ id \in Held(orders)
  BY <1>1 DEF SimInv, SimTypeOK, Held
<1>4. id \in Created /\ id \notin history
  BY <1>3 DEF SimInv, ListsKnown, OnePlace
<1>5. o \in Orders /\ o.status \notin Terminal
  BY <1>2, <1>4 DEF SimInv, TablesKnown, HistoryIsOver
<1>6. InHand(cur) = {}
  BY DEF SimInv, PhaseKnown, InHand
<1>7. ChildrenKnown(o) /\ Rests(id, o, fillKeys)
  BY <1>2, <1>4, <1>5, <1>6 DEF RestInv, WorkKnown, OrderRests
<1>8. PICK ch \in Seq(Children) : ch = o.children
  BY <1>5 DEF Orders
<1>9. PICK S : S = Waiting(ch)
  OBVIOUS
<1>10. S \subseteq DOMAIN ch /\ OnTheBook(o) = SizeSum(ch, S)
  BY <1>8, <1>9 DEF Waiting, OnTheBook, SizeSum
<1>11. o.totalFilled + SizeSum(ch, S) <= o.parentSz
  BY <1>7, <1>8, <1>9 DEF Rests
<1>12. PICK x \in S : ch[x].sz > 0
  BY <1>7, <1>8, <1>9 DEF Rests, ChildrenKnown
<1>13. SizeSum(ch, S) > 0
  <2>1. SizeSum(ch, S) = ch[x].sz + SizeSum(ch, S \ {x})
    BY <1>10, Sums
  <2>2. SizeSum(ch, S \ {x}) \in Nat
    <3>1. S \ {x} \subseteq DOMAIN ch
      BY <1>10
    <3> QED BY <3>1, Sums
  <2>3. ch[x].sz \in Nat
    <3>1. ch[x] \in Children
      BY <1>8, <1>10, <1>12
    <3> QED BY <3>1 DEF Children
  <2> QED BY <1>12, <2>1, <2>2, <2>3
<1> QED BY <1>1, <1>2, <1>10, <1>11, <1>13

(***************************************************************************)
(* Between the ticks of src/engine/tick.js an active order has something   *)
(* on the book, and no more than it lacks: its slices (buildChildren), what*)
(* is matched of them and what is tried again are kept in step.            *)
(***************************************************************************)
THEOREM ActiveOrdersRest == Spec => []RestsWhatItLacks
<1>1. SizesAssumption
  BY SizesAssumption
<1>2. SimInv /\ RestInv => RestsWhatItLacks
  BY <1>1, RestsFollows
<1> QED
  BY <1>2, RestInvariant, PTL

(* Nothing was matched, as far as the ledger knows. *)
LedgerEmpty == fills = {}

LEMMA NothingApplied ==
  ASSUME SimInv, RestInv, LedgerEmpty, [Next]_vars
  PROVE  LedgerEmpty'
<1>1. CASE ApplyFills
  <2>1. phase = "apply" /\ fills' = fills \cup Applied
    BY <1>1 DEF ApplyFills
  <2>2. Applied = {}
    BY <2>1 DEF Applied, RestInv, KeysKnown
  <2> QED BY <2>1, <2>2 DEF LedgerEmpty
<1>2. CASE UNCHANGED fills
  BY <1>2 DEF LedgerEmpty
<1>3. CASE \/ TickBegins
           \/ \E dir \in Dirs, size \in Sizes, strat \in Strats : CreateOrder(dir, size, strat)
  BY <1>2, <1>3 DEF TickBegins, CreateOrder, fillVars
<1>4. CASE DeferredPassEnds \/ ExistingPassEnds \/ NoMoreOrders \/ NewPassEnds \/ UNCHANGED vars
  BY <1>2, <1>4 DEF DeferredPassEnds, ExistingPassEnds, NoMoreOrders, NewPassEnds, fillVars, vars
<1>5. CASE TakeOrder \/ TakeSpawn \/ DeferSpawn
  BY <1>2, <1>5 DEF TakeOrder, TakeSpawn, DeferSpawn, fillVars
<1>6. CASE ChildOver \/ ChildRests \/ ChildSlips \/ \E q \in 1..MaxSize : ChildFills(q)
  BY <1>2, <1>6 DEF ChildOver, ChildRests, ChildSlips, ChildFills, fillVars
<1>7. CASE NotPartial \/ TooSmall \/ Retry \/ Replace \/ Unwind
  BY <1>2, <1>7 DEF NotPartial, TooSmall, Retry, Replace, Unwind, Done, Spawn, fillVars
<1> QED
  BY <1>1, <1>3, <1>4, <1>5, <1>6, <1>7 DEF Next, Pass

(***************************************************************************)
(* processOneOrder notes a fill's key at once (src/engine/tick.js 214), and *)
(* applyFills passes over a fill whose key is noted: no fill of a tick     *)
(* enters the ledger, whatever is matched.                                 *)
(***************************************************************************)
THEOREM LedgerStaysEmpty == Spec => []LedgerEmpty
<1>1. Init => LedgerEmpty
  BY DEF Init, LedgerEmpty
<1>2. SimInv /\ RestInv /\ LedgerEmpty /\ [Next]_vars => LedgerEmpty'
  BY NothingApplied
<1> QED
  BY <1>1, <1>2, RestInvariant, PTL DEF Spec

=============================================================================
