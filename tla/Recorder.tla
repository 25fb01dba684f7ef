------------------------------ MODULE Recorder ------------------------------
(***************************************************************************)
(* DataRecorder (src/data/recorder.js) with its TradeDeduper               *)
(* (src/data/tradeDedup.js): polling rounds that append records to hourly  *)
(* files, and a stop() that may be called at any await of start() or of a  *)
(* round.  The requests of a round for the books of its tokens run         *)
(* concurrently.  Books and trades are reduced to their identity.          *)
(***************************************************************************)
EXTENDS Integers, Sequences, FiniteSets

CONSTANTS
  Tokens,        \* tokens the market discovery may return
  Traded,        \* those that wallets trade
  TradesEach,    \* wallet trades of such a token that may happen
  CaptureTrades, \* BOOLEAN: config recordTrades
  WalletTrades,  \* BOOLEAN: config recordWalletTrades
  HourLength,    \* ticks of the clock in an hour
  Window,        \* how long the feed re-delivers a wallet trade
  RoundTime,     \* how long a round may take
  Ttl,           \* config tradeDedupTtlMs
  MaxTime, MaxRounds,   \* bounds: clock, rounds
  None

ASSUME TimesAssumption ==
  /\ {TradesEach, Window, RoundTime, Ttl, MaxTime, MaxRounds} \subseteq Nat
  /\ HourLength \in Nat \ {0}
  /\ {CaptureTrades, WalletTrades} \subseteq BOOLEAN
ASSUME TradedAssumption == Traded \subseteq Tokens
ASSUME RetentionAssumption == Ttl >= Window + RoundTime
ASSUME NoneAssumption == None \notin Nat /\ None \notin Tokens

Trades == Traded \X (1..TradesEach)
Asset(trade) == trade[1]
Hour(t) == t \div HourLength

VARIABLES
  running,  \* this.running
  timer,    \* this._timer: null, armed, or left over from a timer that has fired
  stream,   \* hour of the open file, or None
  tokens,   \* this.tokens
  seq,      \* this.seq
  noAuth,   \* this._tradesUnauthorized
  seen,     \* tradeDeduper.seen: insertion time of a trade, or None
  loop,     \* where the activity of start() and its rounds is suspended
  t0,       \* when the round began
  asked,    \* asked[token]: the request of the token that is in flight
  books,    \* books written in the round
  stop,     \* progress of the call of stop()
  log,      \* the records from the last round's marker on; .file is the file
  times,    \* times[trade]: wallet_trades records that hold the trade
  clock,
  born      \* when a wallet trade happened, or None

recorderVars == <<running, timer, stream, tokens, seq, noAuth, seen>>
roundVars    == <<loop, t0, asked, books>>
worldVars    == <<clock, born>>
diskVars     == <<log, times>>
vars         == <<recorderVars, roundVars, worldVars, stop, diskVars>>

Records ==
  [type   : {"session", "meta", "book", "trades", "wallet_trades", "tick"},
   file   : Nat,
   t      : Nat,
   tokens : SUBSET Tokens,
   trades : SUBSET Trades,
   seq    : Nat,
   books  : Nat]

InRound == {"opening", "refresh", "books", "wallet"}

RecTypeOK ==
  /\ running \in BOOLEAN
  /\ timer \in {"null", "armed", "fired"}
  /\ stream \in Nat \cup {None}
  /\ tokens \subseteq Tokens
  /\ seq \in Nat
  /\ noAuth \in BOOLEAN
  /\ seen \in [Trades -> Nat \cup {None}]
  /\ loop \in InRound \cup {"off", "starting", "rest", "closing", "over"}
  /\ t0 \in Nat
  /\ asked \in [Tokens -> {"nothing", "book", "trades"}]
  /\ books \in Nat
  /\ stop \in {"none", "waiting", "closing", "done"}
  /\ log \in Seq(Records)
  /\ times \in [Trades -> Nat]
  /\ clock \in Nat
  /\ born \in [Trades -> Nat \cup {None}]

-----------------------------------------------------------------------------
(* Writing *)

Record(type, tks, trades, number, count) ==
  [type |-> type, file |-> stream, t |-> clock, tokens |-> tks, trades |-> trades,
   seq |-> number, books |-> count]

Meta(tks)      == Record("meta", tks, {}, 0, 0)
Book(t)        == Record("book", {t}, {}, 0, 0)
TokenTrades(t) == Record("trades", {t}, {}, 0, 0)
Wallet(trades) == Record("wallet_trades", {}, trades, 0, 0)
TickMark(n, b) == Record("tick", {}, {}, n, b)

(***************************************************************************)
(* Of the files the state keeps the end: from the marker of the last round *)
(* that is over to the last record written, be it a marker too.            *)
(***************************************************************************)
Recent(records) ==
  LET marks == {i \in 1..(Len(records) - 1) : records[i].type = "tick"} IN
  IF marks = {} THEN records
  ELSE SubSeq(records, CHOOSE i \in marks : \A j \in marks : j <= i, Len(records))

Write(records) ==
  /\ log' = Recent(log \o records)
  /\ times' = [t \in Trades |->
                 times[t] + Cardinality({i \in DOMAIN records : t \in records[i].trades})]

(* _write throws when there is no stream; nothing of the step's is written. *)
WrittenAnyway(records) == Write(records)                            \* mutant
Written(records) == IF stream = None THEN UNCHANGED diskVars ELSE Write(records)

-----------------------------------------------------------------------------
(* start, and the beginning of a round *)

Start ==
  /\ loop = "off"
  /\ running' = TRUE
  /\ loop' = "starting"
  /\ t0' = clock
  /\ UNCHANGED <<timer, stream, tokens, seq, noAuth, seen, asked, books, worldVars, stop, diskVars>>

(* The requests for the books go out, for every token there is. *)
AskForMore(tks) ==                                                  \* mutant
  /\ loop' = "books"
  /\ asked' = [t \in Tokens |-> IF t \in tks THEN "book" ELSE "nothing"]
  /\ books' = books

AskFor(tks) ==
  /\ loop' = "books"
  /\ asked' = [t \in Tokens |-> IF t \in tks THEN "book" ELSE "nothing"]
  /\ books' = 0

(* The metadata is refreshed when it is old, or when there are no tokens. *)
Fetch ==
  \/ loop' = "refresh" /\ UNCHANGED <<asked, books>>
  \/ tokens # {} /\ AskFor(tokens)

(* _ensureStream: a file of another hour is closed before the next one opens. *)
AnyFile(file)  == TRUE                                              \* mutant
SameHour(file) == file = Hour(clock)

BeginRound(file) ==
  /\ t0' = clock
  /\ IF SameHour(file)
       THEN stream' = file /\ Fetch
       ELSE stream' = None /\ loop' = "opening" /\ UNCHANGED <<asked, books>>

(***************************************************************************)
(* start() has its file: the session record, and the first round, unless   *)
(* stop() came in between; then loop returns at once.                      *)
(***************************************************************************)
Started ==
  LET file == Hour(t0) IN
  /\ loop = "starting"
  /\ Write(<<[Record("session", {}, {}, 0, 0) EXCEPT !.file = file]>>)
  /\ IF running THEN BeginRound(file)
                ELSE /\ stream' = file
                     /\ loop' = "over"
                     /\ UNCHANGED <<t0, asked, books>>
  /\ UNCHANGED <<running, timer, tokens, seq, noAuth, seen, worldVars, stop>>

(* The timer fires; this._timer keeps the handle. *)
TimerFires ==
  /\ loop = "rest"
  /\ seq < MaxRounds
  /\ timer' = "fired"
  /\ BeginRound(stream)
  /\ UNCHANGED <<running, tokens, seq, noAuth, seen, worldVars, stop, diskVars>>

Opened ==
  /\ loop = "opening"
  /\ stream' = Hour(t0)
  /\ Fetch
  /\ UNCHANGED <<running, timer, tokens, seq, noAuth, seen, t0, worldVars, stop, diskVars>>

-----------------------------------------------------------------------------
(* A round *)

(***************************************************************************)
(* The end of a round whose records so far are lines: the tick marker, and *)
(* the next timer, or _finishStop when stop() came in between.             *)
(***************************************************************************)
LeaveOpen ==                                                        \* mutant
  /\ loop' = "over"
  /\ UNCHANGED <<stream, timer>>

FinishStop ==
  /\ loop' = IF stream = None THEN "over" ELSE "closing"
  /\ stream' = None
  /\ UNCHANGED timer

EndRound(lines, count) ==
  /\ seq' = seq + 1
  /\ Written(Append(lines, TickMark(seq + 1, count)))
  /\ IF running THEN timer' = "armed" /\ loop' = "rest" /\ UNCHANGED stream
                ELSE FinishStop

(* The wallet trades are asked for when all the requests for books are over. *)
GoOn(left, lines, count) ==
  /\ asked' = left
  /\ books' = count
  /\ IF \E t \in Tokens : left[t] # "nothing" THEN
       Written(lines) /\ UNCHANGED <<loop, stream, seq, timer>>
     ELSE IF WalletTrades THEN
       loop' = "wallet" /\ Written(lines) /\ UNCHANGED <<stream, seq, timer>>
     ELSE EndRound(lines, count)

(* With no token to ask for, the round goes on at once. *)
AskOrGoOn(tks, lines) ==
  IF tks # {} THEN AskFor(tks) /\ Written(lines) /\ UNCHANGED <<stream, seq, timer>>
              ELSE GoOn([t \in Tokens |-> "nothing"], lines, 0)

(* refreshTokens: the tokens are replaced before the record is written. *)
Refreshed(tks) ==
  /\ loop = "refresh"
  /\ tokens' = tks
  /\ AskOrGoOn(tks, <<Meta(tks)>>)
  /\ UNCHANGED <<running, noAuth, seen, t0, worldVars, stop>>

RefreshFails ==
  /\ loop = "refresh"
  /\ AskOrGoOn(tokens, <<>>)
  /\ UNCHANGED <<running, tokens, noAuth, seen, t0, worldVars, stop>>

Over(t) == [asked EXCEPT ![t] = "nothing"]

(* The book is counted after it is written; a failed write ends the task. *)
BookArrives(t) ==
  /\ asked[t] = "book"
  /\ GoOn(IF stream # None /\ CaptureTrades /\ ~noAuth
            THEN [asked EXCEPT ![t] = "trades"] ELSE Over(t),
          <<Book(t)>>,
          IF stream = None THEN books ELSE books + 1)
  /\ UNCHANGED <<running, tokens, noAuth, seen, t0, worldVars, stop>>

(* The request fails; a 404 retires the token. *)
BookFails(t, gone) ==
  /\ asked[t] = "book"
  /\ tokens' = IF gone THEN tokens \ {t} ELSE tokens
  /\ GoOn(Over(t), <<>>, books)
  /\ UNCHANGED <<running, noAuth, seen, t0, worldVars, stop>>

TradesArrive(t, some) ==
  /\ asked[t] = "trades"
  /\ GoOn(Over(t), IF some THEN <<TokenTrades(t)>> ELSE <<>>, books)
  /\ UNCHANGED <<running, tokens, noAuth, seen, t0, worldVars, stop>>

TradesFail(t, unauthorized) ==
  /\ asked[t] = "trades"
  /\ noAuth' = (noAuth \/ unauthorized)
  /\ GoOn(Over(t), <<>>, books)
  /\ UNCHANGED <<running, tokens, seen, t0, worldVars, stop>>

-----------------------------------------------------------------------------
(* The wallet trades *)

(* What the feed may deliver now; the number of trades it delivers is limited. *)
Feed == {t \in Trades : born[t] # None /\ born[t] + Window >= clock}

(* filterNew, at the time the round began: entries beyond the ttl are dropped. *)
PrunedEarly ==                                                      \* mutant
  [t \in Trades |-> IF seen[t] # None /\ seen[t] <= t0 - Ttl THEN None ELSE seen[t]]
Pruned ==
  [t \in Trades |-> IF seen[t] # None /\ seen[t] < t0 - Ttl THEN None ELSE seen[t]]

Mark(raw, tracked, fresh) ==
  IF tracked = {} THEN seen
  ELSE [t \in Trades |-> IF t \in fresh THEN t0 ELSE Pruned[t]]

WalletArrives(raw) ==
  LET tracked == {t \in raw : Asset(t) \in tokens}
      fresh   == {t \in tracked : Pruned[t] = None}
  IN
  /\ loop = "wallet"
  /\ raw \subseteq Feed
  /\ seen' = Mark(raw, tracked, fresh)
  /\ EndRound(IF fresh = {} THEN <<>> ELSE <<Wallet(fresh)>>, books)
  /\ UNCHANGED <<running, tokens, noAuth, t0, asked, books, worldVars, stop>>

WalletFailsUncaught ==                                              \* mutant
  /\ loop = "wallet"
  /\ loop' = "off"
  /\ UNCHANGED <<recorderVars, t0, asked, books, worldVars, stop, diskVars>>

WalletFails ==
  /\ loop = "wallet"
  /\ EndRound(<<>>, books)
  /\ UNCHANGED <<running, tokens, noAuth, seen, t0, asked, books, worldVars, stop>>

-----------------------------------------------------------------------------
(* stop *)

(***************************************************************************)
(* With a timer, armed or left over, stop() closes the file itself; with   *)
(* none it waits for somebody to call _finishStop.                         *)
(***************************************************************************)
Stop ==
  /\ running
  /\ stop = "none"
  /\ running' = FALSE
  /\ IF timer = "null"
       THEN stop' = "waiting" /\ UNCHANGED <<timer, stream, loop>>
       ELSE /\ stop' = "closing"
            /\ timer' = "null"
            /\ stream' = None
            /\ loop' = IF timer = "armed" THEN "over" ELSE loop
  /\ UNCHANGED <<tokens, seq, noAuth, seen, t0, asked, books, worldVars, diskVars>>

Stopped ==
  /\ stop = "closing"
  /\ stop' = "done"
  /\ UNCHANGED <<recorderVars, roundVars, worldVars, diskVars>>

(* The round's own _finishStop is over: everybody who waits is told. *)
Closed ==
  /\ loop = "closing"
  /\ loop' = "over"
  /\ stop' = IF stop = "waiting" THEN "done" ELSE stop
  /\ UNCHANGED <<recorderVars, t0, asked, books, worldVars, diskVars>>

-----------------------------------------------------------------------------
(* The world *)

Busy == loop \in InRound \cup {"starting"}

TimePasses ==
  /\ clock < MaxTime
  /\ Busy => clock < t0 + RoundTime
  /\ clock' = clock + 1
  /\ UNCHANGED <<recorderVars, roundVars, stop, diskVars, born>>

TradeHappens(t) ==
  /\ born[t] = None
  /\ born' = [born EXCEPT ![t] = clock]
  /\ UNCHANGED <<recorderVars, roundVars, stop, diskVars, clock>>

-----------------------------------------------------------------------------
(* Specification *)

Init ==
  /\ running = FALSE /\ timer = "null" /\ stream = None
  /\ tokens = {} /\ seq = 0 /\ noAuth = FALSE
  /\ seen = [t \in Trades |-> None]
  /\ loop = "off" /\ t0 = 0 /\ books = 0
  /\ asked = [t \in Tokens |-> "nothing"]
  /\ stop = "none" /\ log = <<>> /\ times = [t \in Trades |-> 0]
  /\ clock = 0 /\ born = [t \in Trades |-> None]

TaskStep(t) ==
  \/ BookArrives(t)
  \/ \E gone \in BOOLEAN : BookFails(t, gone)
  \/ \E some \in BOOLEAN : TradesArrive(t, some)
  \/ \E unauthorized \in BOOLEAN : TradesFail(t, unauthorized)

LoopStep ==
  \/ Started \/ TimerFires \/ Opened
  \/ \E tks \in SUBSET Tokens : Refreshed(tks)
  \/ RefreshFails
  \/ \E raw \in SUBSET Trades : WalletArrives(raw)
  \/ WalletFails
  \/ Closed

Next ==
  \/ Start
  \/ LoopStep
  \/ \E t \in Tokens : TaskStep(t)
  \/ Stop \/ Stopped
  \/ TimePasses
  \/ \E t \in Trades : TradeHappens(t)

Spec == Init /\ [][Next]_vars

(* Requests end (the client has timeouts), and ready continuations run. *)
FairSpec ==
  /\ Spec
  /\ WF_vars(LoopStep) /\ WF_vars(Stopped)
  /\ \A t \in Tokens : WF_vars(TaskStep(t))

-----------------------------------------------------------------------------
(* Properties *)

Lines(type)     == {i \in DOMAIN log : log[i].type = type}
Between(a, b)   == {i \in DOMAIN log : a < i /\ i < b}
Previous(i)     == {j \in Lines("tick") : j < i}
Closing         == Lines("tick") \ {1}    \* a marker kept first closed a round now gone
LastBefore(i)   == IF Previous(i) = {} THEN 0
                   ELSE CHOOSE j \in Previous(i) : \A k \in Previous(i) : k <= j

(***************************************************************************)
(* What the backtester relies on: reading the records in order, every tick *)
(* marker closes a round that wrote as many books as it says, no two of    *)
(* one token, and the markers are numbered without a gap.                  *)
(***************************************************************************)
TicksMarkRounds ==
  \A i \in Closing :
    LET round == Lines("book") \cap Between(LastBefore(i), i) IN
    /\ log[i].books = Cardinality(round)
    /\ \A j, k \in round : log[j].tokens = log[k].tokens => j = k
    /\ log[i].seq = IF Previous(i) = {} THEN 1 ELSE log[LastBefore(i)].seq + 1

(***************************************************************************)
(* Files rotate hourly: a round writes to the file of the hour it began in, *)
(* so a record is in the file of its hour or of the hour a round's time    *)
(* earlier.  replay.js reads the files in the order of their names: that   *)
(* is the order in which the records were written, and a round is in one.  *)
(***************************************************************************)
FilesByHour ==
  /\ loop \in InRound /\ stream # None => stream = Hour(t0)
  /\ \A i \in DOMAIN log :
        Hour(log[i].t - RoundTime) <= log[i].file /\ log[i].file <= Hour(log[i].t)
  /\ \A i, j \in DOMAIN log : i <= j => log[i].file <= log[j].file
  /\ \A i \in Closing : \A j \in Lines("book") \cap Between(LastBefore(i), i) :
        log[j].file = log[i].file

(***************************************************************************)
(* A wallet trade is recorded once, however often the feed re-delivers it  *)
(* and however slow the rounds are; and the deduper never swallows one:    *)
(* what it remembers was recorded, unless stop() closed the file in the    *)
(* middle of the round.                                                    *)
(***************************************************************************)
EachTradeOnce ==
  \A t \in Trades : times[t] <= 1 /\ (running /\ seen[t] # None => times[t] = 1)

(* Whatever requests fail, a round ends. *)
RoundsEnd == loop \in InRound ~> loop \in {"rest", "over"}

(***************************************************************************)
(* Once recording, a stop() ends the loop, with no file left open and the  *)
(* caller told.                                                            *)
(***************************************************************************)
StopEndsLoop ==
  ~running /\ loop \in InRound \cup {"rest"}
    ~> loop = "over" /\ stream = None /\ stop = "done"

=============================================================================
