--------------------------- MODULE RecorderProofs ---------------------------
(***************************************************************************)
(* Theorems about the data recorder: for any tokens, any trades of theirs, *)
(* any time that a round may take, and a stop() at any await.              *)
(***************************************************************************)
EXTENDS Recorder, SequenceTheorems, FiniteSetTheorems, TLAPS

-----------------------------------------------------------------------------
(* The inductive invariant *)

(* The records that the round in progress has written, after the marker of *)
(* the round before it, if there was one.                                  *)
Open(s) == IF s # <<>> /\ s[Len(s)].type = "tick" THEN <<s[Len(s)]>> ELSE s

MarksAtEnds(s) == \A i \in DOMAIN s : s[i].type = "tick" => i = 1 \/ i = Len(s)

(* Nobody asks for anything but in a round's phase for books, nor is the   *)
(* timer armed but between rounds; a round of a recorder that runs has its *)
(* file open.                                                              *)
LoopKnown ==
  /\ loop \in {"off", "starting"} => log = <<>> /\ seq = 0
  /\ loop = "off" => \A t \in Trades : seen[t] = None
  /\ timer = "armed" <=> loop = "rest"
  /\ loop # "books" => \A t \in Tokens : asked[t] = "nothing"
  /\ running /\ loop \in {"refresh", "books", "wallet"} => stream # None

(* A round is over before its time is. *)
TimesKnown ==
  /\ t0 <= clock
  /\ Busy => clock <= t0 + RoundTime
  /\ \A t \in Trades : born[t] # None => born[t] <= clock

(* The round has written count books into one file, each of a token that   *)
(* has been answered.                                                      *)
BooksIn(s) == {i \in DOMAIN s : s[i].type = "book"}
Counts(s, left, count, file) ==
  /\ count = Cardinality(BooksIn(s))
  /\ \A i \in BooksIn(s) :
       /\ s[i].file = file
       /\ \E t \in Tokens : s[i].tokens = {t} /\ left[t] # "book"
  /\ \A i, j \in BooksIn(s) : s[i].tokens = s[j].tokens => i = j

Asking == loop \in {"refresh", "books", "wallet"}

(* The number that the last marker bears, if the recorder may write again. *)
Number(s) == IF s # <<>> /\ s[1].type = "tick" THEN s[1].seq ELSE 0

RoundKnown ==
  /\ loop \in {"rest", "opening", "refresh"} => BooksIn(Open(log)) = {}
  /\ loop \in {"books", "wallet"} /\ stream # None => Counts(Open(log), asked, books, stream)
  /\ loop \in {"off", "starting", "rest", "opening"} \/ (Asking /\ stream # None)
       => seq = Number(Open(log))

(* Each record is in the file of its hour, or of its round's. *)
InHour(r) ==
  /\ Hour(r.t - RoundTime) <= r.file /\ r.file <= Hour(r.t)
  /\ r.file <= Hour(t0)

InFiles(s) ==
  /\ \A i \in DOMAIN s : InHour(s[i])
  /\ \A i, j \in DOMAIN s : i <= j => s[i].file <= s[j].file

BooksInFile ==
  \A i \in Closing : \A j \in Lines("book") \cap Between(LastBefore(i), i) :
    log[j].file = log[i].file

FilesKnown ==
  /\ loop \in InRound /\ stream # None => stream = Hour(t0)
  /\ InFiles(log)
  /\ BooksInFile

(* What the deduper remembers was born before the round that inserted it   *)
(* was over, and what it has forgotten the feed has forgotten too.         *)
TradesKnown ==
  \A t \in Trades :
    /\ times[t] <= 1
    /\ seen[t] # None => born[t] # None /\ born[t] <= seen[t] + RoundTime
    /\ times[t] = 1 /\ seen[t] = None => born[t] # None /\ born[t] + Window < clock
    /\ running /\ seen[t] # None => times[t] = 1

LogKnown == MarksAtEnds(log) /\ RoundKnown /\ FilesKnown /\ TicksMarkRounds

RecorderInv == RecTypeOK /\ LoopKnown /\ TimesKnown /\ LogKnown /\ TradesKnown

-----------------------------------------------------------------------------
(* Writing *)

LEMMA HourGrows ==
  ASSUME TimesAssumption, NEW a \in Int, NEW b \in Int, a <= b
  PROVE  Hour(a) \in Int /\ Hour(a) <= Hour(b) /\ (a >= 0 => Hour(a) \in Nat)
<1>1. HourLength \in Nat \ {0}
  BY DEF TimesAssumption
<1> QED
  BY <1>1 DEF Hour

LEMMA RecordIs ==
  ASSUME RecTypeOK, stream # None,
         NEW type \in {"session", "meta", "book", "trades", "wallet_trades", "tick"},
         NEW tks \in SUBSET Tokens, NEW trades \in SUBSET Trades,
         NEW number \in Nat, NEW count \in Nat
  PROVE  /\ Record(type, tks, trades, number, count) \in Records
         /\ Record(type, tks, trades, number, count).type = type
         /\ Record(type, tks, trades, number, count).file = stream
         /\ Record(type, tks, trades, number, count).t = clock
         /\ Record(type, tks, trades, number, count).tokens = tks
         /\ Record(type, tks, trades, number, count).trades = trades
         /\ Record(type, tks, trades, number, count).seq = number
         /\ Record(type, tks, trades, number, count).books = count
<1>1. stream \in Nat /\ clock \in Nat
  BY DEF RecTypeOK
<1> QED
  BY <1>1 DEF Record, Records

(* What is kept when more is written: the round in progress. *)
LEMMA OpenIs ==
  ASSUME NEW s \in Seq(Records), MarksAtEnds(s)
  PROVE  /\ Open(s) \in Seq(Records)
         /\ \A i \in DOMAIN Open(s) : Open(s)[i].type = "tick" => i = 1
         /\ s # <<>> => Open(s) # <<>>
<1>1. CASE s # <<>> /\ s[Len(s)].type = "tick"
  <2>1. Open(s) = <<s[Len(s)]>>
    BY <1>1 DEF Open
  <2>2. s[Len(s)] \in Records
    BY <1>1
  <2> QED
    BY <2>1, <2>2
<1>2. CASE ~(s # <<>> /\ s[Len(s)].type = "tick")
  <2>1. Open(s) = s
    BY <1>2 DEF Open
  <2>2. \A i \in DOMAIN s : s[i].type = "tick" => i = 1
    BY <1>2 DEF MarksAtEnds
  <2> QED
    BY <2>1, <2>2
<1> QED
  BY <1>1, <1>2

LEMMA RecentIs ==
  ASSUME NEW s \in Seq(Records), MarksAtEnds(s),
         NEW r \in Seq(Records), r # <<>>,
         \A i \in DOMAIN r : r[i].type = "tick" => i = Len(r)
  PROVE  Recent(s \o r) = Open(s) \o r
<1> DEFINE all   == s \o r
           marks == {i \in 1..(Len(all) - 1) : all[i].type = "tick"}
<1>1. /\ all \in Seq(Records) /\ Len(all) = Len(s) + Len(r)
      /\ Len(s) \in Nat /\ Len(r) \in Nat /\ Len(r) > 0
      /\ \A i \in 1..Len(all) : all[i] = IF i <= Len(s) THEN s[i] ELSE r[i - Len(s)]
  BY ConcatProperties
<1> HIDE DEF all
<1>2. Recent(all) = IF marks = {} THEN all
                    ELSE SubSeq(all, CHOOSE i \in marks : \A j \in marks : j <= i, Len(all))
  BY DEF Recent
<1>3. \A i \in marks : i \in 1..Len(s) /\ s[i].type = "tick"
  <2> SUFFICES ASSUME NEW i \in marks PROVE i \in 1..Len(s) /\ s[i].type = "tick"
    OBVIOUS
  <2>1. i \in 1..(Len(all) - 1) /\ all[i].type = "tick"
    OBVIOUS
  <2>2. CASE i <= Len(s)
    BY <1>1, <2>1, <2>2
  <2>3. CASE ~(i <= Len(s))
    <3>1. i - Len(s) \in 1..Len(r) /\ i - Len(s) # Len(r)
      BY <1>1, <2>1, <2>3
    <3>2. all[i] = r[i - Len(s)]
      BY <1>1, <2>1, <2>3
    <3>3. DOMAIN r = 1..Len(r)
      OBVIOUS
    <3>4. r[i - Len(s)].type = "tick"
      BY <2>1, <3>2
    <3> QED
      BY <3>1, <3>3, <3>4
  <2> QED
    BY <2>2, <2>3
<1>4. \A i \in 1..Len(s) : s[i].type = "tick" => i \in marks
  BY <1>1
<1> HIDE DEF marks
<1>5. CASE s # <<>> /\ s[Len(s)].type = "tick"
  <2>1. Len(s) \in marks /\ \A j \in marks : j <= Len(s)
    BY <1>1, <1>3, <1>4, <1>5
  <2> DEFINE m == CHOOSE i \in marks : \A j \in marks : j <= i
  <2>2. m \in marks /\ \A j \in marks : j <= m
    BY <2>1
  <2>3. m = Len(s)
    BY <1>1, <1>3, <2>1, <2>2
  <2> HIDE DEF m
  <2>4. Recent(all) = SubSeq(all, Len(s), Len(all))
    BY <1>2, <2>1, <2>3 DEF m
  <2>5. Len(s) \in 1..Len(all) /\ \A i \in Len(s)..Len(all) : all[i] \in Records
    BY <1>1, <1>5
  <2>6. /\ SubSeq(all, Len(s), Len(all)) \in Seq(Records)
        /\ Len(SubSeq(all, Len(s), Len(all))) = Len(r) + 1
        /\ \A i \in 1..(Len(r) + 1) : SubSeq(all, Len(s), Len(all))[i] = all[Len(s) + i - 1]
    BY <1>1, <2>5, SubSeqProperties
  <2>7. Open(s) = <<s[Len(s)]>> /\ s[Len(s)] \in Records
    BY <1>5 DEF Open
  <2>8. /\ Open(s) \o r \in Seq(Records) /\ Len(Open(s) \o r) = Len(r) + 1
        /\ \A i \in 1..(Len(r) + 1) : (Open(s) \o r)[i] = IF i <= 1 THEN s[Len(s)] ELSE r[i - 1]
    <3>1. PICK o : o = Open(s)
      OBVIOUS
    <3>2. o \in Seq(Records) /\ Len(o) = 1 /\ o[1] = s[Len(s)]
      BY <2>7, <3>1
    <3>3. /\ o \o r \in Seq(Records) /\ Len(o \o r) = 1 + Len(r)
          /\ \A i \in 1..(1 + Len(r)) : (o \o r)[i] = IF i <= 1 THEN o[i] ELSE r[i - 1]
      <4>1. /\ o \o r \in Seq(Records) /\ Len(o \o r) = Len(o) + Len(r)
            /\ \A i \in 1..Len(o) + Len(r) : (o \o r)[i] = IF i <= Len(o) THEN o[i] ELSE r[i - Len(o)]
        BY ONLY <3>2, r \in Seq(Records), ConcatProperties
      <4> QED
        BY <3>2, <4>1
    <3>4. Len(r) + 1 = 1 + Len(r)
      BY <1>1
    <3>5. \A i \in 1..(Len(r) + 1) : i <= 1 => i = 1
      BY <1>1
    <3> QED
      BY <3>1, <3>2, <3>3, <3>4, <3>5
  <2>9. \A i \in 1..(Len(r) + 1) : SubSeq(all, Len(s), Len(all))[i] = (Open(s) \o r)[i]
    <3>1. \A i \in 1..(Len(r) + 1) :
            all[Len(s) + i - 1] = IF i <= 1 THEN s[Len(s)] ELSE r[i - 1]
      <4> TAKE i \in 1..(Len(r) + 1)
      <4>1. Len(s) \in Nat /\ Len(s) >= 1 /\ Len(r) \in Nat /\ i \in Nat
        BY <1>1, <1>5
      <4>2. CASE i = 1
        BY <1>1, <4>1, <4>2
      <4>3. CASE i # 1
        <5>1. /\ Len(s) + i - 1 \in 1..(Len(s) + Len(r)) /\ ~(Len(s) + i - 1 <= Len(s))
              /\ (Len(s) + i - 1) - Len(s) = i - 1 /\ ~(i <= 1)
          BY <4>1, <4>3
        <5> QED
          BY <1>1, <5>1
      <4> QED
        BY <4>2, <4>3
    <3> QED
      BY ONLY <2>6, <2>8, <3>1
  <2> QED
    BY <2>4, <2>6, <2>8, <2>9, SeqEqual DEF all
<1>6. CASE ~(s # <<>> /\ s[Len(s)].type = "tick")
  <2>1. Open(s) = s
    BY <1>6 DEF Open
  <2>2. \A i \in marks : i = 1
    BY <1>3, <1>6 DEF MarksAtEnds
  <2>3. CASE marks = {}
    BY <1>2, <2>1, <2>3 DEF all
  <2>4. CASE marks # {}
    <3>1. marks = {1}
      BY <2>2, <2>4
    <3>2. (CHOOSE i \in marks : \A j \in marks : j <= i) = 1
      BY <3>1
    <3>3. Recent(all) = SubSeq(all, 1, Len(all))
      BY <1>2, <2>4, <3>2
    <3> QED
      BY <1>1, <2>1, <3>3, SubSeqFull DEF all
  <2> QED
    BY <2>3, <2>4
<1> QED
  BY <1>5, <1>6 DEF all

(* Nothing to write changes nothing. *)
LEMMA RecentKeeps ==
  ASSUME NEW s \in Seq(Records), MarksAtEnds(s)
  PROVE  Recent(s) = s
<1> DEFINE marks == {i \in 1..(Len(s) - 1) : s[i].type = "tick"}
<1>1. \A i \in marks : i = 1
  BY DEF MarksAtEnds
<1> HIDE DEF marks
<1>2. CASE marks = {}
  BY <1>2 DEF Recent, marks
<1>3. CASE marks # {}
  <2>1. marks = {1}
    BY <1>1, <1>3
  <2>2. (CHOOSE i \in marks : \A j \in marks : j <= i) = 1
    BY <2>1
  <2>3. Recent(s) = SubSeq(s, 1, Len(s))
    BY <1>3, <2>2 DEF Recent, marks
  <2> QED
    BY <2>3, SubSeqFull
<1> QED
  BY <1>2, <1>3

NoMark(l) == l \in Seq(Records) /\ \A i \in DOMAIN l : l[i].type # "tick"

LEMMA AppendAfter ==
  ASSUME NEW s \in Seq(Records), NEW l \in Seq(Records), NEW m \in Records
  PROVE  s \o Append(l, m) = Append(s \o l, m) /\ s \o l \in Seq(Records)
<1>1. s \o l \in Seq(Records)
  BY ConcatProperties
<1>2. Append(l, m) = l \o <<m>> /\ Append(s \o l, m) = (s \o l) \o <<m>>
  BY <1>1, AppendIsConcat
<1>3. <<m>> \in Seq(Records)
  OBVIOUS
<1> QED
  BY <1>1, <1>2, <1>3, ConcatAssociative

(* What a concatenation holds. *)
LEMMA JoinIs ==
  ASSUME NEW s \in Seq(Records), NEW l \in Seq(Records)
  PROVE  /\ s \o l \in Seq(Records)
         /\ DOMAIN (s \o l) = 1..(Len(s) + Len(l))
         /\ Len(s \o l) = Len(s) + Len(l)
         /\ \A i \in DOMAIN (s \o l) :
              \/ i \in DOMAIN s /\ (s \o l)[i] = s[i]
              \/ i - Len(s) \in DOMAIN l /\ i > Len(s) /\ (s \o l)[i] = l[i - Len(s)]
         /\ \A i \in DOMAIN s : i \in DOMAIN (s \o l) /\ (s \o l)[i] = s[i]
<1>1. /\ s \o l \in Seq(Records) /\ Len(s \o l) = Len(s) + Len(l)
      /\ \A i \in 1..Len(s) + Len(l) : (s \o l)[i] = IF i <= Len(s) THEN s[i] ELSE l[i - Len(s)]
  BY ConcatProperties
<1>2. Len(s) \in Nat /\ Len(l) \in Nat /\ DOMAIN s = 1..Len(s) /\ DOMAIN l = 1..Len(l)
  OBVIOUS
<1> DEFINE j == s \o l
<1>3. j \in Seq(Records) /\ Len(j) = Len(s) + Len(l)
  BY <1>1
<1>4. DOMAIN j = 1..(Len(s) + Len(l))
  BY <1>3
<1>5. \A i \in 1..(Len(s) + Len(l)) : j[i] = IF i <= Len(s) THEN s[i] ELSE l[i - Len(s)]
  BY <1>1
<1> HIDE DEF j
<1>6. ASSUME NEW i \in DOMAIN j
      PROVE  \/ i \in DOMAIN s /\ j[i] = s[i]
             \/ i - Len(s) \in DOMAIN l /\ i > Len(s) /\ j[i] = l[i - Len(s)]
  BY <1>2, <1>4, <1>5, <1>6
<1>7. ASSUME NEW i \in DOMAIN s PROVE i \in DOMAIN j /\ j[i] = s[i]
  BY <1>2, <1>4, <1>5, <1>7
<1> QED
  BY <1>3, <1>4, <1>6, <1>7 DEF j

LEMMA OpenJoined ==
  ASSUME NEW s \in Seq(Records), MarksAtEnds(s), NEW l, NoMark(l)
  PROVE  /\ MarksAtEnds(Open(s) \o l)
         /\ \A i \in DOMAIN (Open(s) \o l) : (Open(s) \o l)[i].type = "tick" => i = 1
         /\ l # <<>> => Open(Open(s) \o l) = Open(s) \o l
         /\ Number(Open(s) \o l) = Number(Open(s))
<1>1. PICK o : o = Open(s)
  OBVIOUS
<1>2. /\ o \in Seq(Records) /\ l \in Seq(Records)
      /\ \A i \in DOMAIN o : o[i].type = "tick" => i = 1
      /\ \A i \in DOMAIN l : l[i].type # "tick"
  BY <1>1, OpenIs DEF NoMark
<1> DEFINE j == o \o l
<1>3. /\ j \in Seq(Records) /\ Len(j) = Len(o) + Len(l) /\ DOMAIN j = 1..(Len(o) + Len(l))
      /\ \A i \in DOMAIN j : \/ i \in DOMAIN o /\ j[i] = o[i]
                             \/ i - Len(o) \in DOMAIN l /\ i > Len(o) /\ j[i] = l[i - Len(o)]
      /\ \A i \in DOMAIN o : i \in DOMAIN j /\ j[i] = o[i]
  BY ONLY <1>2, JoinIs
<1>9. l = <<>> => j = o
  BY <1>2, ConcatEmptySeq
<1> HIDE DEF j
<1>4. \A i \in DOMAIN j : j[i].type = "tick" => i = 1
  BY <1>2, <1>3
<1>5. /\ Len(o) \in Nat /\ Len(l) \in Nat /\ DOMAIN o = 1..Len(o) /\ DOMAIN l = 1..Len(l)
      /\ l # <<>> => Len(l) > 0
      /\ o # <<>> => Len(o) > 0
      /\ o = <<>> => Len(o) = 0
  BY <1>2
<1>6. l # <<>> => Open(j) = j
  <2> SUFFICES ASSUME l # <<>> PROVE j[Len(j)].type # "tick"
    BY DEF Open
  <2>1. Len(j) \in DOMAIN j /\ Len(j) \notin DOMAIN o
    BY <1>3, <1>5
  <2>2. Len(j) - Len(o) \in DOMAIN l /\ j[Len(j)] = l[Len(j) - Len(o)]
    BY <1>3, <2>1
  <2> QED
    BY <1>2, <2>2
<1>7. Number(j) = Number(o)
  <2>1. CASE o # <<>>
    <3>1. 1 \in DOMAIN o /\ j[1] = o[1] /\ j # <<>>
      BY <1>3, <1>5, <2>1
    <3> QED
      BY <2>1, <3>1 DEF Number
  <2>2. CASE o = <<>> /\ l # <<>>
    <3>1. 1 \in DOMAIN j /\ 1 \notin DOMAIN o
      BY <1>3, <1>5, <2>2
    <3>2. j[1].type # "tick"
      BY <1>2, <1>3, <3>1
    <3> QED
      BY <2>2, <3>2 DEF Number
  <2>3. CASE o = <<>> /\ l = <<>>
    BY <1>9, <2>3
  <2> QED
    BY <2>1, <2>2, <2>3
<1>8. MarksAtEnds(j)
  BY <1>4 DEF MarksAtEnds
<1> QED
  BY <1>1, <1>4, <1>6, <1>7, <1>8 DEF j

(* Lines of a round are appended to it; a mark closes it. *)
LEMMA LinesWritten ==
  ASSUME RecTypeOK, MarksAtEnds(log), NEW l, NoMark(l), Write(l)
  PROVE  /\ log' \in Seq(Records) /\ MarksAtEnds(log)'
         /\ Open(log)' = Open(log) \o l
         /\ (l = <<>> /\ log' = log) \/ (l # <<>> /\ log' = Open(log) \o l)
<1>1. log \in Seq(Records) /\ log' = Recent(log \o l) /\ l \in Seq(Records)
  BY DEF RecTypeOK, Write, NoMark
<1>2. CASE l = <<>>
  <2>1. log \o l = log
    BY <1>1, <1>2, ConcatEmptySeq
  <2>2. log' = log
    BY <1>1, <2>1, RecentKeeps
  <2>3. Open(log) \o l = Open(log)
    BY <1>1, <1>2, OpenIs, ConcatEmptySeq
  <2> QED
    BY <1>1, <1>2, <2>2, <2>3 DEF Open, MarksAtEnds
<1>3. CASE l # <<>>
  <2>1. log' = Open(log) \o l
    BY <1>1, <1>3, RecentIs DEF NoMark
  <2>2. PICK n : n = log'
    OBVIOUS
  <2>3. MarksAtEnds(n) /\ Open(n) = n
    BY <1>1, <1>3, <2>1, <2>2, OpenJoined
  <2>4. n \in Seq(Records)
    BY <1>1, <2>1, <2>2, OpenIs, ConcatProperties
  <2> QED
    BY <1>3, <2>1, <2>2, <2>3, <2>4 DEF Open, MarksAtEnds
<1> QED
  BY <1>2, <1>3

LEMMA MarkWritten ==
  ASSUME RecTypeOK, MarksAtEnds(log), NEW l, NoMark(l), NEW m \in Records, m.type = "tick",
         Write(Append(l, m))
  PROVE  /\ log' \in Seq(Records) /\ MarksAtEnds(log)'
         /\ log' = Append(Open(log) \o l, m) /\ Open(log)' = <<m>>
<1>1. log \in Seq(Records) /\ log' = Recent(log \o Append(l, m)) /\ l \in Seq(Records)
  BY DEF RecTypeOK, Write, NoMark
<1>2. /\ Append(l, m) \in Seq(Records) /\ Append(l, m) # <<>>
      /\ \A i \in DOMAIN Append(l, m) : Append(l, m)[i].type = "tick" => i = Len(Append(l, m))
  BY <1>1 DEF NoMark
<1>3. Recent(log \o Append(l, m)) = Open(log) \o Append(l, m)
  BY <1>1, <1>2, RecentIs
<1>4. PICK o : o = Open(log) \o l
  OBVIOUS
<1>5. /\ o \in Seq(Records) /\ log' = Append(o, m)
      /\ \A i \in DOMAIN o : o[i].type = "tick" => i = 1
  BY <1>1, <1>3, <1>4, OpenIs, AppendAfter, OpenJoined
<1>6. PICK n : n = log'
  OBVIOUS
<1>7. /\ n \in Seq(Records) /\ Len(n) = Len(o) + 1 /\ n[Len(n)] = m /\ n # <<>>
      /\ \A i \in DOMAIN n : i = Len(n) \/ (i \in DOMAIN o /\ n[i] = o[i])
  BY <1>5, <1>6
<1>8. MarksAtEnds(n) /\ Open(n) = <<m>>
  BY <1>5, <1>7 DEF MarksAtEnds, Open
<1> QED
  BY <1>4, <1>5, <1>6, <1>7, <1>8 DEF MarksAtEnds, Open

LEMMA NoClosing ==
  ASSUME \A i \in DOMAIN log' : log'[i].type = "tick" => i = 1
  PROVE  TicksMarkRounds' /\ BooksInFile'
<1>1. Closing' = {}
  BY DEF Closing, Lines
<1> QED
  BY <1>1 DEF TicksMarkRounds, BooksInFile

Greatest(numbers) == CHOOSE j \in numbers : \A k \in numbers : k <= j

LEMMA LogStays ==
  ASSUME LogKnown, log' = log
  PROVE  TicksMarkRounds' /\ BooksInFile' /\ MarksAtEnds(log)'
<1>1. Closing' = Closing /\ Lines("book")' = Lines("book")
  BY DEF Closing, Lines
<1>2. \A i : Previous(i)' = Previous(i)
  BY DEF Previous, Lines
<1>3. ASSUME NEW i PROVE LastBefore(i)' = LastBefore(i)
  <2>1. LastBefore(i) = IF Previous(i) = {} THEN 0 ELSE Greatest(Previous(i))
    BY DEF LastBefore, Greatest
  <2>2. LastBefore(i)' = IF Previous(i)' = {} THEN 0 ELSE Greatest(Previous(i)')
    BY DEF LastBefore, Greatest
  <2> QED
    BY <1>2, <2>1, <2>2
<1>4. \A i : Between(LastBefore(i), i)' = Between(LastBefore(i), i)
  BY <1>3 DEF Between
<1>5. TicksMarkRounds'
  BY <1>1, <1>2, <1>3, <1>4 DEF LogKnown, TicksMarkRounds
<1>6. BooksInFile'
  BY <1>1, <1>4 DEF LogKnown, FilesKnown, BooksInFile
<1> QED
  BY <1>5, <1>6 DEF LogKnown, MarksAtEnds

LEMMA MarkCloses ==
  ASSUME NEW b \in Seq(Records), \A i \in DOMAIN b : b[i].type = "tick" => i = 1,
         NEW m \in Records, m.type = "tick", m.seq = Number(b) + 1,
         NEW left, Counts(b, left, m.books, m.file),
         log' = Append(b, m)
  PROVE  TicksMarkRounds' /\ BooksInFile'
<1>1. PICK n : n = log'
  OBVIOUS
<1>2. /\ n \in Seq(Records) /\ Len(n) = Len(b) + 1 /\ n[Len(n)] = m /\ Len(b) \in Nat
      /\ DOMAIN n = 1..(Len(b) + 1) /\ DOMAIN b = 1..Len(b)
      /\ \A i \in DOMAIN b : n[i] = b[i]
  BY <1>1
<1>3. /\ Lines("tick")' = {i \in DOMAIN n : n[i].type = "tick"}
      /\ Lines("book")' = {i \in DOMAIN n : n[i].type = "book"}
  BY <1>1 DEF Lines
<1>4. Lines("book")' = BooksIn(b)
  BY <1>2, <1>3 DEF BooksIn
<1>0. /\ m.books = Cardinality(BooksIn(b))
      /\ \A j \in BooksIn(b) : n[j].file = m.file
      /\ \A j, k \in BooksIn(b) : n[j].tokens = n[k].tokens => j = k
  BY <1>2 DEF Counts, BooksIn
<1> SUFFICES ASSUME NEW i \in Closing'
             PROVE  /\ Lines("book")' \cap Between(LastBefore(i), i)' = BooksIn(b)
                    /\ n[i] = m
                    /\ m.seq = IF Previous(i)' = {} THEN 1 ELSE n[LastBefore(i)'].seq + 1
  BY <1>0, <1>1 DEF TicksMarkRounds, BooksInFile
<1>5. i = Len(n) /\ i # 1 /\ n[i] = m /\ Len(b) > 0 /\ b # <<>>
  BY <1>2, <1>3 DEF Closing
<1>6. CASE b[1].type = "tick"
  <2>1. Previous(i)' = {1}
    BY <1>1, <1>2, <1>3, <1>5, <1>6 DEF Previous
  <2>2. LastBefore(i)' = 1
    BY <2>1 DEF LastBefore
  <2>3. Between(LastBefore(i), i)' = {j \in DOMAIN n : 1 < j /\ j < i}
    BY <1>1, <2>2 DEF Between
  <2>4. Lines("book")' \cap Between(LastBefore(i), i)' = BooksIn(b)
    BY <1>2, <1>3, <1>4, <1>5, <1>6, <2>3 DEF BooksIn
  <2>5. n[1].seq = Number(b)
    BY <1>2, <1>5, <1>6 DEF Number
  <2> QED
    BY <1>5, <2>1, <2>2, <2>4, <2>5
<1>7. CASE b[1].type # "tick"
  <2>1. Previous(i)' = {}
    BY <1>1, <1>2, <1>3, <1>5, <1>7 DEF Previous
  <2>2. LastBefore(i)' = 0
    BY <2>1 DEF LastBefore
  <2>3. Between(LastBefore(i), i)' = {j \in DOMAIN n : 0 < j /\ j < i}
    BY <1>1, <2>2 DEF Between
  <2>4. Lines("book")' \cap Between(LastBefore(i), i)' = BooksIn(b)
    BY <1>2, <1>3, <1>4, <1>5, <2>3 DEF BooksIn
  <2>5. Number(b) = 0
    BY <1>7 DEF Number
  <2> QED
    BY <1>5, <2>1, <2>4, <2>5
<1> QED
  BY <1>6, <1>7

(* A record that is written now is in the file of its round's hour. *)
LEMMA InHourNow ==
  ASSUME TimesAssumption, RecTypeOK, TimesKnown, Busy, NEW r, r.t = clock, r.file = Hour(t0)
  PROVE  InHour(r) /\ r.file \in Nat
<1>1. t0 \in Nat /\ clock \in Nat /\ RoundTime \in Nat /\ t0 <= clock /\ clock - RoundTime <= t0
  BY DEF TimesAssumption, RecTypeOK, TimesKnown
<1>2. Hour(t0) \in Nat /\ Hour(clock - RoundTime) <= Hour(t0) /\ Hour(t0) <= Hour(clock)
  BY <1>1, HourGrows
<1> QED
  BY <1>2 DEF InHour

LEMMA FilesOpen ==
  ASSUME NEW s \in Seq(Records), InFiles(s) PROVE InFiles(Open(s))
<1>1. CASE s # <<>> /\ s[Len(s)].type = "tick"
  <2>1. Open(s) = <<s[Len(s)]>> /\ Len(s) \in DOMAIN s /\ s[Len(s)] \in Records
    BY <1>1 DEF Open
  <2>2. s[Len(s)].file \in Nat
    BY <2>1 DEF Records
  <2> QED
    BY <2>1, <2>2 DEF InFiles
<1>2. CASE ~(s # <<>> /\ s[Len(s)].type = "tick")
  BY <1>2 DEF Open
<1> QED
  BY <1>1, <1>2

LEMMA FilesJoined ==
  ASSUME TimesAssumption, RecTypeOK, NEW s \in Seq(Records), InFiles(s), NEW l \in Seq(Records),
         \A i \in DOMAIN l : InHour(l[i]) /\ l[i].file = Hour(t0)
  PROVE  InFiles(s \o l)
<1> DEFINE j == s \o l
<1>1. /\ j \in Seq(Records) /\ DOMAIN j = 1..(Len(s) + Len(l))
      /\ \A i \in DOMAIN j : \/ i \in DOMAIN s /\ j[i] = s[i]
                             \/ i - Len(s) \in DOMAIN l /\ i > Len(s) /\ j[i] = l[i - Len(s)]
  BY JoinIs
<1>2. Len(s) \in Nat /\ DOMAIN s = 1..Len(s)
  OBVIOUS
<1>3. Hour(t0) \in Int /\ \A i \in DOMAIN s : s[i].file \in Nat /\ s[i].file <= Hour(t0)
  <2>1. t0 \in Int
    BY DEF RecTypeOK
  <2>2. \A i \in DOMAIN s : s[i] \in Records
    OBVIOUS
  <2>3. \A i \in DOMAIN s : s[i].file \in Nat
    BY <2>2 DEF Records
  <2>4. \A i \in DOMAIN s : s[i].file <= Hour(t0)
    BY DEF InFiles, InHour
  <2>5. Hour(t0) \in Int
    BY <2>1, HourGrows
  <2> QED
    BY <2>3, <2>4, <2>5
<1> HIDE DEF j
<1>4. \A i \in DOMAIN j : InHour(j[i])
  BY <1>1 DEF InFiles
<1>5. ASSUME NEW i \in DOMAIN j, NEW k \in DOMAIN j, i <= k PROVE j[i].file <= j[k].file
  <2>0. i \in Nat /\ k \in Nat
    BY <1>1, <1>2
  <2>1. CASE k \in DOMAIN s /\ j[k] = s[k]
    <3>1. i \in DOMAIN s /\ j[i] = s[i]
      BY <1>1, <1>2, <1>5, <2>0, <2>1
    <3> QED
      BY <1>5, <2>1, <3>1 DEF InFiles
  <2>2. CASE k - Len(s) \in DOMAIN l /\ j[k] = l[k - Len(s)]
    <3>1. j[k].file = Hour(t0)
      BY <2>2
    <3>2. j[i].file = Hour(t0) \/ (i \in DOMAIN s /\ j[i] = s[i])
      BY <1>1
    <3> QED
      BY <1>3, <3>1, <3>2
  <2> QED
    BY <1>1, <2>1, <2>2
<1> QED
  BY <1>4, <1>5 DEF InFiles, j

-----------------------------------------------------------------------------
(* The steps of a round *)

(* Lines that a round writes now; they are what log' holds after Open(log). *)
Lined(l) == NoMark(l) /\ \A i \in DOMAIN l : l[i].t = clock /\ l[i].file = stream

LEMMA JoinedInFiles ==
  ASSUME TimesAssumption, RecorderInv, loop \in InRound, stream # None, NEW l, Lined(l)
  PROVE  InFiles(Open(log) \o l)
<1>1. log \in Seq(Records) /\ InFiles(log) /\ stream = Hour(t0) /\ l \in Seq(Records)
  BY DEF RecorderInv, RecTypeOK, LogKnown, FilesKnown, Lined, NoMark
<1>2. Open(log) \in Seq(Records) /\ InFiles(Open(log))
  BY <1>1, OpenIs, FilesOpen DEF RecorderInv, LogKnown
<1>3. \A i \in DOMAIN l : InHour(l[i]) /\ l[i].file = Hour(t0)
  BY <1>1, InHourNow DEF RecorderInv, Lined, Busy
<1> QED
  BY <1>1, <1>2, <1>3, FilesJoined DEF RecorderInv

(* A round that goes on. *)
LEMMA RoundGoesOn ==
  ASSUME TimesAssumption, RecorderInv, Asking, NEW l,
         stream # None => Lined(l) /\ Counts(Open(log) \o l, asked', books', stream),
         Written(l), loop' \in {"books", "wallet"},
         UNCHANGED <<stream, seq, t0, clock>>
  PROVE  LogKnown' /\ log' \in Seq(Records)
<1>1. log \in Seq(Records) /\ MarksAtEnds(log) /\ RecTypeOK /\ loop \in InRound
  BY DEF RecorderInv, RecTypeOK, LogKnown, Asking, InRound
<1>2. CASE stream = None
  <2>1. log' = log
    BY <1>2 DEF Written, diskVars
  <2>2. MarksAtEnds(log)' /\ TicksMarkRounds' /\ BooksInFile'
    BY <2>1, LogStays DEF RecorderInv
  <2>3. FilesKnown'
    BY <1>2, <2>1, <2>2 DEF RecorderInv, LogKnown, FilesKnown, InFiles, InHour
  <2>4. RoundKnown'
    BY <1>2 DEF RoundKnown, Asking
  <2> QED
    BY <1>1, <2>1, <2>2, <2>3, <2>4 DEF LogKnown
<1>3. CASE stream # None
  <2>1. Lined(l) /\ Counts(Open(log) \o l, asked', books', stream) /\ Write(l) /\ NoMark(l)
    BY <1>3 DEF Written, Lined
  <2>2. /\ log' \in Seq(Records) /\ MarksAtEnds(log)' /\ Open(log)' = Open(log) \o l
        /\ log' = log \/ log' = Open(log) \o l
    BY <1>1, <2>1, LinesWritten
  <2>3. TicksMarkRounds' /\ BooksInFile'
    <3>1. CASE log' = log
      BY <3>1, LogStays DEF RecorderInv
    <3>2. CASE log' = Open(log) \o l
      <4>1. \A i \in DOMAIN log' : log'[i].type = "tick" => i = 1
        BY <1>1, <2>1, <3>2, OpenJoined
      <4> QED
        BY <4>1, NoClosing
    <3> QED
      BY <2>2, <3>1, <3>2
  <2>4. InFiles(log)'
    <3>1. InFiles(log) /\ InFiles(Open(log) \o l)
      BY <1>1, <1>3, <2>1, JoinedInFiles DEF RecorderInv, LogKnown, FilesKnown
    <3> QED
      BY <2>2, <3>1 DEF InFiles, InHour
  <2>5. FilesKnown'
    <3>1. stream' = Hour(t0)'
      BY <1>1, <1>3 DEF RecorderInv, LogKnown, FilesKnown, Hour
    <3> QED
      BY <2>3, <2>4, <3>1 DEF FilesKnown
  <2>6. RoundKnown'
    <3>1. seq = Number(Open(log))
      BY <1>3 DEF RecorderInv, LogKnown, RoundKnown
    <3>2. Number(Open(log) \o l) = Number(Open(log))
      BY <1>1, <2>1, OpenJoined
    <3>3. seq' = Number(Open(log)')
      BY <2>2, <3>1, <3>2
    <3>4. Counts(Open(log)', asked', books', stream')
      BY <2>1, <2>2
    <3> QED
      BY <3>3, <3>4 DEF RoundKnown, Number, Counts, BooksIn
  <2> QED
    BY <2>2, <2>3, <2>5, <2>6 DEF LogKnown
<1> QED
  BY <1>2, <1>3

(* A round that ends. *)
LEMMA RoundEnds ==
  ASSUME TimesAssumption, NoneAssumption, RecorderInv, Asking, NEW l, NEW count \in Nat, NEW left,
         stream # None => Lined(l) /\ Counts(Open(log) \o l, left, count, stream),
         EndRound(l, count), UNCHANGED <<t0, clock>>
  PROVE  /\ LogKnown' /\ log' \in Seq(Records) /\ seq' \in Nat
         /\ loop' \in {"rest", "closing", "over"}
         /\ timer' \in {"null", "armed", "fired"} /\ (timer' = "armed" <=> loop' = "rest")
         /\ stream' \in Nat \cup {None}
<1>1. /\ log \in Seq(Records) /\ MarksAtEnds(log) /\ RecTypeOK /\ loop \in InRound
      /\ stream \in Nat \cup {None} /\ seq \in Nat
      /\ timer \in {"null", "fired"}
  BY DEF RecorderInv, RecTypeOK, LogKnown, LoopKnown, Asking, InRound
<1>2. /\ seq' = seq + 1 /\ Written(Append(l, TickMark(seq + 1, count)))
      /\ \/ running /\ timer' = "armed" /\ loop' = "rest" /\ stream' = stream
         \/ ~running /\ FinishStop
  BY DEF EndRound
<1>3. /\ seq' \in Nat /\ loop' \in {"rest", "closing", "over"}
      /\ timer' \in {"null", "armed", "fired"} /\ (timer' = "armed" <=> loop' = "rest")
      /\ stream' \in Nat \cup {None}
  BY <1>1, <1>2 DEF FinishStop
<1>4. CASE stream = None
  <2>1. log' = log
    BY <1>2, <1>4 DEF Written, diskVars
  <2>2. MarksAtEnds(log)' /\ TicksMarkRounds' /\ BooksInFile'
    BY <2>1, LogStays DEF RecorderInv
  <2>3. FilesKnown'
    BY <1>3, <2>1, <2>2 DEF RecorderInv, LogKnown, FilesKnown, InFiles, InHour, InRound
  <2>4. loop' = "over"
    <3>1. ~running
      BY <1>4 DEF RecorderInv, LoopKnown, Asking
    <3> QED
      BY <1>2, <1>4, <3>1 DEF FinishStop
  <2>5. RoundKnown'
    BY <2>4 DEF RoundKnown, Asking
  <2> QED
    BY <1>1, <1>3, <2>1, <2>2, <2>3, <2>5 DEF LogKnown
<1>5. CASE stream # None
  <2>1. /\ Lined(l) /\ NoMark(l) /\ l \in Seq(Records)
        /\ Counts(Open(log) \o l, left, count, stream)
    BY <1>5 DEF Lined, NoMark
  <2>2. PICK m : m = TickMark(seq + 1, count)
    OBVIOUS
  <2>3. /\ m \in Records /\ m.type = "tick" /\ m.seq = seq + 1 /\ m.books = count
        /\ m.file = stream /\ m.t = clock
    BY <1>1, <1>5, <2>2, RecordIs DEF TickMark
  <2>4. Write(Append(l, m))
    BY <1>2, <1>5, <2>2 DEF Written
  <2>5. PICK b : b = Open(log) \o l
    OBVIOUS
  <2>6. /\ log' \in Seq(Records) /\ MarksAtEnds(log)' /\ log' = Append(b, m)
        /\ Open(log)' = <<m>>
    BY <1>1, <2>1, <2>3, <2>4, <2>5, MarkWritten
  <2>7. /\ b \in Seq(Records) /\ \A i \in DOMAIN b : b[i].type = "tick" => i = 1
        /\ Number(b) = Number(Open(log)) /\ InFiles(b)
    BY <1>1, <1>5, <2>1, <2>5, OpenIs, OpenJoined, ConcatProperties, JoinedInFiles
  <2>8. m.seq = Number(b) + 1
    BY <1>5, <2>3, <2>7 DEF RecorderInv, LogKnown, RoundKnown
  <2>9. Counts(b, left, m.books, m.file)
    BY <2>1, <2>3, <2>5
  <2>10. TicksMarkRounds' /\ BooksInFile'
    BY ONLY <2>3, <2>6, <2>7, <2>8, <2>9, MarkCloses
  <2>11. InFiles(log)'
    <3>1. Append(b, m) = b \o <<m>>
      BY <2>3, <2>7, AppendIsConcat
    <3>2. InHour(m) /\ m.file = Hour(t0)
      BY <1>1, <1>5, <2>3, InHourNow DEF RecorderInv, LogKnown, FilesKnown, Busy
    <3>3. PICK l1 : l1 = <<m>>
      OBVIOUS
    <3>4. l1 \in Seq(Records) /\ \A i \in DOMAIN l1 : InHour(l1[i]) /\ l1[i].file = Hour(t0)
      BY <2>3, <3>2, <3>3
    <3>5. InFiles(b \o l1)
      BY <1>1, <2>7, <3>4, FilesJoined
    <3> QED
      BY <2>6, <3>1, <3>3, <3>5 DEF InFiles, InHour
  <2>12. FilesKnown'
    BY <1>3, <2>10, <2>11 DEF FilesKnown, InRound
  <2>13. RoundKnown'
    <3>1. Open(log)' # <<>> /\ Open(log)'[1].type = "tick" /\ Open(log)'[1].seq = seq'
      BY <1>2, <2>3, <2>6
    <3>2. BooksIn(Open(log))' = {}
      BY <2>3, <2>6 DEF BooksIn
    <3> QED
      BY <1>3, <3>1, <3>2 DEF RoundKnown, Number, Asking
  <2> QED
    BY <1>3, <2>6, <2>10, <2>12, <2>13 DEF LogKnown
<1> QED
  BY <1>4, <1>5

Plain(l) == \A i \in DOMAIN l : l[i].trades = {}

LEMMA TimesStay ==
  ASSUME RecTypeOK, NEW l, stream # None => Plain(l), Written(l)
  PROVE  times' = times
<1>1. CASE stream = None
  BY <1>1 DEF Written, diskVars
<1>2. CASE stream # None
  <2>1. times' = [t \in Trades |-> times[t] + Cardinality({i \in DOMAIN l : t \in l[i].trades})]
    BY <1>2 DEF Written, Write
  <2>2. ASSUME NEW t \in Trades
        PROVE  times[t] + Cardinality({i \in DOMAIN l : t \in l[i].trades}) = times[t]
    <3>1. {i \in DOMAIN l : t \in l[i].trades} = {}
      BY <1>2 DEF Plain
    <3>2. Cardinality({i \in DOMAIN l : t \in l[i].trades}) = 0
      BY <3>1, FS_EmptySet
    <3> QED
      BY <3>2 DEF RecTypeOK
  <2>3. times' = [t \in Trades |-> times[t]]
    BY <2>1, <2>2
  <2> QED
    BY <2>3 DEF RecTypeOK
<1> QED
  BY <1>1, <1>2

LEMMA MarkPlain ==
  ASSUME NEW l \in Seq(Records), Plain(l), NEW n, NEW c
  PROVE  Plain(Append(l, TickMark(n, c)))
<1>1. PICK m : m = TickMark(n, c)
  OBVIOUS
<1>2. m.trades = {}
  BY <1>1 DEF TickMark, Record
<1>3. \A i \in DOMAIN Append(l, m) : (i \in DOMAIN l /\ Append(l, m)[i] = l[i]) \/ Append(l, m)[i] = m
  OBVIOUS
<1> QED
  BY <1>1, <1>2, <1>3 DEF Plain

(* What a step of a round leaves alone. *)
LEMMA RestKnown ==
  ASSUME RecorderInv, Busy,
         LogKnown', log' \in Seq(Records), seq' \in Nat, stream' \in Nat \cup {None},
         timer' \in {"null", "armed", "fired"}, (timer' = "armed" <=> loop' = "rest"),
         loop' \in InRound \cup {"rest", "closing", "over"},
         asked' \in [Tokens -> {"nothing", "book", "trades"}], books' \in Nat,
         loop' # "books" => \A t \in Tokens : asked'[t] = "nothing",
         running /\ loop' \in {"refresh", "books", "wallet"} => stream' # None,
         tokens' \subseteq Tokens, noAuth' \in BOOLEAN,
         seen' \in [Trades -> Nat \cup {None}], times' \in [Trades -> Nat], TradesKnown',
         UNCHANGED <<running, t0, clock, born, stop>>
  PROVE  RecorderInv'
<1>1. RecTypeOK'
  BY DEF RecorderInv, RecTypeOK
<1>2. LoopKnown'
  BY DEF LoopKnown, InRound
<1>3. TimesKnown'
  BY DEF RecorderInv, TimesKnown, Busy
<1> QED
  BY <1>1, <1>2, <1>3 DEF RecorderInv

LEMMA RestKept ==
  ASSUME RecorderInv, Busy,
         LogKnown', log' \in Seq(Records), seq' \in Nat, stream' \in Nat \cup {None},
         timer' \in {"null", "armed", "fired"}, (timer' = "armed" <=> loop' = "rest"),
         loop' \in InRound \cup {"rest", "closing", "over"},
         asked' \in [Tokens -> {"nothing", "book", "trades"}], books' \in Nat,
         loop' # "books" => \A t \in Tokens : asked'[t] = "nothing",
         running /\ loop' \in {"refresh", "books", "wallet"} => stream' # None,
         tokens' \subseteq Tokens, noAuth' \in BOOLEAN, times' = times,
         UNCHANGED <<running, seen, t0, clock, born, stop>>
  PROVE  RecorderInv'
<1>1. TradesKnown'
  BY DEF RecorderInv, TradesKnown
<1>2. seen' \in [Trades -> Nat \cup {None}] /\ times' \in [Trades -> Nat]
  BY DEF RecorderInv, RecTypeOK
<1> QED
  BY <1>1, <1>2, RestKnown

LEMMA TaskKeeps ==
  ASSUME TimesAssumption, NoneAssumption, RecorderInv, loop \in {"refresh", "books"},
         NEW l, NEW count \in Nat,
         NEW left \in [Tokens -> {"nothing", "book", "trades"}],
         loop = "refresh" => \A t \in Tokens : left[t] = "nothing",
         stream # None =>
           Lined(l) /\ Plain(l) /\ Counts(Open(log) \o l, left, count, stream),
         GoOn(left, l, count), tokens' \subseteq Tokens, noAuth' \in BOOLEAN,
         UNCHANGED <<running, seen, t0, worldVars, stop>>
  PROVE  RecorderInv'
<1>0. /\ Asking /\ Busy /\ RecTypeOK /\ LoopKnown /\ asked' = left /\ books' = count
      /\ UNCHANGED <<running, seen, t0, clock, born, stop>>
  BY DEF Asking, Busy, InRound, RecorderInv, GoOn, worldVars
<1>1. CASE \E t \in Tokens : left[t] # "nothing"
  <2>1. Written(l) /\ UNCHANGED <<loop, stream, seq, timer>> /\ loop = "books"
    BY <1>1 DEF GoOn
  <2>2. LogKnown' /\ log' \in Seq(Records)
    BY <1>0, <2>1, RoundGoesOn
  <2>3. times' = times
    BY <1>0, <2>1, TimesStay
  <2> QED
    BY <1>0, <2>1, <2>2, <2>3, RestKept DEF RecTypeOK, LoopKnown, InRound
<1>2. CASE ~(\E t \in Tokens : left[t] # "nothing") /\ WalletTrades
  <2>1. Written(l) /\ UNCHANGED <<stream, seq, timer>> /\ loop' = "wallet"
    BY <1>2 DEF GoOn
  <2>2. LogKnown' /\ log' \in Seq(Records)
    BY <1>0, <2>1, RoundGoesOn
  <2>3. times' = times
    BY <1>0, <2>1, TimesStay
  <2> QED
    BY <1>0, <1>2, <2>1, <2>2, <2>3, RestKept DEF RecTypeOK, LoopKnown, InRound
<1>3. CASE ~(\E t \in Tokens : left[t] # "nothing") /\ ~WalletTrades
  <2>1. EndRound(l, count)
    BY <1>3 DEF GoOn
  <2>2. /\ LogKnown' /\ log' \in Seq(Records) /\ seq' \in Nat
        /\ loop' \in {"rest", "closing", "over"}
        /\ timer' \in {"null", "armed", "fired"} /\ (timer' = "armed" <=> loop' = "rest")
        /\ stream' \in Nat \cup {None}
    BY <1>0, <2>1, RoundEnds
  <2>3. times' = times
    BY <1>0, <2>1, TimesStay, MarkPlain DEF EndRound, Lined, NoMark
  <2> QED
    BY <1>0, <1>3, <2>2, <2>3, RestKept
<1> QED
  BY <1>1, <1>2, <1>3

-----------------------------------------------------------------------------
(* The actions of a round *)

LEMMA NoBooks ==
  ASSUME RecorderInv, NEW l \in Seq(Records), BooksIn(Open(log)) = {}, BooksIn(l) = {},
         NEW left, NEW file
  PROVE  Counts(Open(log) \o l, left, 0, file)
<1>1. PICK o : o = Open(log)
  OBVIOUS
<1>2. o \in Seq(Records) /\ BooksIn(o) = {}
  BY <1>1, OpenIs DEF RecorderInv, RecTypeOK, LogKnown
<1>3. PICK j : j = o \o l
  OBVIOUS
<1>4. \A i \in DOMAIN j : \/ i \in DOMAIN o /\ j[i] = o[i]
                          \/ i - Len(o) \in DOMAIN l /\ j[i] = l[i - Len(o)]
  BY <1>2, <1>3, JoinIs
<1>5. BooksIn(j) = {}
  BY <1>2, <1>4 DEF BooksIn
<1>6. Counts(j, left, 0, file)
  BY <1>5, FS_EmptySet DEF Counts
<1> QED
  BY <1>1, <1>3, <1>6

LEMMA AskKeeps ==
  ASSUME TimesAssumption, NoneAssumption, RecorderInv, loop = "refresh",
         NEW tks \in SUBSET Tokens, NEW l,
         stream # None => Lined(l) /\ Plain(l) /\ BooksIn(l) = {},
         AskOrGoOn(tks, l), tokens' \subseteq Tokens,
         UNCHANGED <<running, noAuth, seen, t0, worldVars, stop>>
  PROVE  RecorderInv'
<1>1. /\ RecTypeOK /\ LoopKnown /\ Asking /\ Busy /\ noAuth' \in BOOLEAN
      /\ BooksIn(Open(log)) = {}
      /\ UNCHANGED <<running, noAuth, seen, t0, clock, born, stop>>
  BY DEF RecorderInv, RecTypeOK, LogKnown, RoundKnown, Asking, Busy, InRound, worldVars
<1>2. ASSUME NEW left, stream # None PROVE Counts(Open(log) \o l, left, 0, stream)
  BY <1>1, <1>2, NoBooks DEF Lined, NoMark
<1>3. CASE tks # {}
  <2>1. AskFor(tks) /\ Written(l) /\ UNCHANGED <<stream, seq, timer>>
    BY <1>3 DEF AskOrGoOn
  <2>2. /\ loop' = "books" /\ books' = 0
        /\ asked' \in [Tokens -> {"nothing", "book", "trades"}]
    BY <2>1 DEF AskFor
  <2>3. LogKnown' /\ log' \in Seq(Records)
    BY <1>1, <1>2, <2>1, <2>2, RoundGoesOn
  <2>4. times' = times
    BY <1>1, <2>1, TimesStay
  <2> QED
    BY <1>1, <2>1, <2>2, <2>3, <2>4, RestKept DEF RecTypeOK, LoopKnown, InRound
<1>4. CASE tks = {}
  <2>1. GoOn([t \in Tokens |-> "nothing"], l, 0)
    BY <1>4 DEF AskOrGoOn
  <2>2. PICK left : left = [t \in Tokens |-> "nothing"]
    OBVIOUS
  <2>3. /\ left \in [Tokens -> {"nothing", "book", "trades"}]
        /\ \A t \in Tokens : left[t] = "nothing"
    BY <2>2
  <2> QED
    BY <1>1, <1>2, <2>1, <2>2, <2>3, TaskKeeps
<1> QED
  BY <1>3, <1>4

LEMMA OneLine ==
  ASSUME RecTypeOK, stream # None, NEW type \in {"meta", "book", "trades", "wallet_trades"},
         NEW tks \in SUBSET Tokens, NEW trades \in SUBSET Trades, NEW r,
         r = Record(type, tks, trades, 0, 0)
  PROVE  /\ Lined(<<r>>) /\ r \in Records
         /\ trades = {} => Plain(<<r>>)
         /\ type # "book" => BooksIn(<<r>>) = {}
<1>1. /\ r \in Records /\ r.type = type /\ r.file = stream /\ r.t = clock /\ r.trades = trades
  BY RecordIs
<1>2. PICK l : l = <<r>>
  OBVIOUS
<1>3. l \in Seq(Records) /\ DOMAIN l = {1} /\ l[1] = r
  BY <1>1, <1>2
<1> QED
  BY <1>1, <1>2, <1>3 DEF Lined, NoMark, Plain, BooksIn

LEMMA NoLines == Lined(<<>>) /\ Plain(<<>>) /\ BooksIn(<<>>) = {}
  BY DEF Lined, NoMark, Plain, BooksIn

LEMMA RefreshKeeps ==
  ASSUME TimesAssumption, NoneAssumption, RecorderInv,
         RefreshFails \/ \E tks \in SUBSET Tokens : Refreshed(tks)
  PROVE  RecorderInv'
<1>1. tokens \in SUBSET Tokens /\ RecTypeOK
  BY DEF RecorderInv, RecTypeOK
<1>2. CASE RefreshFails
  BY <1>1, <1>2, AskKeeps, NoLines DEF RefreshFails
<1>3. ASSUME NEW tks \in SUBSET Tokens, Refreshed(tks) PROVE RecorderInv'
  <2>1. PICK r : r = Meta(tks)
    OBVIOUS
  <2>2. stream # None => Lined(<<r>>) /\ Plain(<<r>>) /\ BooksIn(<<r>>) = {}
    BY <1>1, <2>1, OneLine DEF Meta
  <2> QED
    BY <1>1, <1>3, <2>1, <2>2, AskKeeps DEF Refreshed
<1> QED
  BY <1>2, <1>3

(* A line that is no book leaves the count; a book adds one, of a token     *)
(* that was still to be answered.                                           *)
LEMMA CountStays ==
  ASSUME NEW o \in Seq(Records), NEW l \in Seq(Records), BooksIn(l) = {}, NEW was, NEW left,
         NEW count, NEW file, Counts(o, was, count, file),
         \A t \in Tokens : left[t] = "book" => was[t] = "book"
  PROVE  Counts(o \o l, left, count, file)
<1>1. PICK j : j = o \o l
  OBVIOUS
<1>2. /\ \A i \in DOMAIN j : \/ i \in DOMAIN o /\ j[i] = o[i]
                             \/ i - Len(o) \in DOMAIN l /\ j[i] = l[i - Len(o)]
      /\ \A i \in DOMAIN o : i \in DOMAIN j /\ j[i] = o[i]
  BY <1>1, JoinIs
<1>3. BooksIn(j) = BooksIn(o) /\ \A i \in BooksIn(o) : j[i] = o[i]
  BY <1>2 DEF BooksIn
<1>4. Counts(j, left, count, file)
  BY <1>3 DEF Counts
<1> QED
  BY <1>1, <1>4

LEMMA CountGrows ==
  ASSUME NEW o \in Seq(Records), NEW r \in Records, r.type = "book", NEW was, NEW left,
         NEW count \in Nat, NEW file, Counts(o, was, count, file), r.file = file,
         NEW t \in Tokens, r.tokens = {t}, was[t] = "book", left[t] # "book",
         \A u \in Tokens : left[u] = "book" => was[u] = "book"
  PROVE  Counts(o \o <<r>>, left, count + 1, file)
<1>1. PICK j : j = o \o <<r>>
  OBVIOUS
<1>2. j = Append(o, r)
  BY <1>1, AppendIsConcat
<1>3. /\ DOMAIN j = 1..(Len(o) + 1) /\ DOMAIN o = 1..Len(o) /\ Len(o) \in Nat
      /\ \A i \in DOMAIN o : j[i] = o[i]
      /\ j[Len(o) + 1] = r
  BY <1>2
<1>4. BooksIn(j) = BooksIn(o) \cup {Len(o) + 1} /\ Len(o) + 1 \notin BooksIn(o)
  BY <1>3 DEF BooksIn
<1>5. IsFiniteSet(BooksIn(o))
  <2>1. BooksIn(o) \subseteq 1..Len(o)
    BY <1>3 DEF BooksIn
  <2>2. IsFiniteSet(1..Len(o))
    BY <1>3, FS_Interval
  <2> QED
    BY ONLY <2>1, <2>2, FS_Subset
<1>6. count + 1 = Cardinality(BooksIn(j))
  <2>1. PICK b : b = BooksIn(o)
    OBVIOUS
  <2>2. count = Cardinality(b)
    BY <2>1 DEF Counts
  <2>3. Cardinality(b \cup {Len(o) + 1}) = Cardinality(b) + 1
    BY <1>4, <1>5, <2>1, FS_AddElement
  <2> QED
    BY <1>4, <2>1, <2>2, <2>3
<1>7. \A i \in BooksIn(o) :
        /\ j[i] = o[i] /\ o[i].file = file
        /\ \E u \in Tokens : o[i].tokens = {u} /\ was[u] # "book" /\ left[u] # "book" /\ u # t
  BY <1>3 DEF Counts, BooksIn
<1>8. \A i, k \in BooksIn(o) : o[i].tokens = o[k].tokens => i = k
  BY DEF Counts
<1>9. \A i \in BooksIn(j) : j[i].file = file /\ \E u \in Tokens : j[i].tokens = {u} /\ left[u] # "book"
  BY <1>3, <1>4, <1>7
<1>10. \A i, k \in BooksIn(j) : j[i].tokens = j[k].tokens => i = k
  <2>1. \A i \in BooksIn(o) : j[i].tokens # {t} /\ j[i].tokens = o[i].tokens
    BY <1>7
  <2>2. j[Len(o) + 1].tokens = {t}
    BY <1>3
  <2> QED
    BY <1>4, <1>8, <2>1, <2>2
<1>11. Counts(j, left, count + 1, file)
  BY <1>6, <1>9, <1>10 DEF Counts
<1> QED
  BY <1>1, <1>11

LEMMA TaskStepKeeps ==
  ASSUME TimesAssumption, NoneAssumption, RecorderInv, NEW t \in Tokens, TaskStep(t)
  PROVE  RecorderInv'
<1>1. /\ RecTypeOK /\ tokens \subseteq Tokens /\ noAuth \in BOOLEAN /\ books \in Nat
      /\ asked \in [Tokens -> {"nothing", "book", "trades"}]
  BY DEF RecorderInv, RecTypeOK
<1>2. asked[t] # "nothing" => loop = "books"
  BY DEF RecorderInv, LoopKnown
<1>3. loop = "books" /\ stream # None
        => Counts(Open(log), asked, books, stream) /\ Open(log) \in Seq(Records)
  BY <1>1, OpenIs DEF RecorderInv, LogKnown, RoundKnown, RecTypeOK
<1>4. /\ Over(t) \in [Tokens -> {"nothing", "book", "trades"}]
      /\ Over(t)[t] # "book"
      /\ \A u \in Tokens : Over(t)[u] = "book" => asked[u] = "book"
  BY <1>1 DEF Over
<1> DEFINE next == [asked EXCEPT ![t] = "trades"]
<1>5. /\ next \in [Tokens -> {"nothing", "book", "trades"}]
      /\ next[t] # "book"
      /\ \A u \in Tokens : next[u] = "book" => asked[u] = "book"
  BY <1>1
<1> HIDE DEF next
<1>6. CASE BookArrives(t)
  <2>1. PICK left : left = IF stream # None /\ CaptureTrades /\ ~noAuth THEN next ELSE Over(t)
    OBVIOUS
  <2>2. /\ left \in [Tokens -> {"nothing", "book", "trades"}]
        /\ left[t] # "book"
        /\ \A u \in Tokens : left[u] = "book" => asked[u] = "book"
    BY <1>4, <1>5, <2>1
  <2>3. PICK r : r = Book(t)
    OBVIOUS
  <2>4. PICK count : count = IF stream = None THEN books ELSE books + 1
    OBVIOUS
  <2>5. loop = "books" /\ asked[t] = "book"
    BY <1>2, <1>6 DEF BookArrives
  <2>6. /\ GoOn(left, <<r>>, count)
        /\ UNCHANGED <<running, tokens, noAuth, seen, t0, worldVars, stop>>
    BY <1>6, <2>1, <2>3, <2>4 DEF BookArrives, next
  <2>7. ASSUME stream # None
        PROVE  Lined(<<r>>) /\ Plain(<<r>>) /\ Counts(Open(log) \o <<r>>, left, count, stream)
    <3>1. Lined(<<r>>) /\ r \in Records /\ Plain(<<r>>)
      BY <1>1, <2>3, <2>7, OneLine DEF Book
    <3>2. r.type = "book" /\ r.file = stream /\ r.tokens = {t}
      BY <2>3 DEF Book, Record
    <3> QED
      BY <1>1, <1>3, <2>2, <2>4, <2>5, <2>7, <3>1, <3>2, CountGrows
  <2>8. count \in Nat
    BY <1>1, <2>4
  <2> QED
    BY <1>1, <2>2, <2>5, <2>6, <2>7, <2>8, TaskKeeps
<1>7. ASSUME loop = "books", NEW l, GoOn(Over(t), l, books),
             stream # None => Lined(l) /\ Plain(l) /\ BooksIn(l) = {},
             tokens' \subseteq Tokens, noAuth' \in BOOLEAN,
             UNCHANGED <<running, seen, t0, worldVars, stop>>
      PROVE  RecorderInv'
  <2>1. stream # None => Counts(Open(log) \o l, Over(t), books, stream)
    BY <1>3, <1>4, <1>7, CountStays DEF Lined, NoMark
  <2> QED
    BY <1>1, <1>4, <1>7, <2>1, TaskKeeps
<1>8. ASSUME NEW gone \in BOOLEAN, BookFails(t, gone) PROVE RecorderInv'
  BY <1>1, <1>2, <1>7, <1>8, NoLines DEF BookFails
<1>9. ASSUME NEW some \in BOOLEAN, TradesArrive(t, some) PROVE RecorderInv'
  <2>1. PICK r : r = TokenTrades(t)
    OBVIOUS
  <2>2. stream # None => Lined(<<r>>) /\ Plain(<<r>>) /\ BooksIn(<<r>>) = {}
    BY <1>1, <2>1, OneLine DEF TokenTrades
  <2>3. PICK l : l = IF some THEN <<r>> ELSE <<>>
    OBVIOUS
  <2>4. stream # None => Lined(l) /\ Plain(l) /\ BooksIn(l) = {}
    BY <2>2, <2>3, NoLines
  <2>5. GoOn(Over(t), l, books) /\ loop = "books"
    BY <1>2, <1>9, <2>1, <2>3 DEF TradesArrive
  <2> QED
    BY <1>1, <1>7, <1>9, <2>4, <2>5 DEF TradesArrive
<1>10. ASSUME NEW unauthorized \in BOOLEAN, TradesFail(t, unauthorized) PROVE RecorderInv'
  BY <1>1, <1>2, <1>7, <1>10, NoLines DEF TradesFail
<1> QED
  BY <1>6, <1>8, <1>9, <1>10 DEF TaskStep

-----------------------------------------------------------------------------
(* The wallet trades *)

(* A trade that the feed still delivers was never recorded, or the deduper *)
(* still remembers it: an entry outlives the feed's window by a round.     *)
LEMMA FreshIsNew ==
  ASSUME TimesAssumption, RetentionAssumption, NoneAssumption, RecorderInv, loop = "wallet",
         NEW t \in Feed, Pruned[t] = None
  PROVE  times[t] = 0 /\ seen[t] = None
<1>1. /\ t \in Trades /\ born[t] \in Nat /\ born[t] + Window >= clock
      /\ {clock, t0, Ttl, Window, RoundTime} \subseteq Nat /\ t0 <= clock
      /\ Ttl >= Window + RoundTime
      /\ times[t] \in Nat /\ times[t] <= 1 /\ seen[t] \in Nat \cup {None}
  BY DEF Feed, RecorderInv, RecTypeOK, TimesAssumption, RetentionAssumption, TimesKnown, TradesKnown
<1>2. seen[t] = None \/ (seen[t] \in Nat /\ seen[t] < t0 - Ttl)
  BY <1>1 DEF Pruned
<1>3. /\ seen[t] # None => born[t] <= seen[t] + RoundTime
      /\ times[t] = 1 /\ seen[t] = None => born[t] + Window < clock
  BY <1>1 DEF RecorderInv, TradesKnown
<1>4. seen[t] = None
  BY <1>1, <1>2, <1>3
<1> QED
  BY <1>1, <1>3, <1>4

LEMMA OneMore ==
  ASSUME NEW S, NEW a \in S, NEW b \in S
  PROVE  /\ DOMAIN Append(<<a>>, b) = {1, 2}
         /\ Append(<<a>>, b)[1] = a /\ Append(<<a>>, b)[2] = b
  OBVIOUS

LEMMA TimesGrow ==
  ASSUME RecTypeOK, stream # None, NEW fresh \in SUBSET Trades, NEW n, NEW c,
         NEW l, l = IF fresh = {} THEN <<>> ELSE <<Wallet(fresh)>>,
         Written(Append(l, TickMark(n, c)))
  PROVE  /\ times' \in [Trades -> Nat]
         /\ \A t \in Trades : times'[t] = times[t] + (IF t \in fresh THEN 1 ELSE 0)
<1> DEFINE lines  == Append(l, TickMark(n, c))
           with(t) == {i \in DOMAIN lines : t \in lines[i].trades}
<1>1. times' = [t \in Trades |-> times[t] + Cardinality(with(t))]
  BY DEF Written, Write
<1>2. PICK m : m = TickMark(n, c)
  OBVIOUS
<1>3. PICK w : w = Wallet(fresh)
  OBVIOUS
<1>4. m.trades = {} /\ w.trades = fresh
  BY <1>2, <1>3 DEF TickMark, Wallet, Record
<1>5. CASE fresh = {}
  <2>1. l = <<>> /\ Append(<<>>, m) = <<m>>
    BY <1>5
  <2>2. PICK one : one = <<m>>
    OBVIOUS
  <2>3. lines = one
    BY <1>2, <2>1, <2>2
  <2>4. DOMAIN one = {1} /\ one[1] = m
    BY <2>2
  <2> HIDE DEF lines
  <2>5. \A t \in Trades : with(t) = {}
    BY <1>4, <2>3, <2>4
  <2> HIDE DEF with
  <2>6. \A t \in Trades : Cardinality(with(t)) = 0
    BY <2>5, FS_EmptySet
  <2> QED
    BY <1>1, <1>5, <2>6 DEF RecTypeOK
<1>6. CASE fresh # {}
  <2>1. l = <<w>>
    BY <1>3, <1>6
  <2>2. PICK two : two = Append(<<w>>, m)
    OBVIOUS
  <2>3. lines = two
    BY <1>2, <2>1, <2>2
  <2>4. DOMAIN two = {1, 2} /\ two[1] = w /\ two[2] = m
    <3>1. w \in {w, m} /\ m \in {w, m}
      OBVIOUS
    <3> QED
      BY ONLY <2>2, <3>1, OneMore
  <2> HIDE DEF lines
  <2>5. \A t \in Trades : with(t) = IF t \in fresh THEN {1} ELSE {}
    BY <1>4, <2>3, <2>4
  <2> HIDE DEF with
  <2>6. \A t \in Trades : Cardinality(with(t)) = IF t \in fresh THEN 1 ELSE 0
    BY <2>5, FS_EmptySet, FS_Singleton
  <2> QED
    BY <1>1, <2>6 DEF RecTypeOK
<1> QED
  BY <1>5, <1>6

LEMMA WalletKeeps ==
  ASSUME TimesAssumption, RetentionAssumption, NoneAssumption, RecorderInv,
         WalletFails \/ \E raw \in SUBSET Trades : WalletArrives(raw)
  PROVE  RecorderInv'
<1>1. PICK tracked \in SUBSET Feed, fresh \in SUBSET Trades :
        /\ fresh = {t \in tracked : Pruned[t] = None}
        /\ \/ tracked = {} /\ seen' = seen
           \/ tracked # {} /\ seen' = [t \in Trades |-> IF t \in fresh THEN t0 ELSE Pruned[t]]
        /\ EndRound(IF fresh = {} THEN <<>> ELSE <<Wallet(fresh)>>, books)
        /\ loop = "wallet"
        /\ UNCHANGED <<running, tokens, noAuth, t0, asked, books, worldVars, stop>>
  <2>1. CASE WalletFails
    <3>1. PICK none \in SUBSET Feed : none = {}
      OBVIOUS
    <3>2. none = {t \in none : Pruned[t] = None} /\ none \in SUBSET Trades
      BY <3>1
    <3> QED
      BY <2>1, <3>1, <3>2 DEF WalletFails
  <2>2. ASSUME NEW raw \in SUBSET Trades, WalletArrives(raw)
        PROVE  \E tracked \in SUBSET Feed, fresh \in SUBSET Trades :
                 /\ fresh = {t \in tracked : Pruned[t] = None}
                 /\ \/ tracked = {} /\ seen' = seen
                    \/ /\ tracked # {}
                       /\ seen' = [t \in Trades |-> IF t \in fresh THEN t0 ELSE Pruned[t]]
                 /\ EndRound(IF fresh = {} THEN <<>> ELSE <<Wallet(fresh)>>, books)
                 /\ loop = "wallet"
                 /\ UNCHANGED <<running, tokens, noAuth, t0, asked, books, worldVars, stop>>
    <3>1. PICK tracked : tracked = {t \in raw : Asset(t) \in tokens}
      OBVIOUS
    <3>2. PICK fresh : fresh = {t \in tracked : Pruned[t] = None}
      OBVIOUS
    <3>3. tracked \in SUBSET Feed /\ fresh \in SUBSET Trades
      BY <2>2, <3>1, <3>2 DEF WalletArrives
    <3>4. /\ seen' = Mark(raw, tracked, fresh)
          /\ EndRound(IF fresh = {} THEN <<>> ELSE <<Wallet(fresh)>>, books)
          /\ loop = "wallet"
          /\ UNCHANGED <<running, tokens, noAuth, t0, asked, books, worldVars, stop>>
      BY <2>2, <3>1, <3>2 DEF WalletArrives
    <3> QED
      BY <3>2, <3>3, <3>4 DEF Mark
  <2> QED
    BY <2>1, <2>2
<1>2. /\ RecTypeOK /\ Asking /\ Busy /\ books \in Nat /\ tokens \subseteq Tokens /\ noAuth \in BOOLEAN
      /\ asked \in [Tokens -> {"nothing", "book", "trades"}]
      /\ \A t \in Tokens : asked[t] = "nothing"
      /\ running => stream # None
      /\ stream # None => Counts(Open(log), asked, books, stream)
      /\ Open(log) \in Seq(Records)
  BY <1>1, OpenIs DEF RecorderInv, RecTypeOK, LoopKnown, LogKnown, RoundKnown, Asking, Busy, InRound
<1>3. fresh \in SUBSET Trades /\ Feed \subseteq Trades
  BY <1>1 DEF Feed
<1>4. PICK l : l = IF fresh = {} THEN <<>> ELSE <<Wallet(fresh)>>
  OBVIOUS
<1>5. EndRound(l, books)
  BY <1>1, <1>4
<1>6. stream # None => Lined(l) /\ Counts(Open(log) \o l, asked, books, stream)
  <2>1. PICK r : r = Wallet(fresh)
    OBVIOUS
  <2>2. stream # None => Lined(<<r>>) /\ BooksIn(<<r>>) = {}
    BY <1>2, <1>3, <2>1, OneLine DEF Wallet
  <2>3. stream # None => Lined(l) /\ BooksIn(l) = {}
    BY <1>4, <2>1, <2>2, NoLines
  <2> QED
    BY <1>2, <2>3, CountStays DEF Lined, NoMark
<1>7. /\ LogKnown' /\ log' \in Seq(Records) /\ seq' \in Nat
      /\ loop' \in {"rest", "closing", "over"}
      /\ timer' \in {"null", "armed", "fired"} /\ (timer' = "armed" <=> loop' = "rest")
      /\ stream' \in Nat \cup {None}
  BY <1>1, <1>2, <1>5, <1>6, RoundEnds DEF worldVars
<1>8. /\ times' \in [Trades -> Nat]
      /\ \A t \in Trades :
           times'[t] = times[t] + (IF stream # None /\ t \in fresh THEN 1 ELSE 0)
  <2>1. CASE stream # None
    BY <1>2, <1>3, <1>4, <1>5, <2>1, TimesGrow DEF EndRound
  <2>2. CASE stream = None
    BY <1>2, <1>5, <2>2 DEF EndRound, Written, diskVars, RecTypeOK
  <2> QED
    BY <2>1, <2>2
<1>9. /\ {clock, t0, Ttl, Window, RoundTime} \subseteq Nat /\ t0 <= clock
      /\ clock <= t0 + RoundTime /\ Ttl >= Window + RoundTime
      /\ born \in [Trades -> Nat \cup {None}] /\ seen \in [Trades -> Nat \cup {None}]
      /\ times \in [Trades -> Nat]
      /\ \A t \in Trades : born[t] # None => born[t] <= clock
  BY <1>2 DEF RecorderInv, RecTypeOK, TimesAssumption, RetentionAssumption, TimesKnown
<1>10. Pruned \in [Trades -> Nat \cup {None}] /\ seen' \in [Trades -> Nat \cup {None}]
  BY <1>1, <1>9 DEF Pruned
<1>11. TradesKnown'
  <2> SUFFICES ASSUME NEW t \in Trades
               PROVE  /\ times'[t] <= 1
                      /\ seen'[t] # None => born[t] # None /\ born[t] <= seen'[t] + RoundTime
                      /\ times'[t] = 1 /\ seen'[t] = None => born[t] # None /\ born[t] + Window < clock
                      /\ running /\ seen'[t] # None => times'[t] = 1
    BY <1>1 DEF TradesKnown, worldVars
  <2>1. /\ times[t] <= 1
        /\ seen[t] # None => born[t] # None /\ born[t] <= seen[t] + RoundTime
        /\ times[t] = 1 /\ seen[t] = None => born[t] # None /\ born[t] + Window < clock
        /\ running /\ seen[t] # None => times[t] = 1
    BY DEF RecorderInv, TradesKnown
  <2>2. CASE t \in fresh
    <3>1. t \in Feed /\ Pruned[t] = None /\ tracked # {}
      BY <1>1, <2>2
    <3>2. times[t] = 0 /\ born[t] # None /\ born[t] + Window >= clock
      BY <1>1, <3>1, FreshIsNew DEF Feed
    <3>3. seen'[t] = t0 /\ t0 # None
      BY <1>1, <1>9, <2>2, <3>1 DEF NoneAssumption
    <3>4. times'[t] = IF stream # None THEN 1 ELSE 0
      BY <1>8, <2>2, <3>2
    <3>5. born[t] \in Nat /\ born[t] <= t0 + RoundTime
      BY <1>9, <3>2
    <3> QED
      BY <1>2, <3>2, <3>3, <3>4, <3>5
  <2>3. CASE t \notin fresh
    <3>1. times'[t] = times[t]
      BY <1>8, <1>9, <2>3
    <3>2. CASE seen'[t] = seen[t]
      BY <2>1, <3>1, <3>2
    <3>3. CASE seen'[t] # seen[t]
      <4>1. seen'[t] = Pruned[t]
        BY <1>1, <2>3, <3>3
      <4>2. seen[t] # None /\ seen[t] < t0 - Ttl /\ Pruned[t] = None
        BY <3>3, <4>1 DEF Pruned
      <4>3. born[t] \in Nat /\ born[t] # None /\ seen[t] \in Nat /\ born[t] <= seen[t] + RoundTime
        BY <1>9, <2>1, <4>2
      <4>4. born[t] + Window < clock
        BY <1>9, <4>2, <4>3
      <4> QED
        BY <2>1, <3>1, <4>1, <4>2, <4>3, <4>4
    <3> QED
      BY <3>2, <3>3
  <2> QED
    BY <2>2, <2>3
<1> QED
  BY <1>1, <1>2, <1>7, <1>8, <1>10, <1>11, RestKnown DEF worldVars

-----------------------------------------------------------------------------
(* The beginning of a round *)

LEMMA FilesLater ==
  ASSUME TimesAssumption, RecTypeOK, InFiles(log), log' = log, t0' \in Nat, t0 <= t0'
  PROVE  InFiles(log)'
<1>1. t0 \in Nat /\ \A i \in DOMAIN log : log[i] \in Records
  BY DEF RecTypeOK
<1>2. PICK now : now = Hour(t0')
  OBVIOUS
<1>3. Hour(t0) \in Int /\ Hour(t0) <= now /\ now \in Int
  BY <1>1, <1>2, HourGrows
<1>4. \A i \in DOMAIN log : log[i].file \in Nat /\ log[i].file <= Hour(t0)
  BY <1>1 DEF InFiles, InHour, Records
<1>5. \A i \in DOMAIN log : log[i].file <= now
  BY <1>3, <1>4
<1> QED
  BY <1>2, <1>5 DEF InFiles, InHour, Hour

LEMMA RoundBegins ==
  ASSUME TimesAssumption, NoneAssumption, RecorderInv, loop \in {"starting", "rest", "opening"},
         \/ loop' = "opening" /\ stream' = None /\ UNCHANGED <<asked, books>>
         \/ stream' = Hour(t0') /\ Fetch,
         t0' \in Nat, t0' <= clock, clock <= t0' + RoundTime,
         log' \in Seq(Records), MarksAtEnds(log)', TicksMarkRounds', BooksInFile', InFiles(log)',
         BooksIn(Open(log))' = {}, seq = Number(Open(log))',
         timer' \in {"null", "fired"}, times' = times,
         UNCHANGED <<running, tokens, seq, noAuth, seen, worldVars, stop>>
  PROVE  RecorderInv'
<1>0. PICK file : file = Hour(t0')
  OBVIOUS
<1>1. file \in Nat /\ file # None
  BY <1>0, HourGrows DEF NoneAssumption
<1>2. /\ RecTypeOK /\ LoopKnown /\ TimesKnown /\ TradesKnown
      /\ \A t \in Tokens : asked[t] = "nothing"
  BY DEF RecorderInv, LoopKnown
<1>3. /\ loop' \in {"opening", "refresh", "books"}
      /\ loop' = "opening" => stream' = None
      /\ loop' # "opening" => stream' = file
      /\ loop' = "books" => books' = 0
      /\ loop' # "books" => \A t \in Tokens : asked'[t] = "nothing"
      /\ asked' \in [Tokens -> {"nothing", "book", "trades"}] /\ books' \in Nat
  BY <1>0, <1>2 DEF Fetch, AskFor, RecTypeOK
<1>4. RecTypeOK'
  BY <1>1, <1>2, <1>3 DEF RecTypeOK, InRound, worldVars
<1>5. LoopKnown'
  BY <1>1, <1>3 DEF LoopKnown
<1>6. TimesKnown'
  BY <1>2 DEF TimesKnown, worldVars
<1>7. TradesKnown'
  BY <1>2 DEF TradesKnown, worldVars
<1>8. FilesKnown'
  BY <1>0, <1>3 DEF FilesKnown, Hour
<1>9. RoundKnown'
  <2>1. Counts(Open(log)', asked', 0, file)
    <3>1. PICK o : o = Open(log)'
      OBVIOUS
    <3>2. BooksIn(o) = {}
      BY <3>1 DEF BooksIn
    <3>3. Counts(o, asked', 0, file)
      BY <3>2, FS_EmptySet DEF Counts
    <3> QED
      BY <3>1, <3>3
  <2>2. loop' = "books" => Counts(Open(log)', asked', books', stream')
    BY <1>3, <2>1
  <2> QED
    BY <1>3, <2>2 DEF RoundKnown, Asking, Counts, BooksIn, Number
<1> QED
  BY <1>4, <1>5, <1>6, <1>7, <1>8, <1>9 DEF RecorderInv, LogKnown

LEMMA NextRoundKeeps ==
  ASSUME TimesAssumption, NoneAssumption, RecorderInv, TimerFires \/ Opened
  PROVE  RecorderInv'
<1>1. /\ loop \in {"rest", "opening"} /\ log' = log /\ times' = times
      /\ t0' \in {t0, clock} /\ (t0' = t0 => loop = "opening" \/ t0 = clock)
      /\ timer' = IF loop = "rest" THEN "fired" ELSE timer
      /\ \/ loop' = "opening" /\ stream' = None /\ UNCHANGED <<asked, books>>
         \/ stream' = Hour(t0') /\ Fetch
      /\ UNCHANGED <<running, tokens, seq, noAuth, seen, worldVars, stop>>
  BY DEF TimerFires, Opened, BeginRound, SameHour, diskVars
<1>2. /\ RecTypeOK /\ log \in Seq(Records) /\ t0 \in Nat /\ clock \in Nat /\ t0 <= clock
      /\ RoundTime \in Nat /\ (loop = "opening" => clock <= t0 + RoundTime)
      /\ timer \in {"null", "armed", "fired"} /\ (timer = "armed" <=> loop = "rest")
  BY DEF RecorderInv, RecTypeOK, TimesKnown, TimesAssumption, Busy, InRound, LoopKnown
<1>3. t0' \in Nat /\ t0 <= t0' /\ t0' <= clock /\ clock <= t0' + RoundTime
  <2>1. CASE t0' = clock
    BY <1>2, <2>1
  <2>2. CASE t0' # clock
    <3>1. t0' = t0 /\ loop = "opening"
      BY <1>1, <2>2
    <3> QED
      BY <1>2, <3>1
  <2> QED
    BY <2>1, <2>2
<1>4. MarksAtEnds(log)' /\ TicksMarkRounds' /\ BooksInFile'
  BY <1>1, LogStays DEF RecorderInv
<1>5. InFiles(log)'
  BY <1>1, <1>2, <1>3, FilesLater DEF RecorderInv, LogKnown, FilesKnown
<1>6. BooksIn(Open(log)) = {} /\ seq = Number(Open(log))
  BY <1>1 DEF RecorderInv, LogKnown, RoundKnown
<1>7. BooksIn(Open(log))' = {} /\ seq = Number(Open(log))'
  BY <1>1, <1>6 DEF BooksIn, Number, Open
<1> QED
  BY <1>1, <1>2, <1>3, <1>4, <1>5, <1>7, RoundBegins

LEMMA StartKeeps ==
  ASSUME TimesAssumption, RecorderInv, Start
  PROVE  RecorderInv'
<1>1. /\ loop = "off" /\ running' = TRUE /\ loop' = "starting" /\ t0' = clock
      /\ UNCHANGED <<timer, stream, tokens, seq, noAuth, seen, asked, books, worldVars, stop,
                     log, times>>
  BY DEF Start, diskVars
<1>2. /\ RecTypeOK /\ t0 \in Nat /\ clock \in Nat /\ t0 <= clock /\ RoundTime \in Nat
      /\ log = <<>> /\ seq = 0 /\ \A t \in Trades : seen[t] = None
      /\ (timer = "armed" <=> loop = "rest") /\ \A t \in Tokens : asked[t] = "nothing"
  BY <1>1 DEF RecorderInv, RecTypeOK, TimesKnown, TimesAssumption, LoopKnown
<1>3. RecTypeOK'
  BY <1>1, <1>2 DEF RecTypeOK, worldVars, InRound
<1>4. LoopKnown'
  BY <1>1, <1>2 DEF LoopKnown
<1>5. TimesKnown'
  BY <1>1, <1>2 DEF RecorderInv, TimesKnown, worldVars, RecTypeOK
<1>6. TradesKnown'
  BY <1>1, <1>2 DEF RecorderInv, TradesKnown, worldVars
<1>7. FilesKnown'
  <2>1. InFiles(log)'
    BY <1>1, <1>2, FilesLater DEF RecorderInv, LogKnown, FilesKnown
  <2> QED
    BY <1>1, <2>1, LogStays DEF RecorderInv, FilesKnown, InRound
<1>8. RoundKnown'
  BY <1>1, <1>2 DEF RoundKnown, Asking, Number, Open
<1> QED
  BY <1>1, <1>3, <1>4, <1>5, <1>6, <1>7, <1>8, LogStays DEF RecorderInv, LogKnown

LEMMA StartedKeeps ==
  ASSUME TimesAssumption, NoneAssumption, RecorderInv, Started
  PROVE  RecorderInv'
<1>1. PICK r : r = [Record("session", {}, {}, 0, 0) EXCEPT !.file = Hour(t0)]
  OBVIOUS
<1>2. /\ RecTypeOK /\ t0 \in Nat /\ clock \in Nat /\ t0 <= clock /\ RoundTime \in Nat
      /\ log = <<>> /\ seq = 0 /\ stream \in Nat \cup {None} /\ timer \in {"null", "fired"}
      /\ loop = "starting" /\ \A t \in Tokens : asked[t] = "nothing"
  BY DEF RecorderInv, RecTypeOK, TimesKnown, TimesAssumption, LoopKnown, Started
<1>3. PICK file : file = Hour(t0)
  OBVIOUS
<1>4. file \in Nat /\ file # None
  BY <1>2, <1>3, HourGrows DEF NoneAssumption
<1>5. /\ r \in Records /\ r.type = "session" /\ r.file = Hour(t0) /\ r.t = clock /\ r.trades = {}
  BY <1>1, <1>2, <1>3, <1>4 DEF Record, Records
<1>6. PICK l : l = <<r>>
  OBVIOUS
<1>7. l \in Seq(Records) /\ Len(l) = 1 /\ DOMAIN l = {1} /\ l[1] = r /\ NoMark(l)
  BY <1>5, <1>6 DEF NoMark
<1>8. Write(l)
  BY <1>1, <1>6 DEF Started
<1>9. /\ log' \in Seq(Records) /\ MarksAtEnds(log)' /\ Open(log)' = l /\ log' = l
  <2>1. Open(log) = <<>> /\ MarksAtEnds(log)
    BY <1>2 DEF Open, RecorderInv, LogKnown
  <2>2. <<>> \o l = l
    BY <1>7, ConcatEmptySeq
  <2> QED
    BY <1>2, <1>7, <1>8, <2>1, <2>2, LinesWritten
<1>10. TicksMarkRounds' /\ BooksInFile'
  BY <1>5, <1>7, <1>9, NoClosing
<1>11. InFiles(l)
  <2>1. InHour(r)
    BY <1>2, <1>5, InHourNow DEF RecorderInv, Busy
  <2> QED
    BY <1>3, <1>4, <1>5, <1>7, <2>1 DEF InFiles
<1>12. times' = times
  <2>1. times' = [t \in Trades |-> times[t] + Cardinality({i \in DOMAIN l : t \in l[i].trades})]
    BY <1>8 DEF Write
  <2>2. ASSUME NEW t \in Trades
        PROVE  times[t] + Cardinality({i \in DOMAIN l : t \in l[i].trades}) = times[t]
    <3>1. {i \in DOMAIN l : t \in l[i].trades} = {}
      BY <1>5, <1>7
    <3>2. Cardinality({i \in DOMAIN l : t \in l[i].trades}) = 0
      BY <3>1, FS_EmptySet
    <3> QED
      BY <1>2, <3>2 DEF RecTypeOK
  <2>3. times' = [t \in Trades |-> times[t]]
    BY <2>1, <2>2
  <2> QED
    BY <1>2, <2>3 DEF RecTypeOK
<1>13. BooksIn(Open(log))' = {} /\ Number(Open(log))' = 0
  BY <1>5, <1>7, <1>9 DEF BooksIn, Number
<1>14. UNCHANGED <<running, timer, tokens, seq, noAuth, seen, clock, born, stop>>
  BY DEF Started, worldVars
<1>15. InFiles(log)' <=> \A i \in DOMAIN l : /\ Hour(l[i].t - RoundTime) <= l[i].file
                                             /\ l[i].file <= Hour(l[i].t)
                                             /\ l[i].file <= Hour(t0')
  BY <1>4, <1>3, <1>5, <1>7, <1>9 DEF InFiles, InHour, Hour
<1>16. CASE running
  <2>1. BeginRound(file)
    BY <1>3, <1>16 DEF Started
  <2>2. /\ t0' = clock
        /\ \/ loop' = "opening" /\ stream' = None /\ UNCHANGED <<asked, books>>
           \/ stream' = Hour(t0') /\ Fetch
    BY <2>1 DEF BeginRound, SameHour
  <2>3. InFiles(log)'
    <3>1. t0 \in Int /\ clock \in Int
      BY <1>2
    <3>2. Hour(t0) <= Hour(clock)
      BY ONLY TimesAssumption, <1>2, <3>1, HourGrows
    <3> QED
      BY <1>3, <1>4, <1>5, <1>7, <1>11, <1>15, <2>2, <3>2 DEF InFiles, InHour
  <2> QED
    BY <1>2, <1>9, <1>10, <1>12, <1>13, <1>14, <2>2, <2>3, RoundBegins DEF worldVars
<1>17. CASE ~running
  <2>1. stream' = file /\ loop' = "over" /\ UNCHANGED <<t0, asked, books>>
    BY <1>3, <1>17 DEF Started
  <2>2. InFiles(log)'
    BY <1>11, <1>15, <2>1 DEF InFiles, InHour
  <2>3. RecTypeOK'
    BY <1>2, <1>4, <1>9, <1>12, <1>14, <2>1 DEF RecTypeOK, InRound
  <2>4. LoopKnown'
    BY <1>2, <2>1, <1>14 DEF LoopKnown
  <2>5. TimesKnown'
    BY <1>14, <2>1 DEF RecorderInv, TimesKnown, Busy, InRound
  <2>6. TradesKnown'
    BY <1>12, <1>14 DEF RecorderInv, TradesKnown
  <2>7. FilesKnown'
    BY <1>10, <2>1, <2>2 DEF FilesKnown, InRound
  <2>8. RoundKnown'
    BY <2>1 DEF RoundKnown, Asking
  <2> QED
    BY <1>9, <1>10, <2>3, <2>4, <2>5, <2>6, <2>7, <2>8 DEF RecorderInv, LogKnown
<1> QED
  BY <1>16, <1>17

-----------------------------------------------------------------------------
(* The steps that write nothing *)

LEMMA QuietKeepsLog ==
  ASSUME RecorderInv, UNCHANGED <<log, seq, t0, asked, books>>,
         \/ loop' = loop
         \/ loop' = "over"
         \/ loop' = "closing",
         stream' = stream \/ stream' = None
  PROVE  LogKnown'
<1>1. LogKnown
  BY DEF RecorderInv
<1>2. MarksAtEnds(log)' /\ TicksMarkRounds' /\ BooksInFile'
  BY LogStays, <1>1
<1>3. RoundKnown'
  BY <1>1 DEF LogKnown, RoundKnown, Asking, Counts, BooksIn, Number, Open
<1>4. FilesKnown'
  BY <1>1, <1>2 DEF LogKnown, FilesKnown, InFiles, InHour, Hour, InRound
<1> QED
  BY <1>2, <1>3, <1>4 DEF LogKnown

LEMMA QuietKeeps ==
  ASSUME TimesAssumption, NoneAssumption, RecorderInv,
         \/ Stop \/ Stopped \/ Closed \/ TimePasses
         \/ \E t \in Trades : TradeHappens(t)
         \/ UNCHANGED vars
  PROVE  RecorderInv'
<1> USE DEF RecorderInv
<1>1. RecTypeOK /\ LoopKnown /\ TimesKnown /\ TradesKnown
  OBVIOUS
<1>2. CASE Stop
  <2>1. /\ running' = FALSE /\ UNCHANGED <<tokens, seq, noAuth, seen, t0, asked, books, clock, born,
                                           log, times>>
        /\ \/ /\ stop' = "waiting" /\ UNCHANGED <<timer, stream, loop>>
           \/ /\ stop' = "closing" /\ timer' = "null" /\ stream' = None
              /\ loop' = IF timer = "armed" THEN "over" ELSE loop
    BY <1>2 DEF Stop, worldVars, diskVars
  <2>2. LogKnown'
    BY <2>1, QuietKeepsLog
  <2>3. RecTypeOK'
    BY <1>1, <2>1 DEF RecTypeOK, InRound
  <2>4. LoopKnown'
    BY <1>1, <2>1 DEF LoopKnown
  <2>5. TimesKnown'
    BY <1>1, <2>1 DEF TimesKnown, Busy, InRound
  <2>6. TradesKnown'
    BY <1>1, <2>1 DEF TradesKnown
  <2> QED
    BY <2>2, <2>3, <2>4, <2>5, <2>6
<1>3. CASE Stopped \/ Closed \/ UNCHANGED vars
  <2>1. /\ UNCHANGED <<recorderVars, t0, asked, books, worldVars, diskVars>>
        /\ loop' = loop \/ (loop = "closing" /\ loop' = "over")
        /\ stop' \in {stop, "done"}
    BY <1>3 DEF Stopped, Closed, vars, recorderVars, roundVars, worldVars, diskVars
  <2>2. LogKnown'
    BY <2>1, QuietKeepsLog DEF recorderVars, diskVars
  <2>3. RecTypeOK'
    BY <1>1, <2>1 DEF RecTypeOK, InRound, recorderVars, worldVars, diskVars
  <2>4. LoopKnown'
    BY <1>1, <2>1 DEF LoopKnown, recorderVars, diskVars
  <2>5. TimesKnown'
    BY <1>1, <2>1 DEF TimesKnown, Busy, InRound, worldVars
  <2>6. TradesKnown'
    BY <1>1, <2>1 DEF TradesKnown, recorderVars, worldVars, diskVars
  <2> QED
    BY <2>2, <2>3, <2>4, <2>5, <2>6
<1>4. CASE TimePasses
  <2>1. /\ UNCHANGED <<recorderVars, roundVars, stop, diskVars, born>>
        /\ clock' = clock + 1 /\ (Busy => clock < t0 + RoundTime)
    BY <1>4 DEF TimePasses
  <2>2. LogKnown'
    BY <2>1, QuietKeepsLog DEF recorderVars, roundVars, diskVars
  <2>3. RecTypeOK'
    BY <1>1, <2>1 DEF RecTypeOK, recorderVars, roundVars, diskVars
  <2>4. LoopKnown'
    BY <1>1, <2>1 DEF LoopKnown, recorderVars, roundVars, diskVars
  <2>5. /\ {clock, t0, RoundTime, Window} \subseteq Nat
        /\ \A t \in Trades : born[t] # None => born[t] \in Nat
    BY <1>1 DEF RecTypeOK, TimesAssumption
  <2>6. TimesKnown'
    BY <1>1, <2>1, <2>5 DEF TimesKnown, Busy, roundVars
  <2>7. TradesKnown'
    BY <1>1, <2>1, <2>5 DEF TradesKnown, recorderVars, roundVars, diskVars
  <2> QED
    BY <2>2, <2>3, <2>4, <2>6, <2>7
<1>5. ASSUME NEW t \in Trades, TradeHappens(t) PROVE RecorderInv'
  <2>1. /\ UNCHANGED <<recorderVars, roundVars, stop, diskVars, clock>>
        /\ born[t] = None /\ born' = [born EXCEPT ![t] = clock]
    BY <1>5 DEF TradeHappens
  <2>2. LogKnown'
    BY <2>1, QuietKeepsLog DEF recorderVars, roundVars, diskVars
  <2>3. RecTypeOK'
    BY <1>1, <2>1 DEF RecTypeOK, recorderVars, roundVars, diskVars
  <2>4. LoopKnown'
    BY <1>1, <2>1 DEF LoopKnown, recorderVars, roundVars, diskVars
  <2>5. \A u \in Trades : born'[u] = born[u] \/ (u = t /\ born'[u] = clock)
    BY <1>1, <2>1 DEF RecTypeOK
  <2>6. TimesKnown'
    BY <1>1, <2>1, <2>5 DEF TimesKnown, RecTypeOK, Busy, roundVars
  <2>7. TradesKnown'
    <3>1. seen[t] = None /\ times[t] # 1
      BY <1>1, <2>1 DEF TradesKnown
    <3> QED
      BY <1>1, <2>1, <2>5, <3>1 DEF TradesKnown, recorderVars, roundVars, diskVars
  <2> QED
    BY <2>2, <2>3, <2>4, <2>6, <2>7
<1> QED
  BY <1>2, <1>3, <1>4, <1>5

-----------------------------------------------------------------------------
(* Theorems *)

LEMMA RecorderInit ==
  ASSUME TimesAssumption, NoneAssumption, Init
  PROVE  RecorderInv
<1>1. RecTypeOK
  <2>1. log \in Seq(Records)
    BY DEF Init
  <2>2. /\ asked \in [Tokens -> {"nothing", "book", "trades"}]
        /\ times \in [Trades -> Nat]
        /\ seen \in [Trades -> Nat \cup {None}] /\ born \in [Trades -> Nat \cup {None}]
    BY DEF Init
  <2>3. tokens \subseteq Tokens
    BY DEF Init
  <2> QED
    BY <2>1, <2>2, <2>3 DEF Init, RecTypeOK, InRound
<1>2. LoopKnown /\ TimesKnown /\ TradesKnown
  BY DEF Init, LoopKnown, TimesKnown, TradesKnown, Busy, InRound, TimesAssumption, NoneAssumption
<1>3. log = <<>> /\ Closing = {}
  BY DEF Init, Closing, Lines
<1>4. LogKnown
  BY <1>3 DEF Init, LogKnown, MarksAtEnds, RoundKnown, FilesKnown, InFiles, BooksInFile,
    TicksMarkRounds, InRound, Asking, Number, Open
<1> QED
  BY <1>1, <1>2, <1>4 DEF RecorderInv

LEMMA RecorderNext ==
  ASSUME TimesAssumption, RetentionAssumption, NoneAssumption, RecorderInv, [Next]_vars
  PROVE  RecorderInv'
<1>1. CASE Start
  BY <1>1, StartKeeps
<1>2. CASE LoopStep
  <2>1. CASE Started
    BY <2>1, StartedKeeps
  <2>2. CASE TimerFires \/ Opened
    BY <2>2, NextRoundKeeps
  <2>3. CASE RefreshFails \/ \E tks \in SUBSET Tokens : Refreshed(tks)
    BY <2>3, RefreshKeeps
  <2>4. CASE WalletFails \/ \E raw \in SUBSET Trades : WalletArrives(raw)
    BY <2>4, WalletKeeps
  <2>5. CASE Closed
    BY <2>5, QuietKeeps
  <2> QED
    BY <1>2, <2>1, <2>2, <2>3, <2>4, <2>5 DEF LoopStep
<1>3. ASSUME NEW t \in Tokens, TaskStep(t) PROVE RecorderInv'
  BY <1>3, TaskStepKeeps
<1>4. CASE \/ Stop \/ Stopped \/ TimePasses
           \/ \E t \in Trades : TradeHappens(t)
           \/ UNCHANGED vars
  BY <1>4, QuietKeeps
<1> QED
  BY <1>1, <1>2, <1>3, <1>4 DEF Next

(* Whatever requests fail, whenever stop() is called and however the hours *)
(* turn, the recorder stays in the states the invariant describes          *)
(* (recorder.js start, loop, pollOnce, stop; tradeDedup.js filterNew).     *)
THEOREM RecorderInvariant == Spec => []RecorderInv
<1>1. Init => RecorderInv
  BY TimesAssumption, NoneAssumption, RecorderInit
<1>2. RecorderInv /\ [Next]_vars => RecorderInv'
  BY TimesAssumption, RetentionAssumption, NoneAssumption, RecorderNext
<1> QED
  BY <1>1, <1>2, PTL DEF Spec

(* The recorder's state and the records it has written keep their types.   *)
THEOREM RecorderTypes == Spec => []RecTypeOK
<1>1. RecorderInv => RecTypeOK
  BY DEF RecorderInv
<1> QED
  BY <1>1, RecorderInvariant, PTL

(* Every tick marker that the recorder writes closes a round with as many  *)
(* books as it says, of different tokens, and the markers are numbered     *)
(* without a gap, though the requests for the books run concurrently and   *)
(* stop() may close the file between any two records (recorder.js          *)
(* pollOnce).                                                              *)
THEOREM MarkersCloseRounds == Spec => []TicksMarkRounds
<1>1. RecorderInv => TicksMarkRounds
  BY DEF RecorderInv, LogKnown
<1> QED
  BY <1>1, RecorderInvariant, PTL

(* A record is in the file of its hour or of the hour in which its round   *)
(* began, the files follow each other as the records do, and no round is   *)
(* split between two (recorder.js _ensureStream).                          *)
THEOREM RecordsByHour == Spec => []FilesByHour
<1>1. RecorderInv => FilesByHour
  BY DEF RecorderInv, LogKnown, FilesKnown, FilesByHour, InFiles, InHour, BooksInFile
<1> QED
  BY <1>1, RecorderInvariant, PTL

(* No wallet trade is recorded twice while the deduper's entries outlive   *)
(* the window in which the feed re-delivers it by the length of a round,   *)
(* and none that it remembers was lost (tradeDedup.js filterNew).          *)
THEOREM TradesOnce == Spec => []EachTradeOnce
<1>1. RecorderInv => EachTradeOnce
  BY DEF RecorderInv, TradesKnown, EachTradeOnce
<1> QED
  BY <1>1, RecorderInvariant, PTL

=============================================================================
