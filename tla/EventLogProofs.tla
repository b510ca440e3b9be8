--------------------------- MODULE EventLogProofs ---------------------------
(***************************************************************************)
(* Proofs about the event store: its types, the order and the bound of the *)
(* ring, and the order, the bound and the survival of what is on disk,     *)
(* through logging, rotation, failing system calls, a crash that tears a   *)
(* line, and the replay at the next boot.                                  *)
(***************************************************************************)
EXTENDS EventLog, FiniteSetTheorems, SequenceTheorems, WellFoundedInduction,
        TLAPS

(***************************************************************************)
(* What the ring's order rests on.  Only the tail that a boot would read   *)
(* is ordered: an id may come back behind a tail in which nothing parses.  *)
(***************************************************************************)
FileInOrder(f) ==
  \A i, j \in 1..Len(f) :
    WindowStart(f) < i /\ i < j /\ Parses(f[i]) /\ Parses(f[j])
      => f[i].ev.id < f[j].ev.id

BufInOrder(b) == \A i, j \in 1..Len(b) : i < j => b[i].id < b[j].id

FileBeforeBuf(f, b) ==
  \A i \in 1..Len(f), j \in 1..Len(b) :
    WindowStart(f) < i /\ Parses(f[i]) => f[i].ev.id < b[j].id

InOrder(f, b) == FileInOrder(f) /\ BufInOrder(b) /\ FileBeforeBuf(f, b)

\* The counter is ahead of every id it could collide with.
UpTo(f, b, n) ==
  /\ \A i \in 1..Len(f) : WindowStart(f) < i /\ Parses(f[i]) => f[i].ev.id <= n
  /\ \A j \in 1..Len(b) : b[j].id <= n

(***************************************************************************)
(* Of a sequence of events: its bounds, and R between every two of them.   *)
(***************************************************************************)
SeqBounded(s, n) ==
  /\ Len(s) <= MaxRows
  /\ \A i \in 1..Len(s) : s[i].id <= n

SeqSorted(s, R) == \A i, j \in 1..Len(s) : i < j => <<s[i], s[j]>> \in R

IdOrder == {p \in Event \X Event : p[1].id < p[2].id}

\* What holds of the ids until a boot gives up and they begin again.
IdsGrow ==
  /\ SeqSorted(ring, IdOrder)
  /\ InOrder(file, buf)
  /\ proc # "down" => UpTo(file, buf, nextID)

IInv ==
  /\ TypeOK
  /\ SeqBounded(ring, nextID)
  /\ ~gaveUp => IdsGrow

-----------------------------------------------------------------------------
\* Sequences of lines.

(***************************************************************************)
(* Ids, of events and of the events in lines, are naturals.                *)
(***************************************************************************)
LEMMA IdType ==
  /\ \A e \in Event : e.id \in Nat
  /\ \A l \in Line : l.ev \in Event /\ l.ev.id \in Nat
  BY DEF Event, Line

(***************************************************************************)
(* What Front drops is the last element, and nothing else.                 *)
(***************************************************************************)
LEMMA FrontType ==
  ASSUME NEW S, NEW s \in Seq(S), s # <<>>
  PROVE  /\ Front(s) \in Seq(S)
         /\ Len(Front(s)) = Len(s) - 1
         /\ \A i \in 1..Len(s) - 1 : Front(s)[i] = s[i]
<1>1. Len(s) \in Nat \ {0}
  BY EmptySeq
<1>2. \A i \in 1..Len(s) - 1 : s[i] \in S
  BY <1>1, ElementOfSeq
<1> DEFINE n == Len(s) - 1
<1>3. n \in Nat
  BY <1>1
<1>4. \A i \in 1..n : s[i] \in S
  BY <1>2
<1> HIDE DEF n
<1>5. \A i \in 1..n : SubSeq(s, 1, n)[i] = s[i]
  BY <1>3
<1>6. SubSeq(s, 1, n) \in Seq(S) /\ Len(SubSeq(s, 1, n)) = n
  <2>1. /\ SubSeq(s, 1, n) \in Seq(S)
        /\ Len(SubSeq(s, 1, n)) = IF 1 <= n THEN n - 1 + 1 ELSE 0
    BY <1>3, <1>4, SubSeqProperties
  <2> QED
    BY <1>3, <2>1
<1> QED
  BY <1>5, <1>6 DEF Front, n

(***************************************************************************)
(* Terminated drops at most the last line.                                 *)
(***************************************************************************)
LEMMA TerminatedType ==
  ASSUME NEW f \in Seq(Line)
  PROVE  /\ Terminated(f) \in Seq(Line)
         /\ Len(Terminated(f)) \in Nat
         /\ Len(Terminated(f)) <= Len(f)
         /\ Len(f) <= Len(Terminated(f)) + 1
         /\ \A i \in 1..Len(Terminated(f)) : Terminated(f)[i] = f[i]
<1>1. CASE EndsMidLine(f)
  <2>1. f # <<>>
    BY <1>1 DEF EndsMidLine
  <2>2. /\ Front(f) \in Seq(Line)
        /\ Len(Front(f)) = Len(f) - 1
        /\ \A i \in 1..Len(f) - 1 : Front(f)[i] = f[i]
    BY <2>1, FrontType
  <2>3. Len(f) \in Nat \ {0}
    BY <2>1, EmptySeq
  <2> QED
    BY <1>1, <2>2, <2>3 DEF Terminated
<1>2. CASE ~EndsMidLine(f)
  BY <1>2 DEF Terminated
<1> QED
  BY <1>1, <1>2

(***************************************************************************)
(* Whether what comes next continues a long line is a question of the last *)
(* line.                                                                   *)
(***************************************************************************)
LEMMA InLongLineType ==
  ASSUME NEW f \in Seq(Line)
  PROVE  InLongLine(f) \in BOOLEAN
<1>1. CASE EndsMidLine(f)
  <2>1. f # <<>>
    BY <1>1 DEF EndsMidLine
  <2>2. Len(f) \in 1..Len(f)
    BY <2>1, EmptySeq
  <2>3. Last(f) \in Line
    BY <2>2, ElementOfSeq DEF Last
  <2> QED
    BY <1>1, <2>3 DEF InLongLine, Line
<1>2. CASE ~EndsMidLine(f)
  BY <1>2 DEF InLongLine
<1> QED
  BY <1>1, <1>2

(***************************************************************************)
(* Extend keeps the terminated part and adds one line per event, with that *)
(* event in it.                                                            *)
(***************************************************************************)
LEMMA ExtendType ==
  ASSUME NEW f \in Seq(Line), NEW es \in Seq(Event), es # <<>>
  PROVE  /\ Extend(f, es) \in Seq(Line)
         /\ Len(Extend(f, es)) = Len(Terminated(f)) + Len(es)
         /\ \A i \in 1..Len(Terminated(f)) : Extend(f, es)[i] = f[i]
         /\ \A i \in 1..Len(es) :
               Extend(f, es)[Len(Terminated(f)) + i].ev = es[i]
<1> DEFINE t == Terminated(f)
           new == [i \in 1..Len(es) |->
                     [kind |-> IF i = 1 /\ EndsMidLine(f) THEN "junk" ELSE "whole",
                      long |-> TooLong(es[i]) \/ (i = 1 /\ InLongLine(f)),
                      ev   |-> es[i]]]
<1>1. new \in Seq(Line) /\ Len(new) = Len(es)
  <2>1. \A i \in 1..Len(es) : es[i] \in Event
    BY ElementOfSeq
  <2>2. ASSUME NEW i \in 1..Len(es) PROVE new[i] \in Line
    <3>1. InLongLine(f) \in BOOLEAN
      BY InLongLineType
    <3>2. (TooLong(es[i]) \/ (i = 1 /\ InLongLine(f))) \in BOOLEAN
      BY <3>1 DEF TooLong
    <3> QED
      BY <2>1, <3>2 DEF Line
  <2>3. Len(es) \in Nat
    OBVIOUS
  <2> QED
    BY <2>2, <2>3
<1>2. /\ t \in Seq(Line)
      /\ Len(t) \in Nat
      /\ \A i \in 1..Len(t) : t[i] = f[i]
  BY TerminatedType
<1>3. Extend(f, es) = t \o new
  BY DEF Extend
<1>4. \A i \in 1..Len(es) : new[i].ev = es[i]
  OBVIOUS
<1>5. Len(es) \in Nat
  OBVIOUS
<1> HIDE DEF t, new
<1>6. /\ t \o new \in Seq(Line)
      /\ Len(t \o new) = Len(t) + Len(new)
      /\ \A i \in 1..Len(t) + Len(new) :
           (t \o new)[i] = IF i <= Len(t) THEN t[i] ELSE new[i - Len(t)]
  BY <1>1, <1>2, ConcatProperties
<1>7. \A i \in 1..Len(t) : Extend(f, es)[i] = f[i]
  BY <1>1, <1>2, <1>3, <1>6, <1>5
<1>8. \A i \in 1..Len(es) : Extend(f, es)[Len(t) + i] = new[i]
  BY <1>1, <1>2, <1>3, <1>6, <1>5
<1> QED
  BY <1>1, <1>3, <1>6, <1>4, <1>7, <1>8 DEF t

(***************************************************************************)
(* Tear keeps the terminated part and adds one unterminated line.          *)
(***************************************************************************)
LEMMA TearType ==
  ASSUME NEW f \in Seq(Line), NEW k \in {"part", "bare"}, NEW e \in Event
  PROVE  /\ Tear(f, k, e) \in Seq(Line)
         /\ Len(Tear(f, k, e)) = Len(Terminated(f)) + 1
         /\ \A i \in 1..Len(Terminated(f)) : Tear(f, k, e)[i] = f[i]
         /\ Tear(f, k, e)[Len(Terminated(f)) + 1].ev = e
<1> DEFINE t == Terminated(f)
           l == [kind |-> IF EndsMidLine(f) THEN "part" ELSE k,
                 long |-> (k = "bare" /\ TooLong(e)) \/ InLongLine(f),
                 ev   |-> e]
<1>1. l \in Line /\ l.ev = e
  <2>1. InLongLine(f) \in BOOLEAN
    BY InLongLineType
  <2>2. ((k = "bare" /\ TooLong(e)) \/ InLongLine(f)) \in BOOLEAN
    BY <2>1 DEF TooLong
  <2> QED
    BY <2>2 DEF Line
<1>2. /\ t \in Seq(Line)
      /\ Len(t) \in Nat
      /\ \A i \in 1..Len(t) : t[i] = f[i]
  BY TerminatedType
<1>3. Tear(f, k, e) = Append(t, l)
  BY <1>1, <1>2 DEF Tear
<1> HIDE DEF t, l
<1> QED
  BY <1>1, <1>2, <1>3 DEF t

(***************************************************************************)
(* The window of a boot starts at a position.                              *)
(***************************************************************************)
LEMMA WindowType ==
  ASSUME NEW f \in Seq(Line)
  PROVE  WindowStart(f) \in Nat /\ WindowStart(f) <= Len(f)
  BY EventLogAssumption DEF WindowStart, Budget

(***************************************************************************)
(* The window a boot reads only moves forward as the file grows.           *)
(***************************************************************************)
LEMMA WindowMoves ==
  ASSUME NEW f \in Seq(Line), NEW g \in Seq(Line), Len(f) <= Len(g)
  PROVE  WindowStart(f) <= WindowStart(g)
  BY EventLogAssumption DEF WindowStart, Budget

-----------------------------------------------------------------------------
\* What writing does to the order on disk.

(***************************************************************************)
(* Flushing ordered events behind an ordered file keeps the order.         *)
(***************************************************************************)
LEMMA ExtendInOrder ==
  ASSUME NEW f \in Seq(Line), NEW b \in Seq(Event), InOrder(f, b)
  PROVE  /\ Extend(f, b) \in Seq(Line)
         /\ InOrder(Extend(f, b), <<>>)
         /\ \A n \in Nat : UpTo(f, b, n) => UpTo(Extend(f, b), <<>>, n)
<1>1. CASE b = <<>>
  BY <1>1 DEF Extend, InOrder, FileInOrder, BufInOrder, FileBeforeBuf, UpTo
<1>2. CASE b # <<>>
  <2> DEFINE g == Extend(f, b)
             t == Len(Terminated(f))
  <2>1. /\ g \in Seq(Line)
        /\ Len(g) = t + Len(b)
        /\ \A i \in 1..t : g[i] = f[i]
        /\ \A i \in 1..Len(b) : g[t + i].ev = b[i]
    BY <1>2, ExtendType
  <2>2. t \in Nat /\ t <= Len(f) /\ Len(f) <= t + 1
    BY TerminatedType
  <2>3. Len(b) \in Nat \ {0} /\ Len(f) \in Nat /\ Len(g) \in Nat
    BY <1>2, <2>1, EmptySeq
  <2>4. WindowStart(f) \in Nat /\ WindowStart(g) \in Nat
    BY <2>1, WindowType
  <2>5. WindowStart(f) <= WindowStart(g)
    BY <2>1, <2>2, <2>3, WindowMoves
  <2>6. \A i \in 1..Len(f) : f[i].ev.id \in Nat
    BY IdType, ElementOfSeq
  <2>7. \A i \in 1..Len(b) : b[i].id \in Nat
    BY IdType, ElementOfSeq
  <2> HIDE DEF g, t
  <2>8. \A i \in t + 1..Len(g) : i - t \in 1..Len(b) /\ g[i].ev = b[i - t]
    <3> SUFFICES ASSUME NEW i \in t + 1..Len(g)
                 PROVE  i - t \in 1..Len(b) /\ g[i].ev = b[i - t]
      OBVIOUS
    <3>1. i - t \in 1..Len(b) /\ t + (i - t) = i
      BY <2>1, <2>2, <2>3
    <3> QED
      BY <2>1, <3>1
  <2>9. FileInOrder(g)
    <3> SUFFICES ASSUME NEW i \in 1..Len(g), NEW j \in 1..Len(g),
                        WindowStart(g) < i, i < j, Parses(g[i]), Parses(g[j])
                 PROVE  g[i].ev.id < g[j].ev.id
      BY DEF FileInOrder
    <3>1. CASE j <= t
      <4>1. /\ i \in 1..Len(f) /\ g[i] = f[i] /\ WindowStart(f) < i
            /\ j \in 1..Len(f) /\ g[j] = f[j]
        BY <2>1, <2>2, <2>3, <2>4, <2>5, <3>1
      <4> QED
        BY <4>1 DEF InOrder, FileInOrder
    <3>2. CASE i <= t /\ j > t
      <4>1. g[i] = f[i] /\ i \in 1..Len(f) /\ WindowStart(f) < i
        BY <2>1, <2>2, <2>3, <2>4, <2>5, <3>2
      <4>2. j - t \in 1..Len(b) /\ g[j].ev = b[j - t]
        BY <2>1, <2>2, <2>3, <2>8, <3>2
      <4> QED
        BY <4>1, <4>2 DEF InOrder, FileBeforeBuf
    <3>3. CASE i > t
      <4>1. i - t \in 1..Len(b) /\ g[i].ev = b[i - t]
        BY <2>1, <2>2, <2>3, <2>8, <3>3
      <4>2. j - t \in 1..Len(b) /\ g[j].ev = b[j - t]
        BY <2>1, <2>2, <2>3, <2>8, <3>3
      <4>3. i - t < j - t
        BY <2>2
      <4> QED
        BY <4>1, <4>2, <4>3 DEF InOrder, BufInOrder
    <3> QED
      BY <2>2, <3>1, <3>2, <3>3
  <2>10. ASSUME NEW n \in Nat, UpTo(f, b, n)
         PROVE  UpTo(g, <<>>, n)
    <3> SUFFICES ASSUME NEW i \in 1..Len(g), WindowStart(g) < i, Parses(g[i])
                 PROVE  g[i].ev.id <= n
      BY DEF UpTo
    <3>1. CASE i <= t
      BY <2>1, <2>2, <2>3, <2>4, <2>5, <2>10, <3>1 DEF UpTo
    <3>2. CASE i > t
      <4>1. i - t \in 1..Len(b) /\ g[i].ev = b[i - t]
        BY <2>1, <2>2, <2>3, <2>8, <3>2
      <4> QED
        BY <2>10, <4>1 DEF UpTo
    <3> QED
      BY <2>2, <3>1, <3>2
  <2>11. InOrder(g, <<>>)
    BY <2>9 DEF InOrder, BufInOrder, FileBeforeBuf
  <2> QED
    BY <2>1, <2>10, <2>11 DEF g
<1> QED
  BY <1>1, <1>2

(***************************************************************************)
(* So does leaving the first bytes of the first buffered line.             *)
(***************************************************************************)
LEMMA TearInOrder ==
  ASSUME NEW f \in Seq(Line), NEW b \in Seq(Event), b # <<>>,
         NEW k \in {"part", "bare"}, InOrder(f, b)
  PROVE  /\ Tear(f, k, Head(b)) \in Seq(Line)
         /\ InOrder(Tear(f, k, Head(b)), <<>>)
         /\ \A n \in Nat : UpTo(f, b, n) => UpTo(Tear(f, k, Head(b)), <<>>, n)
<1> DEFINE g == Tear(f, k, Head(b))
           t == Len(Terminated(f))
<1>1. Head(b) \in Event /\ Head(b) = b[1] /\ 1 \in 1..Len(b)
  <2>1. Len(b) \in Nat \ {0}
    BY EmptySeq
  <2> QED
    BY <2>1, HeadTailProperties
<1>2. /\ g \in Seq(Line)
      /\ Len(g) = t + 1
      /\ \A i \in 1..t : g[i] = f[i]
      /\ g[t + 1].ev = b[1]
  <2>1. g[t + 1].ev = Head(b)
    BY <1>1, TearType
  <2> QED
    BY <1>1, <2>1, TearType
<1>3. t \in Nat /\ t <= Len(f) /\ Len(f) <= t + 1 /\ Len(f) \in Nat
  BY TerminatedType
<1>4. WindowStart(f) \in Nat /\ WindowStart(g) \in Nat
  BY <1>2, WindowType
<1>5. WindowStart(f) <= WindowStart(g)
  BY <1>2, <1>3, WindowMoves
<1> HIDE DEF g, t
<1>6. FileInOrder(g)
  <2> SUFFICES ASSUME NEW i \in 1..Len(g), NEW j \in 1..Len(g),
                      WindowStart(g) < i, i < j, Parses(g[i]), Parses(g[j])
               PROVE  g[i].ev.id < g[j].ev.id
    BY DEF FileInOrder
  <2>1. g[i] = f[i] /\ i \in 1..Len(f) /\ WindowStart(f) < i
    BY <1>2, <1>3, <1>4, <1>5
  <2>2. CASE j <= t
    BY <1>2, <1>3, <2>1, <2>2 DEF InOrder, FileInOrder
  <2>3. CASE j = t + 1
    BY <1>1, <1>2, <2>1, <2>3 DEF InOrder, FileBeforeBuf
  <2> QED
    BY <1>2, <1>3, <2>2, <2>3
<1>7. ASSUME NEW n \in Nat, UpTo(f, b, n)
      PROVE  UpTo(g, <<>>, n)
  <2> SUFFICES ASSUME NEW i \in 1..Len(g), WindowStart(g) < i, Parses(g[i])
               PROVE  g[i].ev.id <= n
    BY DEF UpTo
  <2>1. CASE i <= t
    BY <1>2, <1>3, <1>4, <1>5, <1>7, <2>1 DEF UpTo
  <2>2. CASE i = t + 1
    BY <1>1, <1>2, <1>7, <2>2 DEF UpTo
  <2> QED
    BY <1>2, <1>3, <2>1, <2>2
<1>8. InOrder(g, <<>>)
  BY <1>6 DEF InOrder, BufInOrder, FileBeforeBuf
<1> QED
  BY <1>2, <1>7, <1>8 DEF g

(***************************************************************************)
(* A new event goes behind everything that is not beyond the counter.      *)
(***************************************************************************)
LEMMA AppendInOrder ==
  ASSUME NEW f \in Seq(Line), NEW b \in Seq(Event), NEW n \in Nat,
         NEW e \in Event, e.id = n + 1, InOrder(f, b), UpTo(f, b, n)
  PROVE  InOrder(f, Append(b, e)) /\ UpTo(f, Append(b, e), n + 1)
<1>1. /\ Len(Append(b, e)) = Len(b) + 1
      /\ \A i \in 1..Len(b) : Append(b, e)[i] = b[i]
      /\ Append(b, e)[Len(b) + 1] = e
      /\ Len(b) \in Nat
  OBVIOUS
<1>2. \A i \in 1..Len(b) : b[i].id \in Nat
  BY IdType, ElementOfSeq
<1>3. \A i \in 1..Len(f) : f[i].ev.id \in Nat
  BY IdType, ElementOfSeq
<1>4. BufInOrder(Append(b, e))
  <2> SUFFICES ASSUME NEW i \in 1..Len(b) + 1, NEW j \in 1..Len(b) + 1, i < j
               PROVE  Append(b, e)[i].id < Append(b, e)[j].id
    BY <1>1 DEF BufInOrder
  <2>1. i \in 1..Len(b) /\ Append(b, e)[i] = b[i] /\ b[i].id <= n
    BY <1>1 DEF UpTo
  <2>2. CASE j = Len(b) + 1
    BY <1>1, <1>2, <2>1, <2>2
  <2>3. CASE j \in 1..Len(b)
    BY <1>1, <2>1, <2>3 DEF InOrder, BufInOrder
  <2> QED
    BY <1>1, <2>2, <2>3
<1>5. FileBeforeBuf(f, Append(b, e))
  BY <1>1, <1>3 DEF InOrder, FileBeforeBuf, UpTo
<1>6. UpTo(f, Append(b, e), n + 1)
  BY <1>1, <1>2, <1>3 DEF UpTo
<1> QED
  BY <1>4, <1>5, <1>6 DEF InOrder

-----------------------------------------------------------------------------
\* One lemma per way the state changes.

(***************************************************************************)
(* What a dying process, or a failing write, leaves behind is in order.    *)
(***************************************************************************)
LEMMA LeftBehindInOrder ==
  ASSUME TypeOK, InOrder(file, buf)
  PROVE  /\ LeftBehind \in Seq(Line)
         /\ InOrder(LeftBehind, <<>>)
         /\ \A n \in Nat : UpTo(file, buf, n) => UpTo(LeftBehind, <<>>, n)
<1>1. CASE cut = "none"
  BY <1>1 DEF LeftBehind, TypeOK, InOrder, BufInOrder, FileBeforeBuf, UpTo
<1>2. CASE cut # "none"
  <2>1. cut \in {"part", "bare"} /\ buf # <<>>
    BY <1>2 DEF TypeOK, Cuts
  <2>2. file \in Seq(Line) /\ buf \in Seq(Event)
    BY DEF TypeOK
  <2> QED
    BY <1>2, <2>1, <2>2, TearInOrder DEF LeftBehind
<1> QED
  BY <1>1, <1>2

(***************************************************************************)
(* The ring stays typed and bounded when the next id is pushed, and in any *)
(* order in which the new event is behind all others, whether or not the   *)
(* oldest event has to go.                                                 *)
(***************************************************************************)
LEMMA PushKeepsOrder ==
  ASSUME NEW s \in Seq(Event), NEW n \in Nat, NEW e \in Event, e.id = n + 1,
         SeqBounded(s, n)
  PROVE  /\ Push(s, e) \in Seq(Event)
         /\ SeqBounded(Push(s, e), n + 1)
         /\ \A R : /\ SeqSorted(s, R)
                   /\ \A i \in 1..Len(s) : <<s[i], e>> \in R
                   => SeqSorted(Push(s, e), R)
<1>1. ASSUME NEW t \in Seq(Event), SeqBounded(t, n), Len(t) < MaxRows
      PROVE  /\ Append(t, e) \in Seq(Event)
             /\ SeqBounded(Append(t, e), n + 1)
             /\ \A R : /\ SeqSorted(t, R)
                       /\ \A i \in 1..Len(t) : <<t[i], e>> \in R
                       => SeqSorted(Append(t, e), R)
  <2>1. /\ Append(t, e) \in Seq(Event)
        /\ Len(Append(t, e)) = Len(t) + 1
        /\ \A i \in 1..Len(t) : Append(t, e)[i] = t[i]
        /\ Append(t, e)[Len(t) + 1] = e
        /\ Len(t) \in Nat
    OBVIOUS
  <2>2. \A i \in 1..Len(t) : t[i].id \in Nat
    BY IdType, ElementOfSeq
  <2>3. Len(t) + 1 <= MaxRows
    BY <1>1, <2>1, EventLogAssumption
  <2>4. \A i \in 1..Len(t) + 1 : Append(t, e)[i].id <= n + 1
    BY <1>1, <2>1, <2>2 DEF SeqBounded
  <2>5. ASSUME NEW R, SeqSorted(t, R), \A i \in 1..Len(t) : <<t[i], e>> \in R,
               NEW i \in 1..Len(t) + 1, NEW j \in 1..Len(t) + 1, i < j
        PROVE  <<Append(t, e)[i], Append(t, e)[j]>> \in R
    <3>1. i \in 1..Len(t) /\ Append(t, e)[i] = t[i]
      BY <2>1, <2>5
    <3>2. CASE j = Len(t) + 1
      BY <2>1, <2>5, <3>1, <3>2
    <3>3. CASE j \in 1..Len(t)
      BY <2>1, <2>5, <3>1, <3>3 DEF SeqSorted
    <3>4. j = Len(t) + 1 \/ j \in 1..Len(t)
      BY <2>1
    <3> QED
      BY <3>2, <3>3, <3>4
  <2> QED
    BY <2>1, <2>3, <2>4, <2>5 DEF SeqBounded, SeqSorted
<1>2. CASE Len(s) < MaxRows
  BY <1>1, <1>2 DEF Push
<1>3. CASE ~(Len(s) < MaxRows)
  <2>1. s # <<>> /\ Len(s) \in Nat
    BY <1>3, EventLogAssumption
  <2> DEFINE t == Tail(s)
  <2>2. /\ t \in Seq(Event)
        /\ Len(t) = Len(s) - 1
        /\ \A i \in 1..Len(t) : t[i] = s[i + 1]
    BY <2>1, HeadTailProperties
  <2>3. Push(s, e) = Append(t, e)
    BY <1>3 DEF Push
  <2> HIDE DEF t
  <2>4. Len(t) < MaxRows
    BY <2>1, <2>2, EventLogAssumption DEF SeqBounded
  <2>5. \A i \in 1..Len(t) : i + 1 \in 1..Len(s)
    BY <2>1, <2>2
  <2>6. SeqBounded(t, n)
    BY <2>1, <2>2, <2>4, <2>5, EventLogAssumption DEF SeqBounded
  <2>7. ASSUME NEW R, SeqSorted(s, R), \A i \in 1..Len(s) : <<s[i], e>> \in R
        PROVE  SeqSorted(t, R) /\ \A i \in 1..Len(t) : <<t[i], e>> \in R
    <3>1. ASSUME NEW i \in 1..Len(t), NEW j \in 1..Len(t), i < j
          PROVE  <<t[i], t[j]>> \in R
      <4>1. i + 1 < j + 1
        BY <2>2, <3>1
      <4> QED
        BY <2>2, <2>5, <2>7, <4>1 DEF SeqSorted
    <3> QED
      BY <2>2, <2>5, <2>7, <3>1 DEF SeqSorted
  <2> QED
    BY <1>1, <2>2, <2>3, <2>4, <2>6, <2>7
<1> QED
  BY <1>2, <1>3

(***************************************************************************)
(* Of any naturals one is least.                                           *)
(***************************************************************************)
LEMMA LeastNatural ==
  ASSUME NEW T \in SUBSET Nat, T # {}
  PROVE  \E x \in T : \A y \in T : x <= y
<1> DEFINE R == OpToRel(<, Nat)
<1>1. IsWellFoundedOn(R, Nat)
  BY NatLessThanWellFounded, Zenon
<1>2. \A x, y \in Nat : y < x => <<y, x>> \in R
  BY DEF OpToRel
<1> HIDE DEF R
<1>3. PICK x \in T : \A y \in T : ~ (<<y, x>> \in R)
  BY <1>1, WFMin
<1>4. ASSUME NEW y \in T PROVE x <= y
  <2>1. x \in Nat /\ y \in Nat
    OBVIOUS
  <2>2. ~ (y < x)
    BY <2>1, <1>2, <1>3
  <2> QED
    BY <2>1, <2>2
<1> QED
  BY <1>4

(***************************************************************************)
(* The highest id of a sequence of events is as high as any id in it.      *)
(* There is one: the shortest beginning without a highest would have one,  *)
(* its last id or the highest before it.                                   *)
(***************************************************************************)
LEMMA HighestIsHighest ==
  ASSUME NEW s \in Seq(Event)
  PROVE  /\ HighestId(s) \in Nat
         /\ \A i \in 1..Len(s) : s[i].id <= HighestId(s)
<1> DEFINE ids == {0} \cup {s[i].id : i \in DOMAIN s}
           Tops(k) == {m \in ids : \A i \in 1..k : s[i].id <= m}
           T == {k \in 0..Len(s) : Tops(k) = {}}
<1>1. Len(s) \in Nat /\ DOMAIN s = 1..Len(s)
  OBVIOUS
<1>2. \A i \in 1..Len(s) : s[i].id \in Nat
  BY IdType, ElementOfSeq
<1>3. ids \subseteq Nat /\ 0 \in ids /\ \A i \in 1..Len(s) : s[i].id \in ids
  BY <1>1, <1>2
<1> HIDE DEF ids
<1>4. T = {}
  <2> SUFFICES ASSUME T # {} PROVE FALSE
    OBVIOUS
  <2>1. T \in SUBSET Nat
    BY <1>1
  <2>2. PICK k \in T : \A y \in T : k <= y
    BY <2>1, LeastNatural
  <2>3. k # 0
    <3>1. 0 \in Tops(0)
      BY <1>3
    <3> QED
      BY <3>1
  <2>4. k - 1 \in 0..Len(s) /\ k \in 1..Len(s) /\ ~(k <= k - 1)
    BY <1>1, <2>3
  <2>5. PICK m \in ids : \A i \in 1..k - 1 : s[i].id <= m
    BY <2>2, <2>4
  <2>6. s[k].id \in ids /\ s[k].id \in Nat /\ m \in Nat
    BY <1>2, <1>3, <2>4
  <2>7. \A i \in 1..k : i \in 1..k - 1 \/ i = k
    BY <2>4
  <2>8. \A i \in 1..k - 1 : s[i].id \in Nat
    BY <1>1, <1>2, <2>4
  <2>9. CASE m <= s[k].id
    <3>1. s[k].id \in Tops(k)
      BY <2>5, <2>6, <2>7, <2>8, <2>9
    <3> QED
      BY <3>1
  <2>10. CASE ~(m <= s[k].id)
    <3>1. m \in Tops(k)
      BY <2>5, <2>6, <2>7, <2>10
    <3> QED
      BY <3>1
  <2> QED
    BY <2>9, <2>10
<1>5. PICK m \in ids : \A i \in 1..Len(s) : s[i].id <= m
  <2>1. Len(s) \in 0..Len(s)
    BY <1>1
  <2>2. Tops(Len(s)) # {}
    BY <1>4, <2>1
  <2> QED
    BY <2>2
<1>6. \A y \in ids : m >= y
  <2>1. \A i \in 1..Len(s) : m >= s[i].id
    BY <1>2, <1>3, <1>5
  <2>2. m >= 0
    BY <1>3
  <2> QED
    BY <1>1, <2>1, <2>2 DEF ids
<1>7. HighestId(s) = CHOOSE x \in ids : \A y \in ids : x >= y
  BY DEF HighestId, Max, ids
<1>8. HighestId(s) \in ids /\ \A y \in ids : HighestId(s) >= y
  BY <1>6, <1>7
<1> QED
  BY <1>3, <1>8

(***************************************************************************)
(* Rotation moves a file aside or leaves it.                               *)
(***************************************************************************)
LEMMA RotateType ==
  ASSUME NEW f \in Seq(Line), NEW size \in Nat, faults \in 0..MaxFaults,
         Rotate(f, size)
  PROVE  /\ file' \in {f, <<>>} /\ prev' \in {f, <<>>} /\ fileBytes' \in Nat
         /\ writer' \in WriterStates /\ faults' \in 0..MaxFaults
         /\ buf' = <<>> /\ cut' = "none"
<1>1. file' \in {f, <<>>} /\ prev' \in {f, <<>>}
  BY DEF Rotate, Renamed, NothingToRename, RenameFails
<1>2. buf' = <<>> /\ cut' = "none"
  BY DEF Rotate
<1>3. faults' \in 0..MaxFaults
  BY EventLogAssumption DEF Rotate, Failing
<1>4. writer' \in WriterStates /\ fileBytes' \in Nat
  BY DEF Rotate, Reopened, ReopenFails, WriterStates
<1> QED
  BY <1>1, <1>2, <1>3, <1>4

EmptyInOrder ==
  InOrder(<<>>, <<>>) /\ \A n \in Nat : UpTo(<<>>, <<>>, n)

(***************************************************************************)
(* An empty file with nothing behind it is in order, up to any number.     *)
(***************************************************************************)
LEMMA EmptyIsInOrder == EmptyInOrder
  BY DEF EmptyInOrder, InOrder, FileInOrder, BufInOrder, FileBeforeBuf, UpTo

(***************************************************************************)
(* The counter only has to be ahead: one more is ahead as well.            *)
(***************************************************************************)
LEMMA UpToMore ==
  ASSUME NEW f \in Seq(Line), NEW b \in Seq(Event), NEW n \in Nat, UpTo(f, b, n)
  PROVE  UpTo(f, b, n + 1)
<1>1. \A i \in 1..Len(f) : f[i].ev.id \in Nat
  BY IdType, ElementOfSeq
<1>2. \A i \in 1..Len(b) : b[i].id \in Nat
  BY IdType, ElementOfSeq
<1> QED
  BY <1>1, <1>2 DEF UpTo

(***************************************************************************)
(* Log's write keeps the types.                                            *)
(***************************************************************************)
LEMMA WriteLineType ==
  ASSUME TypeOK, NEW e \in Event, WriteLine(e)
  PROVE  /\ file' \in Seq(Line) /\ prev' \in Seq(Line) /\ fileBytes' \in Nat
         /\ writer' \in WriterStates /\ faults' \in 0..MaxFaults
         /\ buf' \in Seq(Event) /\ cut' \in Cuts
         /\ cut' # "none" => buf' # <<>>
         /\ writer' # "open" => buf' = <<>>
<1> USE DEF TypeOK
<1>1. /\ Append(buf, e) \in Seq(Event) /\ <<e>> \in Seq(Event) /\ <<e>> # <<>>
      /\ Append(buf, e) # <<>> /\ <<>> \in Seq(Line) /\ <<>> \in Seq(Event)
  OBVIOUS
<1>2. Extend(file, buf) \in Seq(Line) /\ Flushed(e) \in Seq(Line)
  <2>1. buf # <<>> => Extend(file, buf) \in Seq(Line)
    BY ExtendType
  <2>2. Flushed(e) \in Seq(Line)
    BY <1>1, ExtendType DEF Flushed
  <2> QED
    BY <2>1, <2>2 DEF Extend
<1>3. CASE writer = "open" /\ BufferLine(e)
  <2>1. UNCHANGED <<prev, writer, faults>> /\ fileBytes' \in Nat
    BY <1>3 DEF BufferLine
  <2>2. CASE buf' = Append(buf, e) /\ UNCHANGED <<file, cut>>
    BY <1>1, <1>3, <2>1, <2>2
  <2>3. CASE file' = Extend(file, buf) /\ buf' = <<e>> /\ cut' \in Overflows(e)
    <3>1. cut' \in Cuts
      BY <2>3 DEF Cuts, Overflows
    <3> QED
      BY <1>1, <1>2, <1>3, <2>1, <2>3, <3>1
  <2> QED
    BY <1>3, <2>2, <2>3 DEF BufferLine
<1>4. CASE Rotate(Flushed(e), fileBytes + 1)
  <2>1. fileBytes + 1 \in Nat
    OBVIOUS
  <2> QED
    BY <1>1, <1>2, <1>4, <2>1, RotateType DEF Cuts
<1>5. CASE Rotate(file, fileBytes)
  BY <1>1, <1>5, RotateType DEF Cuts
<1>6. CASE /\ writer \in {"stuck", "drained"}
           /\ UNCHANGED <<buf, cut, file, prev, fileBytes, writer, faults>>
  BY <1>6
<1> QED
  BY <1>3, <1>4, <1>5, <1>6 DEF WriteLine

(***************************************************************************)
(* Log's write, with a new id in front of the counter.                     *)
(***************************************************************************)
LEMMA WriteLineInOrder ==
  ASSUME TypeOK, InOrder(file, buf), UpTo(file, buf, nextID),
         NEW e \in Event, e.id = nextID + 1, WriteLine(e)
  PROVE  InOrder(file', buf') /\ UpTo(file', buf', nextID + 1)
<1> USE DEF TypeOK
<1>1. /\ nextID \in Nat /\ nextID + 1 \in Nat /\ faults \in 0..MaxFaults
      /\ file \in Seq(Line) /\ buf \in Seq(Event)
      /\ fileBytes \in Nat /\ fileBytes + 1 \in Nat
  OBVIOUS
<1>2. /\ Append(buf, e) \in Seq(Event)
      /\ InOrder(file, Append(buf, e))
      /\ UpTo(file, Append(buf, e), nextID + 1)
  BY <1>1, AppendInOrder
<1>3. UpTo(file, buf, nextID + 1)
  BY <1>1, UpToMore
<1>4. CASE BufferLine(e)
  <2>1. CASE buf' = Append(buf, e) /\ UNCHANGED <<file, cut>>
    BY <1>2, <2>1
  <2>2. CASE file' = Extend(file, buf) /\ buf' = <<e>>
    <3>1. /\ file' \in Seq(Line)
          /\ InOrder(file', <<>>)
          /\ UpTo(file', <<>>, nextID)
      BY <1>1, <2>2, ExtendInOrder
    <3>2. <<>> \in Seq(Event) /\ Append(<<>>, e) = <<e>>
      OBVIOUS
    <3>3. InOrder(file', <<e>>) /\ UpTo(file', <<e>>, nextID + 1)
      BY <1>1, <3>1, <3>2, AppendInOrder
    <3> QED
      BY <2>2, <3>3
  <2> QED
    BY <1>4, <2>1, <2>2 DEF BufferLine
<1>5. CASE Rotate(Flushed(e), fileBytes + 1)
  <2>1. /\ Flushed(e) \in Seq(Line)
        /\ InOrder(Flushed(e), <<>>)
        /\ UpTo(Flushed(e), <<>>, nextID + 1)
    BY <1>1, <1>2, ExtendInOrder DEF Flushed
  <2>2. buf' = <<>> /\ file' \in {Flushed(e), <<>>}
    BY <1>1, <1>5, <2>1, RotateType
  <2> QED
    BY <1>1, <2>1, <2>2, EmptyIsInOrder DEF EmptyInOrder
<1>6. CASE writer \in {"closed", "gone"} /\ Rotate(file, fileBytes)
  <2>1. buf = <<>>
    BY <1>6
  <2>2. buf' = <<>> /\ file' \in {file, <<>>}
    BY <1>1, <1>6, RotateType
  <2> QED
    BY <1>1, <1>3, <2>1, <2>2, EmptyIsInOrder DEF EmptyInOrder
<1>7. CASE UNCHANGED <<buf, cut, file, prev, fileBytes, writer, faults>>
  BY <1>3, <1>7
<1> QED
  BY <1>4, <1>5, <1>6, <1>7 DEF WriteLine

(***************************************************************************)
(* A kill in the middle of a Log leaves a file with as much of the buffer  *)
(* and the new event as was written, where it is or moved aside, in order  *)
(* if what went into it was.                                               *)
(***************************************************************************)
LEMMA KilledInOrder ==
  ASSUME TypeOK, NEW b \in Body, KilledInLog(b)
  PROVE  \E f \in Seq(Line) :
           /\ HalfRotated(f)
           /\ InOrder(file, buf) /\ UpTo(file, buf, nextID) => InOrder(f, <<>>)
<1> DEFINE e == Stored(b)
<1>1. /\ nextID \in Nat /\ nextID + 1 \in Nat /\ run \in 1..MaxRuns
      /\ file \in Seq(Line) /\ buf \in Seq(Event)
      /\ writer # "open" => buf = <<>>
  BY DEF TypeOK
<1>2. e \in Event /\ e.id = nextID + 1
  BY <1>1 DEF Event, Stored
<1>3. \/ file' \in HalfWritten(e) /\ prev' = prev
      \/ HalfRotated(Flushed(e))
      \/ writer \in {"closed", "gone"} /\ HalfRotated(file)
  BY DEF KilledInLog
<1> HIDE DEF e
<1>4. /\ Append(buf, e) \in Seq(Event) /\ Append(buf, e) # <<>>
      /\ <<e>> \in Seq(Event) /\ <<e>> # <<>> /\ Head(<<e>>) = e
      /\ <<>> \in Seq(Event) /\ Append(<<>>, e) = <<e>>
  BY <1>1, <1>2
<1> DEFINE Ordered == InOrder(file, buf) /\ UpTo(file, buf, nextID)
<1>5. CASE file' = LeftBehind /\ prev' = prev
  <2>1. LeftBehind \in Seq(Line)
    <3>1. cut # "none" => cut \in {"part", "bare"} /\ buf # <<>>
      BY DEF TypeOK, Cuts
    <3>2. buf # <<>> => Head(buf) \in Event
      BY <1>1, HeadTailProperties
    <3> QED
      BY <1>1, <3>1, <3>2, TearType DEF LeftBehind
  <2>2. InOrder(file, buf) => InOrder(LeftBehind, <<>>)
    BY LeftBehindInOrder
  <2> QED
    BY <1>5, <2>1, <2>2 DEF HalfRotated
<1>6. ASSUME NEW k \in {"part", "bare"}, file' = Tear(Extend(file, buf), k, e),
             prev' = prev
      PROVE  \E f \in Seq(Line) :
               /\ HalfRotated(f)
               /\ Ordered => InOrder(f, <<>>)
  <2> DEFINE g == Extend(file, buf)
  <2>1. g \in Seq(Line)
    <3>1. buf # <<>> => g \in Seq(Line)
      BY <1>1, ExtendType
    <3> QED
      BY <1>1, <3>1 DEF Extend
  <2>2. Ordered => InOrder(g, <<e>>)
    <3>1. Ordered => InOrder(g, <<>>) /\ UpTo(g, <<>>, nextID)
      BY <1>1, ExtendInOrder
    <3> HIDE DEF g
    <3> QED
      BY <1>1, <1>2, <1>4, <2>1, <3>1, AppendInOrder
  <2> HIDE DEF g
  <2>3. Tear(g, k, e) \in Seq(Line)
    BY <1>2, <2>1, TearType
  <2>4. InOrder(g, <<e>>) => InOrder(Tear(g, k, e), <<>>)
    BY <1>4, <2>1, TearInOrder
  <2> QED
    BY <1>6, <2>2, <2>3, <2>4 DEF HalfRotated, g
<1>7. CASE HalfRotated(Flushed(e))
  <2>1. Flushed(e) \in Seq(Line)
    BY <1>1, <1>4, ExtendType DEF Flushed
  <2>2. Ordered => InOrder(file, Append(buf, e))
    BY <1>1, <1>2, AppendInOrder
  <2>3. Ordered => InOrder(Flushed(e), <<>>)
    BY <1>1, <1>4, <2>2, ExtendInOrder DEF Flushed
  <2> QED
    BY <1>7, <2>1, <2>3 DEF HalfRotated
<1>8. CASE writer \in {"closed", "gone"} /\ HalfRotated(file)
  <2>1. buf = <<>>
    BY <1>1, <1>8
  <2> QED
    BY <1>1, <1>8, <2>1 DEF HalfRotated
<1> QED
  BY <1>3, <1>5, <1>6, <1>7, <1>8 DEF HalfWritten

(***************************************************************************)
(* Replay: the ring gets events, bounded by the new counter.               *)
(***************************************************************************)
LEMMA ReadTailAt ==
  ASSUME NEW f \in Seq(Line), ReadTail(f)
  PROVE  \E n \in Nat : \E at \in [1..n -> Replayable(f)] :
           /\ n <= MaxRows
           /\ n = 0 => Replayable(f) = {}
           /\ \A i, j \in 1..n : i < j => at[i] < at[j]
           /\ \A p \in Replayable(f) :
                (\A i \in 1..n : at[i] # p) => \A i \in 1..n : p < at[i]
           /\ ring' = [i \in 1..n |-> f[at[i]].ev]
           /\ ring' \in Seq(Event) /\ Len(ring') = n
<1> DEFINE P == Replayable(f)
           n == IF Cardinality(P) < MaxRows THEN Cardinality(P) ELSE MaxRows
<1>1. P \subseteq 1..Len(f) /\ IsFiniteSet(P) /\ Cardinality(P) \in Nat
  <2>1. P \subseteq 1..Len(f)
    BY DEF Replayable, Window
  <2>2. Len(f) \in Nat
    OBVIOUS
  <2>3. IsFiniteSet(1..Len(f))
    BY <2>2, FS_Interval
  <2> QED
    BY <2>1, <2>3, FS_Subset, FS_CardinalityType
<1>2. n \in Nat /\ n <= MaxRows /\ (n = 0 => P = {})
  BY <1>1, FS_EmptySet, EventLogAssumption
<1>3. PICK at \in [1..n -> P] :
        /\ \A i, j \in 1..n : i < j => at[i] < at[j]
        /\ \A p \in P : (\A i \in 1..n : at[i] # p) => \A i \in 1..n : p < at[i]
        /\ ring' = [i \in 1..n |-> f[at[i]].ev]
  BY DEF ReadTail
<1> HIDE DEF P, n
<1>4. \A i \in 1..n : f[at[i]] \in Line
  BY <1>1, <1>3, ElementOfSeq
<1>5. \A i \in 1..n : f[at[i]].ev \in Event
  BY <1>4, IdType
<1>6. ring' \in Seq(Event) /\ Len(ring') = n
  BY <1>2, <1>3, <1>5
<1> QED
  BY <1>2, <1>3, <1>6 DEF P

(***************************************************************************)
(* Whatever a boot reads, the ring stays bounded, by the counter as well.  *)
(***************************************************************************)
LEMMA ReplayBounded ==
  ASSUME NEW f \in Seq(Line), Replay(f), nextID' = HighestId(ring')
  PROVE  /\ ring' \in Seq(Event) /\ nextID' \in Nat
         /\ SeqBounded(ring', nextID')
<1>1. ring' \in Seq(Event) /\ Len(ring') <= MaxRows
  <2>1. CASE ring' = <<>>
    BY <2>1, EventLogAssumption
  <2>2. CASE ReadTail(f)
    BY <2>2, ReadTailAt
  <2> QED
    BY <2>1, <2>2 DEF Replay
<1>2. nextID' \in Nat /\ \A i \in 1..Len(ring') : ring'[i].id <= nextID'
  BY <1>1, HighestIsHighest
<1> QED
  BY <1>1, <1>2 DEF SeqBounded

(***************************************************************************)
(* The ring gets the newest events of an ordered tail, and the counter is  *)
(* at least every id in that tail.                                         *)
(***************************************************************************)
LEMMA ReplayInOrder ==
  ASSUME NEW f \in Seq(Line), InOrder(f, <<>>), ReadTail(f),
         nextID' = HighestId(ring')
  PROVE  SeqSorted(ring', IdOrder) /\ UpTo(f, <<>>, nextID')
<1> DEFINE P == Replayable(f)
<1>0. PICK n \in Nat : \E at \in [1..n -> P] :
        /\ n = 0 => P = {}
        /\ \A i, j \in 1..n : i < j => at[i] < at[j]
        /\ \A p \in P : (\A i \in 1..n : at[i] # p) => \A i \in 1..n : p < at[i]
        /\ ring' = [i \in 1..n |-> f[at[i]].ev]
        /\ ring' \in Seq(Event) /\ Len(ring') = n
  BY ReadTailAt
<1>1. PICK at \in [1..n -> P] :
        /\ n = 0 => P = {}
        /\ \A i, j \in 1..n : i < j => at[i] < at[j]
        /\ \A p \in P : (\A i \in 1..n : at[i] # p) => \A i \in 1..n : p < at[i]
        /\ ring' = [i \in 1..n |-> f[at[i]].ev]
        /\ ring' \in Seq(Event) /\ Len(ring') = n
  BY <1>0
<1>2. P \subseteq 1..Len(f)
  BY DEF Replayable, Window
<1>3. \A p \in P : p \in 1..Len(f) /\ WindowStart(f) < p /\ Parses(f[p])
  BY DEF Replayable, Window
<1>4. \A p \in 1..Len(f) : WindowStart(f) < p /\ Parses(f[p]) => p \in P
  BY DEF Replayable, Window
<1> HIDE DEF P
<1>5. \A i \in 1..n : ring'[i] = f[at[i]].ev /\ ring'[i] \in Event
  BY <1>1, ElementOfSeq
<1>6. \A i, j \in 1..n : i < j => ring'[i].id < ring'[j].id
  BY <1>1, <1>3, <1>5 DEF InOrder, FileInOrder
<1>7. SeqSorted(ring', IdOrder)
  BY <1>1, <1>5, <1>6 DEF SeqSorted, IdOrder
<1>8. nextID' \in Nat /\ \A i \in 1..n : ring'[i].id <= nextID' /\ ring'[i].id \in Nat
  BY <1>1, <1>5, IdType, HighestIsHighest
<1>9. ASSUME NEW p \in 1..Len(f), WindowStart(f) < p, Parses(f[p])
      PROVE  f[p].ev.id <= nextID'
  <2>1. p \in P /\ n \in 1..n
    BY <1>1, <1>4, <1>9
  <2>2. CASE \E i \in 1..n : at[i] = p
    BY <1>5, <1>8, <2>2
  <2>3. CASE \A i \in 1..n : at[i] # p
    <3>1. p < at[n] /\ at[n] \in P
      BY <1>1, <2>1, <2>3
    <3>2. f[p].ev.id < f[at[n]].ev.id
      BY <1>3, <1>9, <2>1, <3>1 DEF InOrder, FileInOrder
    <3>3. f[p].ev.id \in Nat
      BY IdType, ElementOfSeq
    <3> QED
      BY <1>5, <1>8, <2>1, <3>2, <3>3
  <2> QED
    BY <2>2, <2>3
<1>10. UpTo(f, <<>>, nextID')
  <2>1. \A j \in 1..Len(<<>>) : <<>>[j].id <= nextID'
    OBVIOUS
  <2> QED
    BY <1>9, <2>1 DEF UpTo
<1> QED
  BY <1>7, <1>10

-----------------------------------------------------------------------------
(***************************************************************************)
(* The inductive invariant holds over an empty data directory.             *)
(***************************************************************************)
LEMMA InitIInv == Init => IInv
<1> SUFFICES ASSUME Init PROVE IInv
  OBVIOUS
<1>1. TypeOK
  <2>1. halted \in Nat /\ faults \in 0..MaxFaults /\ run \in 1..MaxRuns
    BY EventLogAssumption DEF Init
  <2>2. gaveUp \in BOOLEAN
    BY Zenon DEF Init
  <2> QED
    BY <2>1, <2>2 DEF Init, TypeOK, Cuts, WriterStates
<1>2. SeqBounded(ring, nextID) /\ SeqSorted(ring, IdOrder)
  BY EventLogAssumption DEF Init, SeqBounded, SeqSorted
<1>3. InOrder(file, buf) /\ UpTo(file, buf, nextID)
  BY EmptyIsInOrder DEF Init, EmptyInOrder
<1> QED
  BY <1>1, <1>2, <1>3 DEF IInv, IdsGrow

(***************************************************************************)
(* The new event against the ring: its id is ahead of all, and pushing it  *)
(* keeps the ring typed, bounded and, while ids grow, in their order.      *)
(***************************************************************************)
LEMMA PushStored ==
  ASSUME IInv, NEW b \in Body, ring' = Push(ring, Stored(b)), nextID' = nextID + 1
  PROVE  /\ Stored(b) \in Event /\ Stored(b).id = nextID + 1
         /\ Stored(b).run = run
         /\ ring' \in Seq(Event) /\ nextID' \in Nat
         /\ SeqBounded(ring', nextID')
         /\ ~gaveUp => SeqSorted(ring', IdOrder)
<1>1. /\ ring \in Seq(Event) /\ nextID \in Nat /\ run \in 1..MaxRuns
      /\ SeqBounded(ring, nextID)
      /\ ~gaveUp => SeqSorted(ring, IdOrder)
  BY DEF IInv, TypeOK, IdsGrow
<1> DEFINE e == Stored(b)
<1>2. e \in Event /\ e.id = nextID + 1 /\ e.run = run
  BY <1>1 DEF Event, Stored
<1> HIDE DEF e
<1>3. \A i \in 1..Len(ring) : <<ring[i], e>> \in IdOrder
  <2>1. \A i \in 1..Len(ring) : ring[i] \in Event /\ ring[i].id \in Nat
    BY <1>1, IdType, ElementOfSeq
  <2> QED
    BY <1>1, <1>2, <2>1 DEF IdOrder, SeqBounded
<1>4. /\ Push(ring, e) \in Seq(Event)
      /\ SeqBounded(Push(ring, e), nextID + 1)
      /\ SeqSorted(ring, IdOrder) => SeqSorted(Push(ring, e), IdOrder)
  BY <1>1, <1>2, <1>3, PushKeepsOrder
<1>5. ring' = Push(ring, e) /\ nextID' \in Nat
  BY <1>1 DEF e
<1> QED
  BY <1>1, <1>2, <1>4, <1>5 DEF e

(***************************************************************************)
(* Every step keeps the inductive invariant: one step per action.          *)
(***************************************************************************)
LEMMA NextIInv == IInv /\ [Next]_vars => IInv'
<1> SUFFICES ASSUME IInv, [Next]_vars PROVE IInv'
  OBVIOUS
<1>1. /\ TypeOK
      /\ SeqBounded(ring, nextID)
      /\ ~gaveUp => SeqSorted(ring, IdOrder) /\ InOrder(file, buf)
      /\ ~gaveUp /\ proc # "down" => UpTo(file, buf, nextID)
  BY DEF IInv, IdsGrow
<1>2. /\ file \in Seq(Line) /\ prev \in Seq(Line) /\ buf \in Seq(Event)
      /\ ring \in Seq(Event) /\ nextID \in Nat /\ run \in 1..MaxRuns
      /\ fileBytes \in Nat /\ writer \in WriterStates
      /\ faults \in 0..MaxFaults /\ cut \in Cuts
      /\ proc \in {"up", "closing", "down"}
      /\ halted \in Nat /\ gaveUp \in BOOLEAN
  BY <1>1 DEF TypeOK
<1>3. ASSUME NEW b \in Body, Log(b)
      PROVE  IInv'
  <2> DEFINE e == Stored(b)
  <2>1. /\ ring' = Push(ring, e) /\ nextID' = nextID + 1 /\ proc # "down"
        /\ WriteLine(e) /\ UNCHANGED <<proc, run, halted, gaveUp>>
    BY <1>3 DEF Log
  <2>2. /\ e \in Event /\ e.id = nextID + 1
        /\ ring' \in Seq(Event) /\ nextID' \in Nat
        /\ SeqBounded(ring', nextID')
        /\ ~gaveUp => SeqSorted(ring', IdOrder)
    BY <2>1, PushStored
  <2> HIDE DEF e
  <2>3. /\ file' \in Seq(Line) /\ prev' \in Seq(Line) /\ fileBytes' \in Nat
        /\ writer' \in WriterStates /\ faults' \in 0..MaxFaults
        /\ buf' \in Seq(Event) /\ cut' \in Cuts
        /\ cut' # "none" => buf' # <<>>
        /\ writer' # "open" => buf' = <<>>
    BY <1>1, <2>1, <2>2, WriteLineType
  <2>4. ~gaveUp => InOrder(file', buf') /\ UpTo(file', buf', nextID')
    BY <1>1, <2>1, <2>2, WriteLineInOrder
  <2>5. TypeOK'
    BY <1>2, <2>1, <2>2, <2>3 DEF TypeOK
  <2> QED
    BY <2>1, <2>2, <2>4, <2>5 DEF IInv, IdsGrow
<1>4. CASE Flush \/ Drain
  <2>1. /\ file' = Extend(file, buf) /\ buf' = <<>> /\ cut' = "none"
        /\ UNCHANGED <<proc, run, ring, nextID, prev, fileBytes, faults, halted,
                       gaveUp>>
        /\ writer' \in WriterStates
    BY <1>2, <1>4 DEF Flush, Drain, WriterStates
  <2>2. file' \in Seq(Line)
    BY <1>2, <2>1, ExtendType DEF Extend
  <2>3. ~gaveUp => /\ InOrder(file', buf')
                   /\ proc' # "down" => UpTo(file', buf', nextID')
    BY <1>1, <1>2, <2>1, ExtendInOrder
  <2> QED
    BY <1>1, <1>2, <2>1, <2>2, <2>3 DEF IInv, IdsGrow, TypeOK, Cuts
<1>5. CASE FlushFails \/ Exit \/ Crash
  <2>1. /\ file' = LeftBehind /\ buf' = <<>> /\ cut' = "none"
        /\ UNCHANGED <<run, ring, nextID, prev, fileBytes, halted, gaveUp>>
        /\ writer' \in WriterStates /\ faults' \in 0..MaxFaults
        /\ proc' \in {"up", "closing", "down"}
        /\ proc' # "down" => proc # "down"
    BY <1>2, <1>5, EventLogAssumption DEF FlushFails, Exit, Crash, Die, WriterStates
  <2>2. file' \in Seq(Line)
    <3>1. cut # "none" => cut \in {"part", "bare"} /\ buf # <<>>
      BY <1>1 DEF TypeOK, Cuts
    <3>2. buf # <<>> => Head(buf) \in Event
      BY <1>2, HeadTailProperties
    <3> QED
      BY <1>2, <2>1, <3>1, <3>2, TearType DEF LeftBehind
  <2>3. ~gaveUp => /\ InOrder(file', buf')
                   /\ proc' # "down" => UpTo(file', buf', nextID')
    BY <1>1, <1>2, <2>1, LeftBehindInOrder
  <2> QED
    BY <1>1, <1>2, <2>1, <2>2, <2>3 DEF IInv, IdsGrow, TypeOK, Cuts
<1>6. CASE Close
  <2>1. /\ proc = "up" /\ proc' = "closing"
        /\ UNCHANGED <<run, ring, nextID, buf, cut, file, prev, fileBytes,
                       writer, faults, halted, gaveUp>>
    BY <1>6 DEF Close
  <2> QED
    BY <1>1, <2>1 DEF IInv, IdsGrow, TypeOK
<1>7. ASSUME NEW b \in Body, KilledInLog(b)
      PROVE  IInv'
  <2>1. /\ ring' = Push(ring, Stored(b)) /\ nextID' = nextID + 1
        /\ proc # "down" /\ proc' = "down" /\ buf' = <<>> /\ cut' = "none"
        /\ halted' = halted + 1
        /\ UNCHANGED <<run, fileBytes, writer, faults, gaveUp>>
    BY <1>7 DEF KilledInLog
  <2>2. /\ ring' \in Seq(Event) /\ nextID' \in Nat
        /\ SeqBounded(ring', nextID')
        /\ ~gaveUp => SeqSorted(ring', IdOrder)
    BY <2>1, PushStored
  <2>3. PICK f \in Seq(Line) :
          /\ HalfRotated(f)
          /\ InOrder(file, buf) /\ UpTo(file, buf, nextID) => InOrder(f, <<>>)
    BY <1>1, <1>7, KilledInOrder
  <2>4. /\ file' \in {f, <<>>} /\ prev' \in {f, prev, <<>>}
        /\ file' \in Seq(Line) /\ prev' \in Seq(Line)
    <3>1. <<>> \in Seq(Line)
      OBVIOUS
    <3>2. /\ file' = f \/ file' = <<>>
          /\ prev' = f \/ prev' = prev \/ prev' = <<>>
      BY <2>3 DEF HalfRotated
    <3> QED
      BY <1>2, <3>1, <3>2
  <2>5. ~gaveUp => InOrder(file', buf')
    BY <1>1, <2>1, <2>3, <2>4, EmptyIsInOrder DEF EmptyInOrder
  <2>6. TypeOK'
    BY <1>2, <2>1, <2>2, <2>4 DEF TypeOK, Cuts
  <2> QED
    BY <2>1, <2>2, <2>5, <2>6 DEF IInv, IdsGrow
<1>8. CASE Start
  <2>1. /\ proc = "down" /\ proc' = "up" /\ run' \in 1..MaxRuns
        /\ Replay(file) /\ fileBytes' \in Nat /\ writer' = "open"
        /\ nextID' = HighestId(ring')
        /\ gaveUp' = (gaveUp \/ GivesUp(file))
        /\ UNCHANGED <<buf, cut, file, prev, faults, halted>>
    BY <1>2, <1>8, EventLogAssumption DEF Start, SizeOf
  <2>2. buf = <<>>
    BY <1>1, <2>1 DEF TypeOK
  <2>3. /\ ring' \in Seq(Event) /\ nextID' \in Nat
        /\ SeqBounded(ring', nextID')
    BY <1>2, <2>1, ReplayBounded
  <2>4. ASSUME ~gaveUp'
        PROVE  IdsGrow'
    <3>1. ~gaveUp /\ ~GivesUp(file)
      BY <1>2, <2>1, <2>4
    <3>2. ReadTail(file) /\ InOrder(file, <<>>)
      BY <1>1, <2>1, <2>2, <3>1 DEF Replay
    <3>3. SeqSorted(ring', IdOrder) /\ UpTo(file, <<>>, nextID')
      BY <1>2, <2>1, <3>2, ReplayInOrder
    <3> QED
      BY <2>1, <2>2, <3>2, <3>3 DEF IdsGrow
  <2>5. TypeOK'
    <3>1. gaveUp' \in BOOLEAN
      BY <2>1
    <3> QED
      BY <1>1, <1>2, <2>1, <2>2, <2>3, <3>1 DEF TypeOK, WriterStates
  <2> QED
    BY <2>3, <2>4, <2>5 DEF IInv
<1>9. CASE UNCHANGED vars
  BY <1>1, <1>9 DEF vars, IInv, IdsGrow, TypeOK
<1> QED
  BY <1>3, <1>4, <1>5, <1>6, <1>7, <1>8, <1>9 DEF Next

(***************************************************************************)
(* IInv holds in every reachable state of the event store, for any sizes,  *)
(* budgets, number of runs and number of failing system calls.             *)
(***************************************************************************)
THEOREM Invariance == Spec => []IInv
  BY InitIInv, NextIInv, PTL DEF Spec

(***************************************************************************)
(* TypeOK for any sizes, budgets and number of runs and faults.            *)
(***************************************************************************)
THEOREM TypeCorrect == Spec => []TypeOK
<1>1. IInv => TypeOK
  BY DEF IInv
<1> QED
  BY <1>1, Invariance, PTL

-----------------------------------------------------------------------------
\* What a write does to the two files, whatever order is asked about.

(***************************************************************************)
(* The file g holds what is left of the file f and of the events b behind  *)
(* it: the first lines of f, then lines with the first events of b.  Every *)
(* write does this; a torn or unterminated line only shortens what is left *)
(* of f, and makes no two lines change places.                             *)
(***************************************************************************)
Squeezed(f, b, g) ==
  \E t \in 0..Len(f), m \in 0..Len(b) :
    /\ Len(g) = t + m
    /\ \A i \in 1..t : g[i] = f[i]
    /\ \A i \in 1..m : g[t + i].ev = b[i]

(***************************************************************************)
(* The file as it is, or emptied, is squeezed: what is dropped is at the   *)
(* end.                                                                    *)
(***************************************************************************)
LEMMA NothingMoved ==
  ASSUME NEW f \in Seq(Line), NEW b \in Seq(Event)
  PROVE  Squeezed(f, b, f) /\ Squeezed(f, b, <<>>)
<1>1. /\ Len(f) \in 0..Len(f) /\ 0 \in 0..Len(f) /\ 0 \in 0..Len(b)
      /\ Len(f) = Len(f) + 0 /\ Len(<<>>) = 0 + 0 /\ 1..0 = {}
  OBVIOUS
<1> QED
  BY <1>1 DEF Squeezed

(***************************************************************************)
(* A line that is whole is not the unterminated last one.                  *)
(***************************************************************************)
LEMMA WholeTerminated ==
  ASSUME NEW f \in Seq(Line), NEW i \in 1..Len(f), f[i].kind = "whole"
  PROVE  i <= Len(Terminated(f))
<1>1. Len(f) \in Nat
  OBVIOUS
<1>2. CASE EndsMidLine(f)
  <2>1. f # <<>> /\ f[Len(f)].kind \in {"bare", "part"}
    BY <1>2 DEF EndsMidLine, Last
  <2>2. Len(Front(f)) = Len(f) - 1
    BY <2>1, FrontType
  <2>3. i # Len(f)
    BY <2>1
  <2> QED
    BY <1>1, <1>2, <2>2, <2>3 DEF Terminated
<1>3. CASE ~EndsMidLine(f)
  BY <1>1, <1>3 DEF Terminated
<1> QED
  BY <1>2, <1>3

(***************************************************************************)
(* Flushing squeezes the buffer into the file, losing no line of the       *)
(* buffer and no terminated line of the file.                              *)
(***************************************************************************)
LEMMA ExtendSqueezes ==
  ASSUME NEW f \in Seq(Line), NEW b \in Seq(Event)
  PROVE  /\ Extend(f, b) \in Seq(Line)
         /\ Squeezed(f, b, Extend(f, b))
         /\ WholeLines(f) \subseteq WholeLines(Extend(f, b))
<1>1. Len(f) \in Nat /\ Len(b) \in Nat
  OBVIOUS
<1>2. CASE b = <<>>
  <2>1. Extend(f, b) = f
    BY <1>2 DEF Extend
  <2>2. Len(b) = 0 /\ Len(f) \in 0..Len(f) /\ 0 \in 0..Len(b)
    BY <1>1, <1>2
  <2> QED
    BY <1>1, <2>1, <2>2 DEF Squeezed
<1>3. CASE b # <<>>
  <2> DEFINE g == Extend(f, b)
             t == Len(Terminated(f))
  <2>1. /\ g \in Seq(Line)
        /\ Len(g) = t + Len(b)
        /\ \A i \in 1..t : g[i] = f[i]
        /\ \A i \in 1..Len(b) : g[t + i].ev = b[i]
    BY <1>3, ExtendType
  <2>2. t \in Nat /\ t <= Len(f)
    BY TerminatedType
  <2> HIDE DEF g, t
  <2>3. t \in 0..Len(f) /\ Len(b) \in 0..Len(b)
    BY <1>1, <2>2
  <2>4. Squeezed(f, b, g)
    BY <2>1, <2>3 DEF Squeezed
  <2>5. WholeLines(f) \subseteq WholeLines(g)
    <3>1. \A i \in 1..Len(f) : f[i].kind = "whole" => i <= t
      BY WholeTerminated DEF t
    <3>2. t <= Len(g) /\ Len(g) \in Nat
      BY <1>1, <2>1, <2>2
    <3>3. DOMAIN f = 1..Len(f) /\ DOMAIN g = 1..Len(g)
      BY <2>1
    <3> QED
      BY <1>1, <2>1, <2>2, <3>1, <3>2, <3>3 DEF WholeLines
  <2> QED
    BY <2>1, <2>4, <2>5 DEF g
<1> QED
  BY <1>2, <1>3

(***************************************************************************)
(* So does leaving the first bytes of the first buffered line, and what a  *)
(* dying process or a failing flush leaves.                                *)
(***************************************************************************)
LEMMA TearSqueezes ==
  ASSUME NEW f \in Seq(Line), NEW b \in Seq(Event), b # <<>>,
         NEW k \in {"part", "bare"}
  PROVE  /\ Tear(f, k, Head(b)) \in Seq(Line)
         /\ Squeezed(f, b, Tear(f, k, Head(b)))
         /\ WholeLines(f) \subseteq WholeLines(Tear(f, k, Head(b)))
<1> DEFINE g == Tear(f, k, Head(b))
           t == Len(Terminated(f))
<1>1. Len(f) \in Nat /\ Len(b) \in Nat \ {0}
  BY EmptySeq
<1>2. Head(b) \in Event /\ Head(b) = b[1]
  BY <1>1, HeadTailProperties
<1>3. /\ g \in Seq(Line)
      /\ Len(g) = t + 1
      /\ \A i \in 1..t : g[i] = f[i]
      /\ g[t + 1].ev = b[1]
  <2>1. g[t + 1].ev = Head(b)
    BY <1>2, TearType
  <2> QED
    BY <1>2, <2>1, TearType
<1>4. t \in Nat /\ t <= Len(f)
  BY TerminatedType
<1>5. \A i \in 1..Len(f) : f[i].kind = "whole" => i <= t
  BY WholeTerminated
<1> HIDE DEF g, t
<1>6. t \in 0..Len(f) /\ 1 \in 0..Len(b) /\ \A i \in 1..1 : g[t + i].ev = b[i]
  BY <1>1, <1>3, <1>4
<1>7. Squeezed(f, b, g)
  BY <1>3, <1>6 DEF Squeezed
<1>8. DOMAIN f = 1..Len(f) /\ DOMAIN g = 1..Len(g)
  BY <1>3
<1>9. WholeLines(f) \subseteq WholeLines(g)
  BY <1>1, <1>3, <1>4, <1>5, <1>8 DEF WholeLines
<1> QED
  BY <1>3, <1>7, <1>9 DEF g

(***************************************************************************)
(* What a dying process or a failing flush leaves in the file is squeezed  *)
(* too, and keeps every whole line.                                        *)
(***************************************************************************)
LEMMA LeftBehindSqueezes ==
  ASSUME TypeOK
  PROVE  /\ LeftBehind \in Seq(Line)
         /\ Squeezed(file, buf, LeftBehind)
         /\ WholeLines(file) \subseteq WholeLines(LeftBehind)
<1>1. file \in Seq(Line) /\ buf \in Seq(Event)
  BY DEF TypeOK
<1>2. CASE cut = "none"
  <2>1. LeftBehind = file
    BY <1>2 DEF LeftBehind
  <2>2. Squeezed(file, buf, file)
    BY <1>1, NothingMoved
  <2> QED
    BY <1>1, <2>1, <2>2
<1>3. CASE cut # "none"
  <2>1. cut \in {"part", "bare"} /\ buf # <<>>
    BY <1>3 DEF TypeOK, Cuts
  <2> QED
    BY <1>1, <1>3, <2>1, TearSqueezes DEF LeftBehind
<1> QED
  BY <1>2, <1>3

(***************************************************************************)
(* What a squeezed file still says, and in which order: R is any relation  *)
(* between an event and one behind it.                                     *)
(***************************************************************************)
Sorted(f, b, R) ==
  /\ \A i, j \in 1..Len(f) :
       i < j /\ Parses(f[i]) /\ Parses(f[j]) => <<f[i].ev, f[j].ev>> \in R
  /\ \A i, j \in 1..Len(b) : i < j => <<b[i], b[j]>> \in R
  /\ \A i \in 1..Len(f), j \in 1..Len(b) :
       Parses(f[i]) => <<f[i].ev, b[j]>> \in R

\* The events that f says and those behind it in b.
Said(f, b) == EventsOf(f) \cup {b[i] : i \in 1..Len(b)}

(***************************************************************************)
(* A squeezed file is no longer than what went into it, says nothing new,  *)
(* and is in any order that what went into it was in.                      *)
(***************************************************************************)
LEMMA SqueezeKeeps ==
  ASSUME NEW f \in Seq(Line), NEW b \in Seq(Event), NEW g \in Seq(Line),
         Squeezed(f, b, g)
  PROVE  /\ Len(g) <= Len(f) + Len(b)
         /\ Said(g, <<>>) \subseteq Said(f, b)
         /\ \A R : Sorted(f, b, R) => Sorted(g, <<>>, R)
<1>1. PICK t \in 0..Len(f), m \in 0..Len(b) :
        /\ Len(g) = t + m
        /\ \A i \in 1..t : g[i] = f[i]
        /\ \A i \in 1..m : g[t + i].ev = b[i]
  BY DEF Squeezed
<1>2. Len(f) \in Nat /\ Len(b) \in Nat /\ t \in Nat /\ m \in Nat
      /\ t <= Len(f) /\ m <= Len(b)
  OBVIOUS
<1>3. DOMAIN f = 1..Len(f) /\ DOMAIN g = 1..Len(g)
  OBVIOUS
<1>4. \A i \in 1..Len(g) :
        \/ i <= t /\ i \in 1..Len(f) /\ g[i] = f[i]
        \/ i > t /\ i - t \in 1..Len(b) /\ g[i].ev = b[i - t]
  <2> SUFFICES ASSUME NEW i \in 1..Len(g)
               PROVE  \/ i <= t /\ i \in 1..Len(f) /\ g[i] = f[i]
                      \/ i > t /\ i - t \in 1..Len(b) /\ g[i].ev = b[i - t]
    OBVIOUS
  <2>1. CASE i <= t
    BY <1>1, <1>2, <2>1
  <2>2. CASE i > t
    <3>1. i - t \in 1..m /\ t + (i - t) = i
      BY <1>1, <1>2, <2>2
    <3> QED
      BY <1>1, <1>2, <2>2, <3>1
  <2> QED
    BY <1>2, <2>1, <2>2
<1>5. Said(g, <<>>) \subseteq Said(f, b)
  <2> SUFFICES ASSUME NEW i \in 1..Len(g), Parses(g[i])
               PROVE  g[i].ev \in Said(f, b)
    <3>1. EventsOf(g) = {g[i].ev : i \in {j \in 1..Len(g) : Parses(g[j])}}
      BY <1>3 DEF EventsOf
    <3>2. {<<>>[i] : i \in 1..Len(<<>>)} = {}
      OBVIOUS
    <3>3. \A d \in Said(g, <<>>) :
            \E i \in 1..Len(g) : Parses(g[i]) /\ d = g[i].ev
      BY <3>1, <3>2 DEF Said
    <3> QED
      BY <3>3
  <2> QED
    BY <1>3, <1>4 DEF Said, EventsOf
<1>6. ASSUME NEW R, Sorted(f, b, R)
      PROVE  Sorted(g, <<>>, R)
  <2> SUFFICES ASSUME NEW i \in 1..Len(g), NEW j \in 1..Len(g), i < j,
                      Parses(g[i]), Parses(g[j])
               PROVE  <<g[i].ev, g[j].ev>> \in R
    BY DEF Sorted
  <2>1. CASE j <= t
    <3>1. /\ i \in 1..Len(f) /\ g[i] = f[i]
          /\ j \in 1..Len(f) /\ g[j] = f[j]
      BY <1>2, <1>4, <2>1
    <3> QED
      BY <1>6, <3>1 DEF Sorted
  <2>2. CASE i <= t /\ j > t
    <3>1. /\ i \in 1..Len(f) /\ g[i] = f[i]
          /\ j - t \in 1..Len(b) /\ g[j].ev = b[j - t]
      BY <1>2, <1>4, <2>2
    <3> QED
      BY <1>6, <3>1 DEF Sorted
  <2>3. CASE i > t
    <3>1. /\ i - t \in 1..Len(b) /\ g[i].ev = b[i - t]
          /\ j - t \in 1..Len(b) /\ g[j].ev = b[j - t]
          /\ i - t < j - t
      BY <1>2, <1>4, <2>3
    <3> QED
      BY <1>6, <3>1 DEF Sorted
  <2> QED
    BY <1>2, <2>1, <2>2, <2>3
<1> QED
  BY <1>1, <1>2, <1>5, <1>6

(***************************************************************************)
(* An event that everything said before may precede goes behind it.        *)
(***************************************************************************)
LEMMA AppendSorted ==
  ASSUME NEW f \in Seq(Line), NEW b \in Seq(Event), NEW e \in Event, NEW R,
         Sorted(f, b, R), \A d \in Said(f, b) : <<d, e>> \in R
  PROVE  Sorted(f, Append(b, e), R)
<1>1. /\ Len(Append(b, e)) = Len(b) + 1
      /\ \A i \in 1..Len(b) : Append(b, e)[i] = b[i]
      /\ Append(b, e)[Len(b) + 1] = e
      /\ Len(b) \in Nat
  OBVIOUS
<1>2. \A i \in 1..Len(b) : <<b[i], e>> \in R
  BY DEF Said
<1>3. \A i \in 1..Len(f) : Parses(f[i]) => <<f[i].ev, e>> \in R
  <2>1. DOMAIN f = 1..Len(f)
    OBVIOUS
  <2> QED
    BY <2>1 DEF Said, EventsOf
<1>4. ASSUME NEW i \in 1..Len(Append(b, e)), NEW j \in 1..Len(Append(b, e)), i < j
      PROVE  <<Append(b, e)[i], Append(b, e)[j]>> \in R
  <2>1. i \in 1..Len(b) /\ (j \in 1..Len(b) \/ j = Len(b) + 1)
    BY <1>1, <1>4
  <2> QED
    BY <1>1, <1>2, <1>4, <2>1 DEF Sorted
<1>5. ASSUME NEW i \in 1..Len(f), NEW j \in 1..Len(Append(b, e)), Parses(f[i])
      PROVE  <<f[i].ev, Append(b, e)[j]>> \in R
  <2>1. j \in 1..Len(b) \/ j = Len(b) + 1
    BY <1>1
  <2> QED
    BY <1>1, <1>3, <1>5, <2>1 DEF Sorted
<1> QED
  BY <1>4, <1>5 DEF Sorted

(***************************************************************************)
(* Appending an event adds that event to what is said, and no other.       *)
(***************************************************************************)
LEMMA SaidAppend ==
  ASSUME NEW f \in Seq(Line), NEW b \in Seq(Event), NEW e \in Event
  PROVE  Said(f, Append(b, e)) = Said(f, b) \cup {e}
<1>1. /\ Len(Append(b, e)) = Len(b) + 1
      /\ \A i \in 1..Len(b) : Append(b, e)[i] = b[i]
      /\ Append(b, e)[Len(b) + 1] = e
      /\ Len(b) \in Nat
  OBVIOUS
<1> QED
  BY <1>1 DEF Said

-----------------------------------------------------------------------------
\* What each step does to the two files and the buffer.

(***************************************************************************)
(* After a failed reopen there is no current file: what a rotation cannot  *)
(* rename is nothing.                                                      *)
(***************************************************************************)
GoneIsEmpty == writer = "gone" => file = <<>>

(***************************************************************************)
(* The two outcomes of rotating a file that holds f: it moves aside, or,   *)
(* at the price of a failing call, it stays and the old generation goes.   *)
(***************************************************************************)
MovesAside(f) == prev' = f /\ file' = <<>> /\ faults' >= faults

StaysBehind(f) == prev' = <<>> /\ file' = f /\ faults' >= faults + 1

(***************************************************************************)
(* A rotation has no other outcome, leaves the buffer empty, restarts the  *)
(* count if the log can be written again, and leaves no file behind a      *)
(* handle it could not reopen.                                             *)
(***************************************************************************)
LEMMA RotateMoves ==
  ASSUME NEW f \in Seq(Line), NEW size \in Nat, faults \in Nat,
         Rotate(f, size), writer = "gone" => f = <<>>
  PROVE  /\ MovesAside(f) \/ StaysBehind(f)
         /\ buf' = <<>>
         /\ writer' = "open" => fileBytes' = 0
         /\ GoneIsEmpty'
<1>1. buf' = <<>>
  BY DEF Rotate
<1>2. CASE /\ Renamed(f) \/ NothingToRename
           /\ \/ Reopened /\ Failing(0)
              \/ ReopenFails("gone", size) /\ Failing(1)
  <2>1. prev' = f /\ file' = <<>>
    BY <1>2 DEF Renamed, NothingToRename
  <2>2. faults' >= faults
    BY <1>2 DEF Failing
  <2>3. writer' = "open" => fileBytes' = 0
    BY <1>2 DEF Reopened, ReopenFails
  <2> QED
    BY <1>1, <2>1, <2>2, <2>3 DEF MovesAside, GoneIsEmpty
<1>3. CASE /\ RenameFails(f)
           /\ \/ Reopened /\ Failing(1)
              \/ ReopenFails("closed", size) /\ Failing(2)
  <2>1. prev' = <<>> /\ file' = f
    BY <1>3 DEF RenameFails
  <2>2. faults' >= faults + 1
    BY <1>3 DEF Failing
  <2>3. (writer' = "open" => fileBytes' = 0) /\ writer' # "gone"
    BY <1>3 DEF Reopened, ReopenFails
  <2> QED
    BY <1>1, <2>1, <2>2, <2>3 DEF StaysBehind, GoneIsEmpty
<1> QED
  BY <1>2, <1>3 DEF Rotate

(***************************************************************************)
(* The ways Log's write can end: the line is buffered; the buffer          *)
(* overflows; everything is flushed and rotated; the line is lost and the  *)
(* file rotated; nothing happens.                                          *)
(***************************************************************************)
Holds(f) == f \in Seq(Line) /\ WholeLines(file) \subseteq WholeLines(f)

Written(e) ==
  /\ file' = file /\ buf' = Append(buf, e)
  /\ prev' = prev /\ faults' = faults /\ writer = "open" /\ writer' = "open"
  /\ fileBytes' = fileBytes + 1 /\ ~OverCap(fileBytes + 1)

Overflowed(e) ==
  /\ Holds(file') /\ Squeezed(file, buf, file') /\ buf' = <<e>>
  /\ prev' = prev /\ faults' = faults /\ writer = "open" /\ writer' = "open"
  /\ fileBytes' = fileBytes + 1 /\ ~OverCap(fileBytes + 1)

RotatedAway(e) ==
  /\ \E f \in Seq(Line) :
       /\ Holds(f) /\ Squeezed(file, Append(buf, e), f)
       /\ MovesAside(f) \/ StaysBehind(f)
  /\ buf' = <<>>
  /\ writer' = "open" => fileBytes' = 0

LineLost == UNCHANGED <<buf, file, prev, fileBytes, writer, faults>>

(***************************************************************************)
(* Log's write has no other outcome, and keeps that no file is behind a    *)
(* handle it could not reopen.                                             *)
(***************************************************************************)
LEMMA WriteLineMoves ==
  ASSUME TypeOK, GoneIsEmpty, NEW e \in Event, WriteLine(e)
  PROVE  /\ Written(e) \/ Overflowed(e) \/ RotatedAway(e) \/ LineLost
         /\ GoneIsEmpty'
<1>1. /\ file \in Seq(Line) /\ buf \in Seq(Event) /\ faults \in Nat
      /\ fileBytes \in Nat
  BY DEF TypeOK
<1>2. CASE writer = "open" /\ ~OverCap(fileBytes + 1) /\ BufferLine(e)
  <2>1. /\ fileBytes' = fileBytes + 1
        /\ UNCHANGED <<prev, writer, faults>>
    BY <1>2 DEF BufferLine
  <2>2. CASE buf' = Append(buf, e) /\ UNCHANGED <<file, cut>>
    BY <1>2, <2>1, <2>2 DEF Written, GoneIsEmpty
  <2>3. CASE file' = Extend(file, buf) /\ buf' = <<e>>
    <3>1. Holds(file') /\ Squeezed(file, buf, file')
      BY <1>1, <2>3, ExtendSqueezes DEF Holds
    <3> QED
      BY <1>2, <2>1, <2>3, <3>1 DEF Overflowed, GoneIsEmpty
  <2> QED
    BY <1>2, <2>2, <2>3 DEF BufferLine
<1>3. CASE writer = "open" /\ Rotate(Flushed(e), fileBytes + 1)
  <2> DEFINE f == Flushed(e)
  <2>1. Append(buf, e) \in Seq(Event)
    BY <1>1
  <2>2. /\ f \in Seq(Line) /\ Squeezed(file, Append(buf, e), f)
        /\ WholeLines(file) \subseteq WholeLines(f)
    BY <1>1, <2>1, ExtendSqueezes DEF Flushed
  <2> HIDE DEF f
  <2>3. fileBytes + 1 \in Nat /\ writer # "gone" /\ Rotate(f, fileBytes + 1)
    BY <1>1, <1>3 DEF f
  <2>4. /\ MovesAside(f) \/ StaysBehind(f)
        /\ buf' = <<>>
        /\ writer' = "open" => fileBytes' = 0
        /\ GoneIsEmpty'
    BY <1>1, <2>2, <2>3, RotateMoves
  <2> QED
    BY <2>2, <2>4 DEF RotatedAway, Holds
<1>4. CASE writer \in {"closed", "gone"} /\ Rotate(file, fileBytes)
  <2>1. /\ MovesAside(file) \/ StaysBehind(file)
        /\ buf' = <<>>
        /\ writer' = "open" => fileBytes' = 0
        /\ GoneIsEmpty'
    BY <1>1, <1>4, RotateMoves DEF GoneIsEmpty
  <2>2. Append(buf, e) \in Seq(Event)
    BY <1>1
  <2>3. Squeezed(file, Append(buf, e), file)
    BY <1>1, <2>2, NothingMoved
  <2> QED
    BY <1>1, <2>1, <2>3 DEF RotatedAway, Holds
<1>5. CASE /\ writer \in {"stuck", "drained"}
           /\ UNCHANGED <<buf, cut, file, prev, fileBytes, writer, faults>>
  BY <1>5 DEF LineLost, GoneIsEmpty
<1> QED
  BY <1>2, <1>3, <1>4, <1>5 DEF WriteLine

(***************************************************************************)
(* A flush, a failing flush, the drain at shutdown and the end of the      *)
(* process: the file takes what it can of the buffer, which is then empty. *)
(***************************************************************************)
Settled ==
  /\ Holds(file') /\ Squeezed(file, buf, file') /\ buf' = <<>>
  /\ prev' = prev /\ fileBytes' = fileBytes
  /\ faults' >= faults /\ halted' = halted
  /\ proc' # "down" => proc # "down"
  /\ writer' = "open" => writer = "open"
  /\ UNCHANGED <<run, ring, nextID>>

(***************************************************************************)
(* Each of them settles the buffer.                                        *)
(***************************************************************************)
LEMMA OthersSettle ==
  ASSUME TypeOK, GoneIsEmpty, Flush \/ Drain \/ FlushFails \/ Exit \/ Crash
  PROVE  Settled /\ GoneIsEmpty'
<1>1. /\ file \in Seq(Line) /\ buf \in Seq(Event) /\ faults \in Nat
  BY DEF TypeOK
<1>2. CASE Flush \/ Drain
  <2>1. Holds(Extend(file, buf)) /\ Squeezed(file, buf, Extend(file, buf))
    BY <1>1, ExtendSqueezes DEF Holds
  <2> QED
    BY <1>1, <1>2, <2>1 DEF Flush, Drain, Settled, GoneIsEmpty
<1>3. CASE FlushFails
  <2>1. Holds(LeftBehind) /\ Squeezed(file, buf, LeftBehind)
    BY LeftBehindSqueezes DEF Holds
  <2> QED
    BY <1>1, <1>3, <2>1 DEF FlushFails, Settled, GoneIsEmpty
<1>4. CASE Exit \/ Crash
  <2>1. Holds(LeftBehind) /\ Squeezed(file, buf, LeftBehind)
    BY LeftBehindSqueezes DEF Holds
  <2>2. writer = "gone" => LeftBehind = file
    BY DEF TypeOK, LeftBehind
  <2> QED
    BY <1>1, <1>4, <2>1, <2>2 DEF Exit, Crash, Die, Settled, GoneIsEmpty
<1> QED
  BY <1>2, <1>3, <1>4

(***************************************************************************)
(* What the file f is left with when an event is written behind the file   *)
(* and the buffer, or is cut short.                                        *)
(***************************************************************************)
Grown(e, f) ==
  /\ f \in Seq(Line)
  /\ WholeLines(file) \subseteq WholeLines(f)
  /\ Len(f) <= Len(file) + Len(buf) + 1
  /\ Said(f, <<>>) \subseteq Said(file, buf) \cup {e}
  /\ \A R : /\ Sorted(file, buf, R)
            /\ \A d \in Said(file, buf) : <<d, e>> \in R
            => Sorted(f, <<>>, R)

(***************************************************************************)
(* Written in one piece, or after the buffer, it grows.                    *)
(***************************************************************************)
LEMMA SqueezedGrows ==
  ASSUME TypeOK, NEW e \in Event, NEW f, Holds(f),
         \/ Squeezed(file, buf, f)
         \/ Squeezed(file, Append(buf, e), f)
         \/ \E g \in Seq(Line) : Squeezed(file, buf, g) /\ Squeezed(g, <<e>>, f)
  PROVE  Grown(e, f)
<1>1. /\ file \in Seq(Line) /\ buf \in Seq(Event) /\ f \in Seq(Line)
      /\ WholeLines(file) \subseteq WholeLines(f)
  BY DEF TypeOK, Holds
<1>2. /\ Append(buf, e) \in Seq(Event) /\ Len(Append(buf, e)) = Len(buf) + 1
      /\ Len(file) \in Nat /\ Len(buf) \in Nat /\ Len(f) \in Nat
      /\ <<e>> \in Seq(Event) /\ Len(<<e>>) = 1 /\ <<>> \in Seq(Event)
      /\ Append(<<>>, e) = <<e>>
  BY <1>1
<1>3. CASE Squeezed(file, buf, f)
  <2>1. /\ Len(f) <= Len(file) + Len(buf)
        /\ Said(f, <<>>) \subseteq Said(file, buf)
        /\ \A R : Sorted(file, buf, R) => Sorted(f, <<>>, R)
    BY <1>1, <1>3, SqueezeKeeps
  <2>2. Len(f) <= Len(file) + Len(buf) + 1
    BY <1>2, <2>1
  <2> QED
    BY <1>1, <2>1, <2>2 DEF Grown
<1>4. CASE Squeezed(file, Append(buf, e), f)
  <2>1. /\ Len(f) <= Len(file) + Len(Append(buf, e))
        /\ Said(f, <<>>) \subseteq Said(file, Append(buf, e))
        /\ \A R : Sorted(file, Append(buf, e), R) => Sorted(f, <<>>, R)
    BY <1>1, <1>2, <1>4, SqueezeKeeps
  <2>2. Len(f) <= Len(file) + Len(buf) + 1
    BY <1>2, <2>1
  <2>3. Said(file, Append(buf, e)) = Said(file, buf) \cup {e}
    BY <1>1, SaidAppend
  <2>4. ASSUME NEW R, Sorted(file, buf, R),
               \A d \in Said(file, buf) : <<d, e>> \in R
        PROVE  Sorted(f, <<>>, R)
    BY <1>1, <2>1, <2>4, AppendSorted
  <2> QED
    BY <1>1, <2>1, <2>2, <2>3, <2>4 DEF Grown
<1>5. ASSUME NEW g \in Seq(Line), Squeezed(file, buf, g), Squeezed(g, <<e>>, f)
      PROVE  Grown(e, f)
  <2>1. /\ Len(g) <= Len(file) + Len(buf)
        /\ Said(g, <<>>) \subseteq Said(file, buf)
        /\ \A R : Sorted(file, buf, R) => Sorted(g, <<>>, R)
    BY <1>1, <1>5, SqueezeKeeps
  <2>2. /\ Len(f) <= Len(g) + Len(<<e>>)
        /\ Said(f, <<>>) \subseteq Said(g, <<e>>)
        /\ \A R : Sorted(g, <<e>>, R) => Sorted(f, <<>>, R)
    BY <1>1, <1>2, <1>5, SqueezeKeeps
  <2>3. Len(f) <= Len(file) + Len(buf) + 1
    <3>1. Len(g) \in Nat
      OBVIOUS
    <3> QED
      BY <1>2, <2>1, <2>2, <3>1
  <2>4. Said(g, <<e>>) = Said(g, <<>>) \cup {e}
    <3>0. <<>> \in Seq(Event)
      OBVIOUS
    <3>1. Said(g, Append(<<>>, e)) = Said(g, <<>>) \cup {e}
      BY <3>0, SaidAppend, Zenon
    <3> QED
      BY <1>2, <3>1
  <2>5. ASSUME NEW R, Sorted(file, buf, R),
               \A d \in Said(file, buf) : <<d, e>> \in R
        PROVE  Sorted(f, <<>>, R)
    <3>1. Sorted(g, <<>>, R) /\ \A d \in Said(g, <<>>) : <<d, e>> \in R
      BY <2>1, <2>5
    <3>2. Sorted(g, Append(<<>>, e), R)
      BY <1>2, <3>1, AppendSorted
    <3> QED
      BY <1>2, <2>2, <3>2
  <2> QED
    BY <1>1, <2>1, <2>2, <2>3, <2>4, <2>5 DEF Grown
<1> QED
  BY <1>3, <1>4, <1>5

(***************************************************************************)
(* A kill in the middle of a Log cuts short the writing of one event, and  *)
(* leaves what was written where the file is, or moved aside.              *)
(***************************************************************************)
LEMMA KilledGrows ==
  ASSUME TypeOK, NEW b \in Body, KilledInLog(b)
  PROVE  \E f : Grown(Stored(b), f) /\ HalfRotated(f)
<1> DEFINE e == Stored(b)
<1>1. /\ nextID \in Nat /\ run \in 1..MaxRuns
      /\ file \in Seq(Line) /\ buf \in Seq(Event)
      /\ writer # "open" => buf = <<>>
  BY DEF TypeOK
<1>2. e \in Event
  BY <1>1 DEF Event, Stored
<1>3. \/ file' \in HalfWritten(e) /\ prev' = prev
      \/ HalfRotated(Flushed(e))
      \/ HalfRotated(file)
  BY DEF KilledInLog
<1> HIDE DEF e
<1>4. /\ Append(buf, e) \in Seq(Event)
      /\ <<e>> \in Seq(Event) /\ <<e>> # <<>> /\ Head(<<e>>) = e
  BY <1>1, <1>2
<1>5. CASE file' = LeftBehind /\ prev' = prev
  <2>1. Holds(LeftBehind) /\ Squeezed(file, buf, LeftBehind)
    BY LeftBehindSqueezes DEF Holds
  <2>2. Grown(e, LeftBehind)
    BY <1>2, <2>1, SqueezedGrows
  <2> QED
    BY <1>5, <2>2 DEF HalfRotated, e
<1>6. ASSUME NEW k \in {"part", "bare"}, file' = Tear(Extend(file, buf), k, e),
             prev' = prev
      PROVE  \E f : Grown(e, f) /\ HalfRotated(f)
  <2> DEFINE g == Extend(file, buf)
             h == Tear(g, k, e)
  <2>1. g \in Seq(Line) /\ Squeezed(file, buf, g)
        /\ WholeLines(file) \subseteq WholeLines(g)
    BY <1>1, ExtendSqueezes
  <2>2. file' = h
    BY <1>6
  <2> HIDE DEF g
  <2>3. h \in Seq(Line) /\ Squeezed(g, <<e>>, h)
        /\ WholeLines(g) \subseteq WholeLines(h)
    BY <1>4, <2>1, TearSqueezes
  <2> HIDE DEF h
  <2>4. Grown(e, h)
    <3>1. Holds(h)
      BY <2>1, <2>3 DEF Holds
    <3> QED
      BY <1>2, <2>1, <2>3, <3>1, SqueezedGrows
  <2> QED
    BY <1>6, <2>2, <2>4 DEF HalfRotated
<1>7. CASE HalfRotated(Flushed(e))
  <2>1. Holds(Flushed(e)) /\ Squeezed(file, Append(buf, e), Flushed(e))
    BY <1>1, <1>4, ExtendSqueezes DEF Holds, Flushed
  <2>2. Grown(e, Flushed(e))
    BY <1>2, <2>1, SqueezedGrows
  <2> QED
    BY <1>7, <2>2 DEF e
<1>8. CASE HalfRotated(file)
  <2>1. Holds(file) /\ Squeezed(file, buf, file)
    BY <1>1, NothingMoved DEF Holds
  <2>2. Grown(e, file)
    BY <1>2, <2>1, SqueezedGrows
  <2> QED
    BY <1>8, <2>2 DEF e
<1> QED
  BY <1>3, <1>5, <1>6, <1>7, <1>8 DEF HalfWritten, e

-----------------------------------------------------------------------------
\* How large the files get.

(***************************************************************************)
(* What DiskBounded rests on.  The size that Log compares with the cap may *)
(* lag behind the file by one full file for every call that failed, since  *)
(* a rotation that could not move the file restarts the count at zero; a   *)
(* rotation cut short leaves one line more than the cap; and the buffer    *)
(* has to be counted with the file, because every rotation, and every      *)
(* boot, meets the two as one.                                             *)
(***************************************************************************)
Full == MaxFile + 1

Paid == faults * Full + halted

SizesKept ==
  MaxFile > 0 =>
    /\ Len(file) + Len(buf) <= Paid + MaxFile
    /\ writer = "open" /\ proc # "down" =>
         Len(file) + Len(buf) <= fileBytes + Paid
    /\ Len(prev) <= Paid + Full

(***************************************************************************)
(* One failing call costs one full file.                                   *)
(***************************************************************************)
LEMMA FaultCost ==
  ASSUME NEW m \in Nat, NEW n \in Nat
  PROVE  /\ m * Full \in Nat
         /\ m <= n => m * Full <= n * Full
         /\ m + 1 <= n => m * Full + Full <= n * Full
         /\ (m + 1) * Full = m * Full + Full
BY EventLogAssumption DEF Full

(***************************************************************************)
(* Log keeps the sizes: it only buffers below the cap, and a rotation that *)
(* fails is paid for by the call that failed.                              *)
(***************************************************************************)
LEMMA LogKeepsSizes ==
  ASSUME TypeOK, TypeOK', GoneIsEmpty, SizesKept, NEW e \in Event,
         proc # "down", halted' = halted, WriteLine(e)
  PROVE  SizesKept'
<1> SUFFICES ASSUME MaxFile > 0 PROVE SizesKept'
  BY DEF SizesKept
<1>1. /\ file \in Seq(Line) /\ buf \in Seq(Event) /\ prev \in Seq(Line)
      /\ file' \in Seq(Line) /\ buf' \in Seq(Event) /\ prev' \in Seq(Line)
      /\ faults \in Nat /\ faults' \in Nat
      /\ fileBytes \in Nat /\ fileBytes' \in Nat
      /\ halted \in Nat /\ halted' = halted
      /\ writer # "open" => buf = <<>>
  BY EventLogAssumption DEF TypeOK
<1>2. /\ Len(file) \in Nat /\ Len(buf) \in Nat /\ Len(prev) \in Nat
      /\ Len(file') \in Nat /\ Len(buf') \in Nat /\ Len(prev') \in Nat
      /\ Len(Append(buf, e)) = Len(buf) + 1
      /\ Append(buf, e) \in Seq(Event)
      /\ Len(<<>>) = 0 /\ Len(<<e>>) = 1
  BY <1>1
<1> DEFINE paid  == Paid
           paid1 == Paid'
<1>3. MaxFile \in Nat /\ Full = MaxFile + 1 /\ paid \in Nat /\ paid1 \in Nat
  <2>1. faults * Full \in Nat /\ faults' * Full \in Nat
    BY <1>1, FaultCost
  <2>2. paid = faults * Full + halted /\ paid1 = faults' * Full + halted
    BY <1>1 DEF Paid
  <2>3. paid \in Nat /\ paid1 \in Nat
    BY <1>1, <2>1, <2>2
  <2> QED
    BY <2>3, EventLogAssumption DEF Full
<1>4. /\ Len(file) + Len(buf) <= paid + MaxFile
      /\ writer = "open" => Len(file) + Len(buf) <= fileBytes + paid
      /\ Len(prev) <= paid + Full
  BY DEF SizesKept
<1>5. /\ faults' = faults => paid1 = paid
      /\ faults' >= faults => paid <= paid1
      /\ faults' >= faults + 1 => paid + Full <= paid1
  <2> DEFINE cost  == faults * Full
             cost1 == faults' * Full
  <2>1. /\ cost \in Nat /\ cost1 \in Nat
        /\ faults' = faults => cost1 = cost
        /\ faults' >= faults => cost <= cost1
        /\ faults' >= faults + 1 => cost + Full <= cost1
    BY <1>1, FaultCost
  <2>2. paid = cost + halted /\ paid1 = cost1 + halted
    BY DEF Paid
  <2> HIDE DEF cost, cost1, paid, paid1
  <2> QED
    BY <1>1, <1>3, <2>1, <2>2
<1> HIDE DEF paid, paid1
<1>6. SUFFICES /\ Len(file') + Len(buf') <= paid1 + MaxFile
               /\ writer' = "open" => Len(file') + Len(buf') <= fileBytes' + paid1
               /\ Len(prev') <= paid1 + Full
  BY DEF SizesKept, paid1, Full
<1>7. CASE Written(e) \/ Overflowed(e)
  <2>1. /\ prev' = prev /\ faults' = faults /\ fileBytes' = fileBytes + 1
        /\ writer = "open" /\ fileBytes + 1 <= MaxFile
    BY <1>1, <1>3, <1>7 DEF Written, Overflowed, OverCap
  <2>2. Len(file') + Len(buf') <= Len(file) + Len(buf) + 1
    <3>1. CASE Written(e)
      BY <1>2, <3>1 DEF Written
    <3>2. CASE Overflowed(e)
      <4>1. Len(file') <= Len(file) + Len(buf) /\ buf' = <<e>>
        BY <1>1, <3>2, SqueezeKeeps DEF Overflowed
      <4> QED
        BY <1>2, <4>1
    <3> QED
      BY <1>7, <3>1, <3>2
  <2> QED
    BY <1>1, <1>2, <1>3, <1>4, <1>5, <2>1, <2>2
<1>8. CASE RotatedAway(e)
  <2>1. PICK f \in Seq(Line) :
          /\ Squeezed(file, Append(buf, e), f)
          /\ MovesAside(f) \/ StaysBehind(f)
    BY <1>8 DEF RotatedAway
  <2>2. Len(f) <= Len(file) + Len(buf) + 1 /\ Len(f) \in Nat
    <3>1. Len(f) <= Len(file) + Len(Append(buf, e))
      BY <1>1, <1>2, <2>1, SqueezeKeeps
    <3> QED
      BY <1>2, <3>1
  <2>3. buf' = <<>> /\ (writer' = "open" => fileBytes' = 0)
    BY <1>8 DEF RotatedAway
  <2>4. CASE MovesAside(f)
    <3>1. /\ Len(prev') = Len(f) /\ Len(file') = 0 /\ faults' >= faults
          /\ Len(buf') = 0
      BY <2>3, <2>4 DEF MovesAside
    <3>2. paid <= paid1 /\ Len(f) <= paid + Full
      BY <1>2, <1>3, <1>4, <1>5, <2>2, <3>1
    <3>3. writer' = "open" => Len(file') + Len(buf') <= fileBytes' + paid1
      BY <1>3, <2>3, <3>1
    <3> QED
      BY <1>3, <2>2, <3>1, <3>2, <3>3
  <2>5. CASE StaysBehind(f)
    <3>1. Len(prev') = 0 /\ Len(file') = Len(f) /\ faults' >= faults + 1
      BY <2>5 DEF StaysBehind
    <3> QED
      BY <1>1, <1>2, <1>3, <1>4, <1>5, <2>2, <2>3, <3>1
  <2> QED
    BY <2>1, <2>4, <2>5
<1>9. CASE LineLost
  BY <1>2, <1>3, <1>4, <1>5, <1>9 DEF LineLost
<1> QED
  BY <1>7, <1>8, <1>9, WriteLineMoves

(***************************************************************************)
(* Emptying the buffer into the file keeps the sizes.                      *)
(***************************************************************************)
LEMMA SettlingKeepsSizes ==
  ASSUME TypeOK, TypeOK', SizesKept, Settled
  PROVE  SizesKept'
<1> SUFFICES ASSUME MaxFile > 0 PROVE SizesKept'
  BY DEF SizesKept
<1>1. /\ file \in Seq(Line) /\ buf \in Seq(Event) /\ prev \in Seq(Line)
      /\ file' \in Seq(Line) /\ fileBytes \in Nat
      /\ faults \in Nat /\ faults' \in Nat /\ halted \in Nat
  BY EventLogAssumption DEF TypeOK
<1>2. /\ Len(file) \in Nat /\ Len(buf) \in Nat /\ Len(prev) \in Nat
      /\ Len(file') \in Nat /\ MaxFile \in Nat /\ Full \in Nat
  BY <1>1, EventLogAssumption DEF Full
<1>3. Len(file') <= Len(file) + Len(buf) /\ buf' = <<>> /\ Len(buf') = 0
  BY <1>1, SqueezeKeeps DEF Settled
<1>4. Paid <= Paid' /\ Paid \in Nat /\ Paid' \in Nat
  <2> DEFINE cost  == faults * Full
             cost1 == faults' * Full
  <2>1. cost <= cost1 /\ cost \in Nat /\ cost1 \in Nat
    BY <1>1, FaultCost DEF Settled
  <2>2. Paid = cost + halted /\ Paid' = cost1 + halted
    BY DEF Paid, Settled
  <2> HIDE DEF cost, cost1
  <2> QED
    BY <1>1, <2>1, <2>2
<1> DEFINE paid  == Paid
           paid1 == Paid'
<1>5. /\ Len(file) + Len(buf) <= paid + MaxFile
      /\ writer = "open" /\ proc # "down" => Len(file) + Len(buf) <= fileBytes + paid
      /\ Len(prev) <= paid + Full
      /\ paid <= paid1 /\ paid \in Nat /\ paid1 \in Nat
  BY <1>4 DEF SizesKept
<1>6. SUFFICES /\ Len(file') + Len(buf') <= paid1 + MaxFile
               /\ writer' = "open" /\ proc' # "down" =>
                    Len(file') + Len(buf') <= fileBytes' + paid1
               /\ Len(prev') <= paid1 + Full
  BY DEF SizesKept, Full
<1> HIDE DEF paid, paid1
<1>7. Len(file') + Len(buf') <= paid1 + MaxFile
  BY <1>2, <1>3, <1>5
<1>8. ASSUME writer' = "open", proc' # "down"
      PROVE  Len(file') + Len(buf') <= fileBytes' + paid1
  <2>1. Len(file) + Len(buf) <= fileBytes + paid /\ fileBytes' = fileBytes
    BY <1>5, <1>8 DEF Settled
  <2> QED
    BY <1>1, <1>2, <1>3, <1>5, <2>1
<1>9. Len(prev') <= paid1 + Full
  BY <1>2, <1>5 DEF Settled
<1> QED
  BY <1>7, <1>8, <1>9

(***************************************************************************)
(* A rotation that is cut short is paid for: it counts as halted.          *)
(***************************************************************************)
LEMMA KilledKeepsSizes ==
  ASSUME TypeOK, TypeOK', SizesKept, NEW b \in Body, KilledInLog(b)
  PROVE  SizesKept'
<1> SUFFICES ASSUME MaxFile > 0 PROVE SizesKept'
  BY DEF SizesKept
<1>1. /\ file \in Seq(Line) /\ buf \in Seq(Event) /\ prev \in Seq(Line)
      /\ faults \in Nat /\ halted \in Nat
      /\ buf' = <<>> /\ proc' = "down"
      /\ faults' = faults /\ halted' = halted + 1
  BY EventLogAssumption DEF TypeOK, KilledInLog
<1>2. PICK f : Grown(Stored(b), f) /\ HalfRotated(f)
  BY KilledGrows
<1>3. /\ f \in Seq(Line) /\ Len(f) <= Len(file) + Len(buf) + 1
      /\ file' \in {f, <<>>} /\ prev' \in {prev, f, <<>>}
  BY <1>2 DEF Grown, HalfRotated
<1>4. /\ Len(file) \in Nat /\ Len(buf) \in Nat /\ Len(prev) \in Nat
      /\ Len(f) \in Nat /\ MaxFile \in Nat /\ Len(<<>>) = 0
  BY <1>1, <1>3, EventLogAssumption
<1>5. Paid \in Nat /\ Paid' = Paid + 1
  <2> DEFINE cost == faults * Full
  <2>1. cost \in Nat
    BY <1>1, FaultCost
  <2>2. Paid = cost + halted /\ Paid' = cost + (halted + 1)
    BY <1>1 DEF Paid, Full
  <2> HIDE DEF cost
  <2> QED
    BY <1>1, <2>1, <2>2
<1>6. Len(file) + Len(buf) <= Paid + MaxFile /\ Len(prev) <= Paid + Full
  BY DEF SizesKept
<1>7. /\ Len(file') + Len(buf') <= Paid' + MaxFile
      /\ Len(prev') <= Paid' + Full
  <2>1. Len(f) <= Paid + MaxFile + 1
    BY <1>3, <1>4, <1>5, <1>6
  <2>2. Len(buf') = 0 /\ (Len(file') = Len(f) \/ Len(file') = 0)
    BY <1>1, <1>3
  <2>3. Len(prev') \in {Len(prev), Len(f), 0}
    BY <1>3
  <2> QED
    BY <1>4, <1>5, <1>6, <2>1, <2>2, <2>3 DEF Full
<1> QED
  BY <1>1, <1>7 DEF SizesKept, Full

-----------------------------------------------------------------------------
\* Which event may stand in front of which.

(***************************************************************************)
(* The order of logging, as a relation between two events of the log.      *)
(***************************************************************************)
RunOrder == {p \in Event \X Event : Earlier(p[1], p[2])}

(***************************************************************************)
(* What RestartShowsWhatSurvived rests on: behind an event that the ring   *)
(* shows, the disk holds nothing but later events that the ring shows.     *)
(***************************************************************************)
RingOrder(r) ==
  {p \in Event \X Event :
     p[1] \in ToSet(r) => p[2] \in ToSet(r) /\ Earlier(p[1], p[2])}

\* What was logged is of a run that has begun, and not ahead of its ids.
Known(e) ==
  /\ e.run <= run
  /\ e.run = run /\ proc # "down" => e.id <= nextID

EventsKept ==
  /\ Sorted(file, buf, RunOrder)
  /\ Sorted(prev, <<>>, RunOrder)
  /\ \A d \in Said(prev, <<>>), e \in Said(file, buf) : <<d, e>> \in RunOrder
  /\ \A e \in Said(prev, <<>>) \cup Said(file, buf) : Known(e)
  /\ Sorted(file, buf, RingOrder(ring))
  /\ SeqSorted(ring, RunOrder)
  /\ \A e \in ToSet(ring) : Known(e)

(***************************************************************************)
(* Of two events at most one is earlier, and none is earlier than itself.  *)
(***************************************************************************)
LEMMA EarlierOnce ==
  ASSUME NEW d \in Event, NEW e \in Event, Earlier(d, e)
  PROVE  d # e /\ ~Earlier(e, d)
<1>1. d.run \in Nat /\ d.id \in Nat /\ e.run \in Nat /\ e.id \in Nat
  BY DEF Event
<1> QED
  BY <1>1 DEF Earlier

(***************************************************************************)
(* What a file and a buffer say are events.                                *)
(***************************************************************************)
LEMMA SaidType ==
  ASSUME NEW f \in Seq(Line), NEW b \in Seq(Event)
  PROVE  Said(f, b) \subseteq Event
<1>1. \A i \in 1..Len(f) : f[i].ev \in Event
  BY IdType, ElementOfSeq
<1>2. DOMAIN f = 1..Len(f)
  OBVIOUS
<1>3. \A i \in 1..Len(b) : b[i] \in Event
  BY ElementOfSeq
<1> QED
  BY <1>1, <1>2, <1>3 DEF Said, EventsOf

(***************************************************************************)
(* An empty file and an empty buffer say nothing, in any order.            *)
(***************************************************************************)
LEMMA NothingSaid ==
  /\ Said(<<>>, <<>>) = {}
  /\ \A R : Sorted(<<>>, <<>>, R)
<1>1. DOMAIN <<>> = {} /\ 1..Len(<<>>) = {}
  OBVIOUS
<1> QED
  BY <1>1 DEF Said, EventsOf, Sorted

(***************************************************************************)
(* A relation between the events that are said may be replaced by another  *)
(* that holds of the same pairs.                                           *)
(***************************************************************************)
LEMMA SortedBy ==
  ASSUME NEW f \in Seq(Line), NEW b \in Seq(Event), NEW R, NEW S,
         Sorted(f, b, R),
         \A d, e \in Said(f, b) : <<d, e>> \in R => <<d, e>> \in S
  PROVE  Sorted(f, b, S)
<1>1. \A i \in 1..Len(f) : Parses(f[i]) => f[i].ev \in Said(f, b)
  <2>1. DOMAIN f = 1..Len(f)
    OBVIOUS
  <2> QED
    BY <2>1 DEF Said, EventsOf
<1>2. \A i \in 1..Len(b) : b[i] \in Said(f, b)
  BY DEF Said
<1> QED
  BY <1>1, <1>2 DEF Sorted

(***************************************************************************)
(* Pushing a new event: of the old ones the ring keeps, each was there,    *)
(* and only the first of them may go.                                      *)
(***************************************************************************)
LEMMA PushKeeps ==
  ASSUME NEW r \in Seq(Event), NEW e \in Event, SeqSorted(r, RunOrder)
  PROVE  /\ e \in ToSet(Push(r, e))
         /\ ToSet(Push(r, e)) \subseteq ToSet(r) \cup {e}
         /\ \A d \in ToSet(r), k \in ToSet(r) :
              d \in ToSet(Push(r, e)) /\ d # e /\ Earlier(d, k)
                => k \in ToSet(Push(r, e))
<1>0. Len(r) \in Nat /\ DOMAIN r = 1..Len(r) /\ MaxRows \in Nat \ {0}
  BY EventLogAssumption
<1>1. CASE Len(r) < MaxRows
  <2>1. Push(r, e) = Append(r, e)
    BY <1>1 DEF Push
  <2>2. /\ DOMAIN Append(r, e) = 1..Len(r) + 1
        /\ \A i \in 1..Len(r) : Append(r, e)[i] = r[i]
        /\ Append(r, e)[Len(r) + 1] = e
    OBVIOUS
  <2>3. ToSet(Append(r, e)) = ToSet(r) \cup {e}
    BY <1>0, <2>2 DEF ToSet
  <2> QED
    BY <2>1, <2>3
<1>2. CASE ~(Len(r) < MaxRows)
  <2> DEFINE s == Tail(r)
  <2>1. Push(r, e) = Append(s, e)
    BY <1>2 DEF Push
  <2>2. r # <<>>
    BY <1>0, <1>2
  <2>3. /\ s \in Seq(Event)
        /\ Len(s) = Len(r) - 1
        /\ \A i \in 1..Len(s) : s[i] = r[i + 1]
    BY <2>2, HeadTailProperties
  <2> HIDE DEF s
  <2>4. /\ DOMAIN Append(s, e) = 1..Len(s) + 1
        /\ \A i \in 1..Len(s) : Append(s, e)[i] = s[i]
        /\ Append(s, e)[Len(s) + 1] = e
        /\ Len(s) \in Nat
    BY <2>3
  <2>5. ToSet(Append(s, e)) = {s[i] : i \in 1..Len(s)} \cup {e}
    BY <2>4 DEF ToSet
  <2>6. \A i \in 1..Len(r) : i # 1 => r[i] \in ToSet(Append(s, e))
    <3> SUFFICES ASSUME NEW i \in 1..Len(r), i # 1
                 PROVE  r[i] \in ToSet(Append(s, e))
      OBVIOUS
    <3>1. i - 1 \in 1..Len(s) /\ (i - 1) + 1 = i
      BY <1>0, <2>3
    <3>2. s[i - 1] = r[i]
      BY <2>3, <3>1
    <3> QED
      BY <2>5, <3>1, <3>2
  <2>7. \A i \in 1..Len(s) : i + 1 \in 1..Len(r) /\ i + 1 # 1 /\ 1 < i + 1
    BY <1>0, <2>3
  <2>8. ToSet(Append(s, e)) \subseteq ToSet(r) \cup {e}
    BY <1>0, <2>3, <2>5, <2>7 DEF ToSet
  <2>9. ASSUME NEW d \in ToSet(r), NEW k \in ToSet(r),
               d \in ToSet(Append(s, e)), d # e, Earlier(d, k)
        PROVE  k \in ToSet(Append(s, e))
    <3>1. PICK i \in 1..Len(s) : d = r[i + 1]
      BY <2>3, <2>5, <2>9
    <3>2. PICK j \in 1..Len(r) : k = r[j]
      BY <1>0 DEF ToSet
    <3>3. i + 1 \in 1..Len(r) /\ 1 \in 1..Len(r) /\ 1 < i + 1
      BY <1>0, <2>7
    <3>4. Earlier(r[1], d)
      BY <3>1, <3>3 DEF SeqSorted, RunOrder
    <3>5. r[1] \in Event /\ d \in Event /\ k \in Event
      BY <3>1, <3>2, <3>3, ElementOfSeq
    <3>6. ~Earlier(k, d)
      BY <2>9, <3>5, EarlierOnce
    <3>7. j # 1
      BY <3>2, <3>4, <3>6
    <3> QED
      BY <2>6, <3>2, <3>7
  <2>10. e \in ToSet(Append(s, e))
    BY <2>5
  <2> QED
    BY <2>1, <2>8, <2>9, <2>10
<1> QED
  BY <1>1, <1>2

-----------------------------------------------------------------------------
\* Each step keeps the events in order.

(***************************************************************************)
(* The new event, against what is said and shown before it.                *)
(***************************************************************************)
LEMMA NewEventIsLast ==
  ASSUME TypeOK, SeqBounded(ring, nextID), EventsKept, proc # "down",
         NEW e \in Event, e.id = nextID + 1, e.run = run,
         ring' = Push(ring, e), nextID' = nextID + 1, run' = run
  PROVE  /\ \A d \in Said(prev, <<>>) \cup Said(file, buf) : <<d, e>> \in RunOrder
         /\ \A d \in Said(file, buf) : <<d, e>> \in RingOrder(ring')
         /\ Sorted(file, buf, RingOrder(ring'))
         /\ SeqSorted(ring', RunOrder)
         /\ \A k \in Said(prev, <<>>) \cup Said(file, buf) \cup {e} : Known(k)'
         /\ \A k \in ToSet(ring') : Known(k)'
<1>1. /\ file \in Seq(Line) /\ buf \in Seq(Event) /\ prev \in Seq(Line)
      /\ ring \in Seq(Event) /\ nextID \in Nat /\ run \in Nat
      /\ <<>> \in Seq(Event)
  BY EventLogAssumption DEF TypeOK
<1>2. /\ Said(prev, <<>>) \subseteq Event /\ Said(file, buf) \subseteq Event
      /\ ToSet(ring) \subseteq Event
  <2>1. ToSet(ring) \subseteq Event
    BY <1>1, ElementOfSeq DEF ToSet
  <2> QED
    BY <1>1, <2>1, SaidType
<1> DEFINE old == Said(prev, <<>>) \cup Said(file, buf) \cup ToSet(ring)
<1>3. \A d \in old : Known(d) /\ d \in Event
  BY <1>2 DEF EventsKept
<1>4. \A d \in Event : d.id \in Nat /\ d.run \in Nat
  BY DEF Event
<1> HIDE DEF old
<1>5. \A d \in old : <<d, e>> \in RunOrder
  BY <1>1, <1>3, <1>4 DEF RunOrder, Earlier, Known
<1>6. \A d \in old \cup {e} : Known(d)'
  BY <1>1, <1>3, <1>4 DEF Known
<1>7. /\ e \in ToSet(ring')
      /\ ToSet(ring') \subseteq ToSet(ring) \cup {e}
      /\ \A d \in ToSet(ring), k \in ToSet(ring) :
           d \in ToSet(ring') /\ d # e /\ Earlier(d, k) => k \in ToSet(ring')
  BY <1>1, PushKeeps DEF EventsKept
<1>8. SeqSorted(ring', RunOrder)
  <2>1. \A i \in 1..Len(ring) : ring[i] \in old
    BY <1>1 DEF old, ToSet
  <2> QED
    BY <1>1, <1>5, <2>1, PushKeepsOrder DEF EventsKept
<1>9. \A d \in old : d # e
  BY <1>3, <1>5, EarlierOnce DEF RunOrder
<1>10. \A d \in Said(file, buf) : <<d, e>> \in RingOrder(ring')
  BY <1>2, <1>5, <1>7 DEF RingOrder, RunOrder, old
<1>11. \A d, k \in Said(file, buf) :
         <<d, k>> \in RingOrder(ring) => <<d, k>> \in RingOrder(ring')
  BY <1>2, <1>7, <1>9 DEF RingOrder, old
<1>12. Sorted(file, buf, RingOrder(ring'))
  BY <1>1, <1>11, SortedBy DEF EventsKept
<1> QED
  BY <1>5, <1>6, <1>7, <1>8, <1>10, <1>12 DEF old

(***************************************************************************)
(* Log keeps the events in order: whatever it does to the two files and    *)
(* the buffer squeezes them, with the new event last or without it.        *)
(***************************************************************************)
LEMMA LogKeepsEvents ==
  ASSUME TypeOK, TypeOK', SeqBounded(ring, nextID), EventsKept, GoneIsEmpty,
         proc # "down", NEW e \in Event, e.id = nextID + 1, e.run = run,
         ring' = Push(ring, e), nextID' = nextID + 1, UNCHANGED <<proc, run>>,
         WriteLine(e)
  PROVE  EventsKept'
<1>1. /\ file \in Seq(Line) /\ buf \in Seq(Event) /\ prev \in Seq(Line)
      /\ file' \in Seq(Line) /\ buf' \in Seq(Event) /\ prev' \in Seq(Line)
      /\ nextID \in Nat /\ run \in Nat
      /\ <<>> \in Seq(Event) /\ <<>> \in Seq(Line)
      /\ Append(buf, e) \in Seq(Event) /\ Append(<<>>, e) = <<e>>
  BY EventLogAssumption DEF TypeOK
<1> DEFINE Q == RingOrder(ring')
<1>2. /\ \A d \in Said(prev, <<>>) \cup Said(file, buf) : <<d, e>> \in RunOrder
      /\ \A d \in Said(file, buf) : <<d, e>> \in Q
      /\ Sorted(file, buf, Q)
      /\ SeqSorted(ring', RunOrder)
      /\ \A k \in Said(prev, <<>>) \cup Said(file, buf) \cup {e} : Known(k)'
      /\ \A k \in ToSet(ring') : Known(k)'
  BY NewEventIsLast
<1>3. /\ Sorted(file, buf, RunOrder)
      /\ Sorted(prev, <<>>, RunOrder)
      /\ \A d \in Said(prev, <<>>), k \in Said(file, buf) : <<d, k>> \in RunOrder
      /\ \A k \in Said(prev, <<>>) \cup Said(file, buf) : Known(k)
  BY DEF EventsKept
<1> DEFINE all == Said(prev, <<>>) \cup Said(file, buf) \cup {e}
<1>4. \A k \in all : Known(k)'
  BY <1>2
<1> HIDE DEF Q
<1>5. SUFFICES /\ Sorted(file', buf', RunOrder)
               /\ Sorted(file', buf', Q)
               /\ Sorted(prev', <<>>, RunOrder)
               /\ \A d \in Said(prev', <<>>), k \in Said(file', buf') :
                    <<d, k>> \in RunOrder
               /\ Said(prev', <<>>) \cup Said(file', buf') \subseteq all
  BY <1>2, <1>4 DEF EventsKept, Q
<1>6. /\ Sorted(file, Append(buf, e), RunOrder)
      /\ Sorted(file, Append(buf, e), Q)
      /\ Said(file, Append(buf, e)) = Said(file, buf) \cup {e}
  BY <1>1, <1>2, <1>3, AppendSorted, SaidAppend
<1>7. CASE Written(e)
  <2>1. file' = file /\ buf' = Append(buf, e) /\ prev' = prev
    BY <1>7 DEF Written
  <2> QED
    BY <1>2, <1>3, <1>6, <2>1
<1>8. CASE Overflowed(e)
  <2>1. Squeezed(file, buf, file') /\ buf' = <<e>> /\ prev' = prev
    BY <1>8 DEF Overflowed
  <2>2. /\ Said(file', <<>>) \subseteq Said(file, buf)
        /\ Sorted(file', <<>>, RunOrder) /\ Sorted(file', <<>>, Q)
    BY <1>1, <1>2, <1>3, <2>1, SqueezeKeeps
  <2>3. /\ \A d \in Said(file', <<>>) : <<d, e>> \in RunOrder
        /\ \A d \in Said(file', <<>>) : <<d, e>> \in Q
    BY <1>2, <2>2
  <2>4. /\ Sorted(file', Append(<<>>, e), RunOrder)
        /\ Sorted(file', Append(<<>>, e), Q)
    BY <1>1, <2>2, <2>3, AppendSorted
  <2>5. Said(file', Append(<<>>, e)) = Said(file', <<>>) \cup {e}
    <3>1. file' \in Seq(Line) /\ <<>> \in Seq(Event)
      BY <1>1
    <3> QED
      BY <3>1, SaidAppend, Zenon
  <2> QED
    BY <1>1, <1>2, <1>3, <2>1, <2>2, <2>4, <2>5
<1>9. CASE RotatedAway(e)
  <2>1. PICK f \in Seq(Line) :
          /\ Squeezed(file, Append(buf, e), f)
          /\ MovesAside(f) \/ StaysBehind(f)
    BY <1>9 DEF RotatedAway
  <2>2. buf' = <<>>
    BY <1>9 DEF RotatedAway
  <2>3. /\ Said(f, <<>>) \subseteq Said(file, Append(buf, e))
        /\ Sorted(f, <<>>, RunOrder) /\ Sorted(f, <<>>, Q)
    BY <1>1, <1>6, <2>1, SqueezeKeeps
  <2>4. \/ prev' = f /\ file' = <<>>
        \/ prev' = <<>> /\ file' = f
    BY <2>1 DEF MovesAside, StaysBehind
  <2>5. Said(f, <<>>) \subseteq all
    BY <1>6, <2>3
  <2> HIDE DEF all
  <2> QED
    BY <2>2, <2>3, <2>4, <2>5, NothingSaid
<1>10. CASE LineLost
  <2>1. file' = file /\ buf' = buf /\ prev' = prev
    BY <1>10 DEF LineLost
  <2> QED
    BY <1>2, <1>3, <2>1
<1> QED
  BY <1>7, <1>8, <1>9, <1>10, WriteLineMoves

(***************************************************************************)
(* Emptying the buffer into the file keeps the events in order.            *)
(***************************************************************************)
LEMMA SettlingKeepsEvents ==
  ASSUME TypeOK, TypeOK', EventsKept, Settled
  PROVE  EventsKept'
<1>1. /\ file \in Seq(Line) /\ buf \in Seq(Event) /\ file' \in Seq(Line)
  BY DEF TypeOK
<1>2. /\ Squeezed(file, buf, file') /\ buf' = <<>>
      /\ UNCHANGED <<prev, run, ring, nextID>>
      /\ proc' # "down" => proc # "down"
  BY DEF Settled
<1>3. /\ Said(file', <<>>) \subseteq Said(file, buf)
      /\ Sorted(file', <<>>, RunOrder) /\ Sorted(file', <<>>, RingOrder(ring))
  BY <1>1, <1>2, SqueezeKeeps DEF EventsKept
<1>4. \A e : Known(e) => Known(e)'
  BY <1>2 DEF Known
<1> QED
  BY <1>2, <1>3, <1>4 DEF EventsKept

(***************************************************************************)
(* So does a kill in the middle of a Log.                                  *)
(***************************************************************************)
LEMMA KilledKeepsEvents ==
  ASSUME TypeOK, SeqBounded(ring, nextID), EventsKept,
         NEW b \in Body, KilledInLog(b)
  PROVE  EventsKept'
<1> DEFINE e == Stored(b)
           Q == RingOrder(ring')
           all == Said(prev, <<>>) \cup Said(file, buf) \cup {e}
<1>1. /\ proc # "down" /\ ring' = Push(ring, e) /\ nextID' = nextID + 1
      /\ buf' = <<>> /\ run' = run
  BY DEF KilledInLog
<1>2. e \in Event /\ e.id = nextID + 1 /\ e.run = run
  BY DEF TypeOK, Event, Stored
<1>3. PICK f : Grown(e, f) /\ HalfRotated(f)
  BY KilledGrows
<1> HIDE DEF e
<1>4. /\ \A d \in Said(prev, <<>>) \cup Said(file, buf) : <<d, e>> \in RunOrder
      /\ \A d \in Said(file, buf) : <<d, e>> \in Q
      /\ Sorted(file, buf, Q)
      /\ SeqSorted(ring', RunOrder)
      /\ \A k \in all : Known(k)'
      /\ \A k \in ToSet(ring') : Known(k)'
  BY <1>1, <1>2, NewEventIsLast
<1>5. /\ Sorted(file, buf, RunOrder)
      /\ Sorted(prev, <<>>, RunOrder)
      /\ \A d \in Said(prev, <<>>), k \in Said(file, buf) : <<d, k>> \in RunOrder
  BY DEF EventsKept
<1> HIDE DEF Q
<1>6. /\ Said(f, <<>>) \subseteq Said(file, buf) \cup {e}
      /\ Sorted(f, <<>>, RunOrder) /\ Sorted(f, <<>>, Q)
  BY <1>3, <1>4, <1>5 DEF Grown
<1>7. \A d \in Said(prev, <<>>), k \in Said(f, <<>>) : <<d, k>> \in RunOrder
  BY <1>4, <1>5, <1>6
<1>8. \/ file' = f /\ prev' = prev
      \/ file' = f /\ prev' = <<>>
      \/ file' = <<>> /\ prev' = f
  BY <1>3 DEF HalfRotated
<1>9. SUFFICES /\ Sorted(file', <<>>, RunOrder)
               /\ Sorted(file', <<>>, Q)
               /\ Sorted(prev', <<>>, RunOrder)
               /\ \A d \in Said(prev', <<>>), k \in Said(file', <<>>) :
                    <<d, k>> \in RunOrder
               /\ Said(prev', <<>>) \cup Said(file', <<>>) \subseteq all
  BY <1>1, <1>4 DEF EventsKept, Q
<1>10. Said(f, <<>>) \subseteq all /\ Said(prev, <<>>) \subseteq all
  BY <1>6
<1> HIDE DEF all
<1> QED
  BY <1>5, <1>6, <1>7, <1>8, <1>10, NothingSaid

-----------------------------------------------------------------------------
\* The boot.

(***************************************************************************)
(* The ring that a boot reads shows the end of the file: behind a line     *)
(* whose event it shows, it shows every line that parses.  Two lines never *)
(* say the same event, or the ring could show it for the wrong one.        *)
(***************************************************************************)
LEMMA ReplayIsTail ==
  ASSUME NEW f \in Seq(Line), ReadTail(f), Sorted(f, <<>>, RunOrder)
  PROVE  /\ Sorted(f, <<>>, RingOrder(ring'))
         /\ SeqSorted(ring', RunOrder)
         /\ ToSet(ring') \subseteq Said(f, <<>>)
<1> DEFINE P == Replayable(f)
<1>0. PICK n \in Nat : \E at \in [1..n -> P] :
        /\ \A i, j \in 1..n : i < j => at[i] < at[j]
        /\ \A p \in P : (\A i \in 1..n : at[i] # p) => \A i \in 1..n : p < at[i]
        /\ ring' = [i \in 1..n |-> f[at[i]].ev]
        /\ Len(ring') = n
  BY ReadTailAt
<1>1. PICK at \in [1..n -> P] :
        /\ \A i, j \in 1..n : i < j => at[i] < at[j]
        /\ \A p \in P : (\A i \in 1..n : at[i] # p) => \A i \in 1..n : p < at[i]
        /\ ring' = [i \in 1..n |-> f[at[i]].ev]
        /\ Len(ring') = n
  BY <1>0
<1>2. \A p \in 1..Len(f) : p \in P <=> WindowStart(f) < p /\ Parses(f[p])
  BY DEF Replayable, Window
<1>3. P \subseteq 1..Len(f)
  BY DEF Replayable, Window
<1> HIDE DEF P
<1>4. ToSet(ring') = {f[at[i]].ev : i \in 1..n}
  BY <1>1 DEF ToSet
<1>5. Len(f) \in Nat /\ WindowStart(f) \in Nat
  BY WindowType
<1>6. \A i \in 1..Len(f) : f[i].ev \in Event
  BY IdType, ElementOfSeq
<1>7. ASSUME NEW p \in 1..Len(f), NEW q \in 1..Len(f), Parses(f[p]), Parses(f[q]),
             f[p].ev = f[q].ev
      PROVE  p = q
  <2>1. ASSUME NEW i \in 1..Len(f), NEW j \in 1..Len(f), i < j,
               Parses(f[i]), Parses(f[j])
        PROVE  f[i].ev # f[j].ev
    <3>1. <<f[i].ev, f[j].ev>> \in RunOrder
      BY <2>1 DEF Sorted
    <3> QED
      BY <1>6, <3>1, EarlierOnce DEF RunOrder
  <2>2. ~(p < q) /\ ~(q < p)
    BY <1>7, <2>1
  <2> QED
    BY <1>5, <2>2
<1>8. ASSUME NEW i \in 1..Len(f), NEW j \in 1..Len(f), i < j,
             Parses(f[i]), Parses(f[j]), f[i].ev \in ToSet(ring')
      PROVE  f[j].ev \in ToSet(ring') /\ Earlier(f[i].ev, f[j].ev)
  <2>1. PICK k \in 1..n : i = at[k]
    <3>1. PICK k \in 1..n : f[i].ev = f[at[k]].ev
      BY <1>4, <1>8
    <3>2. at[k] \in P
      BY <1>1
    <3>3. at[k] \in 1..Len(f) /\ Parses(f[at[k]])
      BY <1>2, <1>3, <3>2
    <3> QED
      BY <1>7, <1>8, <3>1, <3>3
  <2>2. i \in P /\ WindowStart(f) < i
    BY <1>1, <1>2, <2>1
  <2>3. j \in P
    BY <1>2, <1>5, <1>8, <2>2
  <2>4. \E m \in 1..n : at[m] = j
    <3>1. ~(j < at[k])
      BY <1>5, <1>8, <2>1
    <3> QED
      BY <1>1, <2>3, <3>1
  <2>5. f[j].ev \in ToSet(ring')
    BY <1>4, <2>4
  <2>6. <<f[i].ev, f[j].ev>> \in RunOrder
    BY <1>8 DEF Sorted
  <2> QED
    BY <2>5, <2>6 DEF RunOrder
<1>9. Sorted(f, <<>>, RingOrder(ring'))
  BY <1>6, <1>8 DEF Sorted, RingOrder
<1>10. SeqSorted(ring', RunOrder)
  <2> SUFFICES ASSUME NEW i \in 1..n, NEW j \in 1..n, i < j
               PROVE  <<f[at[i]].ev, f[at[j]].ev>> \in RunOrder
    BY <1>1 DEF SeqSorted
  <2>1. at[i] \in P /\ at[j] \in P /\ at[i] < at[j]
    BY <1>1
  <2>2. /\ at[i] \in 1..Len(f) /\ Parses(f[at[i]])
        /\ at[j] \in 1..Len(f) /\ Parses(f[at[j]])
    BY <1>2, <1>3, <2>1
  <2> QED
    BY <2>1, <2>2 DEF Sorted
<1>11. ToSet(ring') \subseteq Said(f, <<>>)
  <2> SUFFICES ASSUME NEW i \in 1..n PROVE f[at[i]].ev \in Said(f, <<>>)
    BY <1>4
  <2>1. at[i] \in P
    BY <1>1
  <2>2. at[i] \in 1..Len(f) /\ Parses(f[at[i]])
    BY <1>2, <1>3, <2>1
  <2>3. DOMAIN f = 1..Len(f)
    OBVIOUS
  <2> QED
    BY <2>2, <2>3 DEF Said, EventsOf
<1> QED
  BY <1>9, <1>10, <1>11

(***************************************************************************)
(* A boot keeps the events in order: the new run has said nothing yet, and *)
(* the new ring is the tail of the file.                                   *)
(***************************************************************************)
LEMMA StartKeepsEvents ==
  ASSUME TypeOK, EventsKept, Start
  PROVE  EventsKept'
<1>1. /\ proc = "down" /\ run' = run + 1 /\ Replay(file)
      /\ UNCHANGED <<buf, file, prev>>
  BY DEF Start
<1>2. file \in Seq(Line) /\ prev \in Seq(Line) /\ buf = <<>> /\ run \in Nat
  BY <1>1, EventLogAssumption DEF TypeOK
<1>3. Sorted(file, <<>>, RunOrder)
  BY <1>2 DEF EventsKept
<1>4. /\ Sorted(file, <<>>, RingOrder(ring'))
      /\ SeqSorted(ring', RunOrder)
      /\ ToSet(ring') \subseteq Said(file, <<>>)
  <2>1. CASE ReadTail(file)
    BY <1>2, <1>3, <2>1, ReplayIsTail
  <2>2. CASE ring' = <<>>
    <3>1. ToSet(<<>>) = {} /\ SeqSorted(<<>>, RunOrder)
      BY DEF ToSet, SeqSorted
    <3>2. \A i \in 1..Len(file) : file[i].ev \in Event
      BY <1>2, IdType, ElementOfSeq
    <3>3. Sorted(file, <<>>, RingOrder(<<>>))
      BY <3>1, <3>2 DEF Sorted, RingOrder
    <3> QED
      BY <2>2, <3>1, <3>3
  <2> QED
    BY <1>1, <2>1, <2>2 DEF Replay
<1>5. \A e \in Said(prev, <<>>) \cup Said(file, buf) : e.run \in Nat /\ e.run <= run
  <2>1. <<>> \in Seq(Event)
    OBVIOUS
  <2>2. Said(prev, <<>>) \cup Said(file, buf) \subseteq Event
    BY <1>2, <2>1, SaidType
  <2>3. \A e \in Event : e.run \in Nat
    BY DEF Event
  <2> QED
    BY <2>2, <2>3 DEF EventsKept, Known
<1>6. \A e \in Said(prev, <<>>) \cup Said(file, buf) : Known(e)'
  BY <1>1, <1>2, <1>5 DEF Known
<1>7. \A e \in ToSet(ring') : Known(e)'
  BY <1>2, <1>4, <1>6
<1> QED
  BY <1>1, <1>2, <1>4, <1>6, <1>7 DEF EventsKept

-----------------------------------------------------------------------------
\* What the store keeps on disk, in every reachable state.

(***************************************************************************)
(* The inductive invariant of the files, on top of IInv.                   *)
(***************************************************************************)
DiskInv == IInv /\ GoneIsEmpty /\ SizesKept /\ EventsKept

(***************************************************************************)
(* An empty data directory satisfies the invariant of the files.           *)
(***************************************************************************)
LEMMA InitDiskInv == Init => DiskInv
<1> SUFFICES ASSUME Init PROVE DiskInv
  OBVIOUS
<1>1. IInv
  BY InitIInv
<1>2. GoneIsEmpty /\ SizesKept
  <2>1. Len(file) = 0 /\ Len(buf) = 0 /\ Len(prev) = 0 /\ faults = 0
        /\ fileBytes = 0 /\ writer = "open"
    BY DEF Init
  <2>2. 0 * Full = 0 /\ Full \in Nat /\ MaxFile \in Nat /\ halted = 0
    BY EventLogAssumption DEF Full, Init
  <2>3. Paid = 0
    BY <2>1, <2>2 DEF Paid
  <2> QED
    BY <2>1, <2>2, <2>3 DEF GoneIsEmpty, SizesKept
<1>3. EventsKept
  <2>1. SeqSorted(<<>>, RunOrder) /\ ToSet(<<>>) = {}
    BY DEF SeqSorted, ToSet
  <2> QED
    BY <2>1, NothingSaid DEF Init, EventsKept
<1> QED
  BY <1>1, <1>2, <1>3 DEF DiskInv

(***************************************************************************)
(* Every step keeps the invariant of the files.                            *)
(***************************************************************************)
LEMMA NextDiskInv == DiskInv /\ [Next]_vars => DiskInv'
<1> SUFFICES ASSUME DiskInv, [Next]_vars PROVE DiskInv'
  OBVIOUS
<1>1. IInv /\ GoneIsEmpty /\ SizesKept /\ EventsKept
  BY DEF DiskInv
<1>2. IInv'
  BY <1>1, NextIInv
<1>3. TypeOK /\ TypeOK' /\ SeqBounded(ring, nextID)
  BY <1>1, <1>2 DEF IInv
<1>4. ASSUME NEW b \in Body, Log(b)
      PROVE  DiskInv'
  <2> DEFINE e == Stored(b)
  <2>1. nextID \in Nat /\ run \in 1..MaxRuns
    BY <1>3 DEF TypeOK
  <2>2. e \in Event /\ e.id = nextID + 1 /\ e.run = run
    BY <2>1 DEF Event, Stored
  <2>3. /\ proc # "down" /\ ring' = Push(ring, e) /\ nextID' = nextID + 1
        /\ WriteLine(e) /\ UNCHANGED <<proc, run, halted>>
    BY <1>4 DEF Log
  <2> HIDE DEF e
  <2>4. GoneIsEmpty'
    BY <1>1, <1>3, <2>2, <2>3, WriteLineMoves
  <2>5. SizesKept'
    BY <1>1, <1>3, <2>2, <2>3, LogKeepsSizes
  <2>6. EventsKept'
    BY <1>1, <1>3, <2>2, <2>3, LogKeepsEvents
  <2> QED
    BY <1>2, <2>4, <2>5, <2>6 DEF DiskInv
<1>5. CASE Flush \/ Drain \/ FlushFails \/ Exit \/ Crash
  <2>1. Settled /\ GoneIsEmpty'
    BY <1>1, <1>3, <1>5, OthersSettle
  <2> QED
    BY <1>1, <1>2, <1>3, <2>1, SettlingKeepsSizes, SettlingKeepsEvents DEF DiskInv
<1>6. ASSUME NEW b \in Body, KilledInLog(b)
      PROVE  DiskInv'
  <2>1. SizesKept'
    BY <1>1, <1>3, <1>6, KilledKeepsSizes
  <2>2. EventsKept'
    BY <1>1, <1>3, <1>6, KilledKeepsEvents
  <2>3. GoneIsEmpty'
    <3>1. writer' = writer /\ (writer = "gone" => HalfRotated(file))
      BY <1>6 DEF KilledInLog
    <3> QED
      BY <1>1, <3>1 DEF GoneIsEmpty, HalfRotated
  <2> QED
    BY <1>2, <2>1, <2>2, <2>3 DEF DiskInv
<1>7. CASE Start
  <2>1. EventsKept'
    BY <1>1, <1>3, <1>7, StartKeepsEvents
  <2>2. GoneIsEmpty' /\ SizesKept'
    <3>1. /\ proc = "down" /\ writer' = "open" /\ fileBytes' = Len(file)
          /\ UNCHANGED <<buf, file, prev, faults, halted>>
      BY <1>7 DEF Start, SizeOf
    <3>2. file \in Seq(Line) /\ buf = <<>> /\ faults \in Nat /\ halted \in Nat
      BY <1>3, <3>1, EventLogAssumption DEF TypeOK
    <3>3. Len(file) \in Nat /\ Len(buf) = 0
      BY <3>2
    <3>4. Paid \in Nat /\ Paid' = Paid
      <4>1. faults * Full \in Nat
        BY <3>2, FaultCost
      <4> QED
        BY <3>1, <3>2, <4>1 DEF Paid
    <3> QED
      BY <1>1, <3>1, <3>3, <3>4 DEF GoneIsEmpty, SizesKept
  <2> QED
    BY <1>2, <2>1, <2>2 DEF DiskInv
<1>8. CASE Close
  BY <1>1, <1>2, <1>8 DEF Close, DiskInv, GoneIsEmpty, SizesKept, Paid, EventsKept,
                           Known
<1>9. CASE UNCHANGED vars
  BY <1>1, <1>2, <1>9 DEF vars, DiskInv, GoneIsEmpty, SizesKept, Paid, EventsKept,
                           Known
<1> QED
  BY <1>4, <1>5, <1>6, <1>7, <1>8, <1>9 DEF Next

(***************************************************************************)
(* DiskInv holds in every reachable state of the event store.              *)
(***************************************************************************)
THEOREM DiskInvariance == Spec => []DiskInv
  BY InitDiskInv, NextDiskInv, PTL DEF Spec

(***************************************************************************)
(* The ring is bounded by MaxRows, in the order of logging, and never      *)
(* ahead of the counter, whatever crashes, rotations and failing calls     *)
(* came before; and until a boot gives up, no id comes back in it.         *)
(***************************************************************************)
THEOREM RingStaysInOrder == Spec => []RingInOrder
<1>1. DiskInv => RingInOrder
  <2> SUFFICES ASSUME DiskInv PROVE RingInOrder
    OBVIOUS
  <2>1. SeqBounded(ring, nextID) /\ SeqSorted(ring, RunOrder)
    BY DEF DiskInv, IInv, EventsKept
  <2>2. ~gaveUp => SeqSorted(ring, IdOrder)
    BY DEF DiskInv, IInv, IdsGrow
  <2> QED
    BY <2>1, <2>2 DEF RingInOrder, SeqBounded, SeqSorted, RunOrder, IdOrder
<1> QED
  BY <1>1, DiskInvariance, PTL

(***************************************************************************)
(* Neither of the two files outgrows the cap by more than one event, by    *)
(* one more full file for every system call that failed, and by one more   *)
(* event for every rotation that a kill cut short.                         *)
(***************************************************************************)
THEOREM DiskStaysBounded == Spec => []DiskBounded
<1>1. DiskInv => DiskBounded
  <2> SUFFICES ASSUME DiskInv, MaxFile > 0
               PROVE  Len(file) <= Allowance /\ Len(prev) <= Allowance
    BY DEF DiskBounded
  <2>1. /\ file \in Seq(Line) /\ buf \in Seq(Event) /\ prev \in Seq(Line)
        /\ faults \in Nat /\ halted \in Nat
    BY EventLogAssumption DEF DiskInv, IInv, TypeOK
  <2>2. /\ Len(file) \in Nat /\ Len(buf) \in Nat /\ Len(prev) \in Nat
        /\ MaxFile \in Nat
    BY <2>1, EventLogAssumption
  <2> DEFINE cost == faults * Full
  <2>3. cost \in Nat /\ (faults + 1) * Full = cost + Full
    BY <2>1, FaultCost
  <2>4. Allowance = cost + Full + halted /\ Paid = cost + halted
    BY <2>3 DEF Allowance, Full, Paid
  <2>5. /\ Len(file) + Len(buf) <= Paid + MaxFile
        /\ Len(prev) <= Paid + Full
    BY DEF DiskInv, SizesKept
  <2>6. Full = MaxFile + 1
    BY DEF Full
  <2> HIDE DEF cost
  <2> QED
    BY <2>1, <2>2, <2>3, <2>4, <2>5, <2>6
<1> QED
  BY <1>1, DiskInvariance, PTL

(***************************************************************************)
(* A line that is whole in the file is not destroyed: whatever the step,   *)
(* it is still in the file or has moved to the kept generation.            *)
(***************************************************************************)
THEOREM LinesOnlyMove == Spec => OnlyRotationMovesLines
<1>1. DiskInv /\ [Next]_vars =>
        [WholeLines(file) \subseteq WholeLines(file') \cup WholeLines(prev')]_vars
  <2> SUFFICES ASSUME DiskInv, Next
               PROVE  WholeLines(file) \subseteq WholeLines(file') \cup WholeLines(prev')
    OBVIOUS
  <2>1. TypeOK /\ GoneIsEmpty
    BY DEF DiskInv, IInv
  <2>2. ASSUME NEW b \in Body, Log(b)
        PROVE  WholeLines(file) \subseteq WholeLines(file') \cup WholeLines(prev')
    <3> DEFINE e == Stored(b)
    <3>1. e \in Event /\ WriteLine(e)
      BY <2>1, <2>2 DEF TypeOK, Event, Stored, Log
    <3> HIDE DEF e
    <3>2. Written(e) \/ Overflowed(e) \/ RotatedAway(e) \/ LineLost
      BY <2>1, <3>1, WriteLineMoves
    <3>3. CASE RotatedAway(e)
      BY <3>3 DEF RotatedAway, Holds, MovesAside, StaysBehind
    <3> QED
      BY <3>2, <3>3 DEF Written, Overflowed, LineLost, Holds
  <2>3. CASE Flush \/ Drain \/ FlushFails \/ Exit \/ Crash
    BY <2>1, <2>3, OthersSettle DEF Settled, Holds
  <2>4. CASE Close \/ Start
    BY <2>4 DEF Close, Start
  <2>5. ASSUME NEW b \in Body, KilledInLog(b)
        PROVE  WholeLines(file) \subseteq WholeLines(file') \cup WholeLines(prev')
    BY <2>1, <2>5, KilledGrows DEF Grown, HalfRotated
  <2> QED
    BY <2>2, <2>3, <2>4, <2>5 DEF Next
<1> QED
  BY <1>1, DiskInvariance, PTL DEF Spec, OnlyRotationMovesLines

(***************************************************************************)
(* On disk, over both generations and the buffer, the events of a run are  *)
(* in the order of their ids, and none is there twice.                     *)
(***************************************************************************)
THEOREM DiskStaysInOrder == Spec => []DiskInOrder
<1>1. DiskInv => DiskInOrder
  <2> SUFFICES ASSUME DiskInv PROVE DiskInOrder
    OBVIOUS
  <2> DEFINE lines == Buffered
             kept == prev \o file
             p == Len(prev)
             n == Len(file)
             m == Len(buf)
  <2>1. /\ prev \in Seq(Line) /\ file \in Seq(Line) /\ buf \in Seq(Event)
        /\ p \in Nat /\ n \in Nat /\ m \in Nat
    BY DEF DiskInv, IInv, TypeOK
  <2>2. lines \in Seq(Line) /\ Len(lines) = m
    <3>1. \A i \in 1..Len(buf) : buf[i] \in Event /\ TooLong(buf[i]) \in BOOLEAN
      BY <2>1, ElementOfSeq DEF TooLong
    <3> QED
      BY <2>1, <3>1 DEF Line, Buffered
  <2>3. \A i \in 1..m : lines[i].ev = buf[i]
    BY DEF Buffered
  <2>4. OnDisk = kept \o lines
    BY DEF OnDisk
  <2> HIDE DEF lines
  <2>5. /\ kept \in Seq(Line)
        /\ Len(kept) = p + n
        /\ \A i \in 1..p + n : kept[i] = IF i <= p THEN prev[i] ELSE file[i - p]
    BY <2>1, ConcatProperties
  <2> HIDE DEF kept
  <2>6. /\ Len(OnDisk) = p + n + m
        /\ \A i \in 1..p + n + m : OnDisk[i] =
               IF i <= p + n THEN kept[i] ELSE lines[i - (p + n)]
    <3>0. kept \in Seq(Line) /\ lines \in Seq(Line)
      BY <2>2, <2>5
    <3>1. /\ Len(kept \o lines) = Len(kept) + Len(lines)
          /\ \A i \in 1..Len(kept) + Len(lines) : (kept \o lines)[i] =
               IF i <= Len(kept) THEN kept[i] ELSE lines[i - Len(kept)]
      BY <3>0, ConcatProperties
    <3>2. Len(kept) = p + n /\ Len(lines) = m
      BY <2>2, <2>5
    <3> HIDE DEF p, n, m
    <3> QED
      BY <2>4, <3>1, <3>2
  <2> DEFINE all == Len(OnDisk)
  <2> HIDE DEF p, n, m, all
  <2>a. p \in Nat /\ n \in Nat /\ m \in Nat /\ all = p + n + m
    BY <2>1, <2>6 DEF all
  <2>7. \A i \in 1..all :
          \/ i \in 1..p /\ OnDisk[i] = prev[i]
          \/ i > p /\ i - p \in 1..n /\ OnDisk[i] = file[i - p]
          \/ i > p + n /\ i - (p + n) \in 1..m /\ OnDisk[i].ev = buf[i - (p + n)]
    <3> SUFFICES ASSUME NEW i \in 1..all
                 PROVE  \/ i \in 1..p /\ OnDisk[i] = prev[i]
                        \/ i > p /\ i - p \in 1..n /\ OnDisk[i] = file[i - p]
                        \/ i > p + n /\ i - (p + n) \in 1..m
                             /\ OnDisk[i].ev = buf[i - (p + n)]
      OBVIOUS
    <3>0. /\ i \in 1..p + n + m
          /\ OnDisk[i] = IF i <= p + n THEN kept[i] ELSE lines[i - (p + n)]
      BY <2>6, <2>a
    <3>1. CASE i <= p
      <4>1. i \in 1..p + n /\ i \in 1..p
        BY <2>a, <3>0, <3>1
      <4> QED
        BY <2>5, <3>0, <3>1, <4>1
    <3>2. CASE i > p /\ i <= p + n
      <4>1. i \in 1..p + n /\ i - p \in 1..n /\ ~(i <= p)
        BY <2>a, <3>0, <3>2
      <4> QED
        BY <2>5, <3>0, <3>2, <4>1
    <3>3. CASE i > p + n
      <4>1. i - (p + n) \in 1..m /\ ~(i <= p + n)
        BY <2>a, <3>0, <3>3
      <4> QED
        BY <2>3, <3>0, <3>3, <4>1
    <3> QED
      BY <2>a, <3>0, <3>1, <3>2, <3>3
  <2>8. /\ DOMAIN prev = 1..p /\ DOMAIN file = 1..n
        /\ Len(prev) = p /\ Len(file) = n /\ Len(buf) = m
    BY <2>1 DEF p, n, m
  <2>9. /\ Sorted(file, buf, RunOrder) /\ Sorted(prev, <<>>, RunOrder)
        /\ \A d \in Said(prev, <<>>), k \in Said(file, buf) : <<d, k>> \in RunOrder
    BY DEF DiskInv, EventsKept
  <2>10. /\ \A i \in 1..p : Parses(prev[i]) => prev[i].ev \in Said(prev, <<>>)
         /\ \A i \in 1..n : Parses(file[i]) => file[i].ev \in Said(file, buf)
         /\ \A i \in 1..m : buf[i] \in Said(file, buf)
    BY <2>8 DEF Said, EventsOf
  <2>11. SUFFICES ASSUME NEW i \in 1..all, NEW j \in 1..all, i < j,
                         Parses(OnDisk[i]), Parses(OnDisk[j])
                  PROVE  <<OnDisk[i].ev, OnDisk[j].ev>> \in RunOrder
    <3>1. \A x, y : <<x, y>> \in RunOrder /\ x.run = y.run => x.id < y.id
      <4> SUFFICES ASSUME NEW x, NEW y, <<x, y>> \in RunOrder, x.run = y.run
                   PROVE  x.id < y.id
        OBVIOUS
      <4>1. x \in Event /\ Earlier(x, y)
        BY DEF RunOrder
      <4>2. x.run \in Nat
        BY <4>1 DEF Event
      <4> QED
        BY <4>1, <4>2 DEF Earlier
    <3> QED
      BY <3>1 DEF DiskInOrder, all
  <2>12. CASE i \in 1..p /\ OnDisk[i] = prev[i]
    <3>1. CASE j \in 1..p /\ OnDisk[j] = prev[j]
      BY <2>8, <2>9, <2>11, <2>12, <3>1 DEF Sorted
    <3>2. CASE ~(j \in 1..p /\ OnDisk[j] = prev[j])
      BY <2>7, <2>9, <2>10, <2>11, <2>12, <3>2
    <3> QED
      BY <3>1, <3>2
  <2>13. CASE i > p /\ i - p \in 1..n /\ OnDisk[i] = file[i - p]
    <3>1. \/ /\ j - p \in 1..n /\ OnDisk[j] = file[j - p] /\ i - p < j - p
          \/ /\ j - (p + n) \in 1..m /\ OnDisk[j].ev = buf[j - (p + n)]
      <4>1. ~(j \in 1..p)
        BY <2>a, <2>11, <2>13
      <4>2. i - p < j - p
        BY <2>a, <2>11
      <4> QED
        BY <2>7, <4>1, <4>2
    <3> QED
      BY <2>8, <2>9, <2>11, <2>13, <3>1 DEF Sorted
  <2>14. CASE i > p + n /\ i - (p + n) \in 1..m /\ OnDisk[i].ev = buf[i - (p + n)]
    <3>1. /\ j - (p + n) \in 1..m /\ OnDisk[j].ev = buf[j - (p + n)]
          /\ i - (p + n) < j - (p + n)
      <4>1. ~(j \in 1..p) /\ ~(j - p \in 1..n)
        BY <2>a, <2>11, <2>14
      <4>2. i - (p + n) < j - (p + n)
        BY <2>a, <2>11
      <4> QED
        BY <2>7, <4>1, <4>2
    <3> QED
      BY <2>8, <2>9, <2>14, <3>1 DEF Sorted
  <2> QED
    BY <2>7, <2>12, <2>13, <2>14
<1> QED
  BY <1>1, DiskInvariance, PTL

-----------------------------------------------------------------------------
\* What a boot shows again.

(***************************************************************************)
(* A set that maps injectively into a finite set is no larger.             *)
(***************************************************************************)
LEMMA InjectionBounds ==
  ASSUME NEW S, NEW T, IsFiniteSet(S), IsFiniteSet(T), NEW h \in [S -> T],
         \A x, y \in S : h[x] = h[y] => x = y
  PROVE  Cardinality(S) <= Cardinality(T)
<1>1. ~(Cardinality(T) < Cardinality(S))
  BY FS_PigeonHole
<1>2. Cardinality(S) \in Nat /\ Cardinality(T) \in Nat
  BY FS_CardinalityType
<1> QED
  BY <1>1, <1>2

(***************************************************************************)
(* 1..n has n elements.                                                    *)
(***************************************************************************)
LEMMA IntervalCount ==
  ASSUME NEW n \in Nat
  PROVE  IsFiniteSet(1..n) /\ Cardinality(1..n) = n
<1>1. IsFiniteSet(1..n) /\ Cardinality(1..n) = IF 1 > n THEN 0 ELSE n - 1 + 1
  BY FS_Interval
<1> QED
  BY <1>1

(***************************************************************************)
(* The lines that do not parse are finitely many.                          *)
(***************************************************************************)
LEMMA JunkIsFinite ==
  ASSUME file \in Seq(Line), prev \in Seq(Line)
  PROVE  IsFiniteSet(JunkLines)
<1> DEFINE places == 1..Len(file) \cup 1..Len(prev)
<1>1. IsFiniteSet(places)
  <2>1. Len(file) \in Nat /\ Len(prev) \in Nat
    OBVIOUS
  <2>2. IsFiniteSet(1..Len(file)) /\ IsFiniteSet(1..Len(prev))
    BY <2>1, FS_Interval
  <2> QED
    BY <2>2, FS_Union
<1>2. IsFiniteSet({"file", "prev"})
  <2>1. {"file", "prev"} = {"file"} \cup {"prev"}
    OBVIOUS
  <2>2. IsFiniteSet({"file"}) /\ IsFiniteSet({"prev"})
    BY FS_Singleton
  <2> QED
    BY <2>1, <2>2, FS_Union
<1>3. IsFiniteSet({"file", "prev"} \X places)
  BY <1>1, <1>2, FS_Product
<1>4. JunkLines \subseteq {"file", "prev"} \X places
  BY DEF JunkLines
<1> QED
  BY <1>3, <1>4, FS_Subset

(***************************************************************************)
(* The lines from i on, of a file behind whose line i everything that      *)
(* parses is in the ring: at most MaxRows of them parse.                   *)
(***************************************************************************)
LEMMA TailFits ==
  ASSUME NEW f \in Seq(Line), NEW r \in Seq(Event), Len(r) <= MaxRows,
         Sorted(f, <<>>, RunOrder), Sorted(f, <<>>, RingOrder(r)),
         NEW i \in 1..Len(f), Parses(f[i]), f[i].ev \in ToSet(r)
  PROVE  LET A == {j \in i..Len(f) : Parses(f[j])}
         IN  IsFiniteSet(A) /\ Cardinality(A) \in Nat /\ Cardinality(A) <= MaxRows
<1> DEFINE A == {j \in i..Len(f) : Parses(f[j])}
           h == [j \in A |-> CHOOSE k \in 1..Len(r) : r[k] = f[j].ev]
<1>1. Len(f) \in Nat /\ Len(r) \in Nat /\ MaxRows \in Nat /\ i \in Nat
      /\ DOMAIN r = 1..Len(r)
  BY EventLogAssumption
<1>2. IsFiniteSet(A) /\ Cardinality(A) \in Nat
  <2>1. IsFiniteSet(i..Len(f))
    BY <1>1, FS_Interval
  <2>2. A \subseteq i..Len(f)
    OBVIOUS
  <2> QED
    BY <2>1, <2>2, FS_Subset, FS_CardinalityType
<1>3. \A j \in A : j \in 1..Len(f) /\ Parses(f[j]) /\ (j = i \/ i < j)
  BY <1>1
<1>4. \A j \in 1..Len(f) : f[j].ev \in Event /\ f[j].ev.id \in Nat
  BY IdType, ElementOfSeq
<1>5. \A j \in A : f[j].ev \in ToSet(r)
  <2> SUFFICES ASSUME NEW j \in A, i < j PROVE f[j].ev \in ToSet(r)
    BY <1>3
  <2>1. <<f[i].ev, f[j].ev>> \in RingOrder(r)
    BY <1>3 DEF Sorted
  <2> QED
    BY <2>1 DEF RingOrder
<1>6. \A j \in A : \E k \in 1..Len(r) : r[k] = f[j].ev
  BY <1>1, <1>5 DEF ToSet
<1>7. \A j \in A : h[j] \in 1..Len(r) /\ r[h[j]] = f[j].ev
  BY <1>6
<1>8. h \in [A -> 1..Len(r)]
  BY <1>7
<1>9. ASSUME NEW j \in A, NEW k \in A, h[j] = h[k]
      PROVE  j = k
  <2>1. f[j].ev = f[k].ev
    BY <1>7, <1>9
  <2>2. ~(j < k)
    <3> SUFFICES ASSUME j < k PROVE FALSE
      OBVIOUS
    <3>1. <<f[j].ev, f[k].ev>> \in RunOrder
      BY <1>3 DEF Sorted
    <3> QED
      BY <1>3, <1>4, <2>1, <3>1, EarlierOnce DEF RunOrder
  <2>3. ~(k < j)
    <3> SUFFICES ASSUME k < j PROVE FALSE
      OBVIOUS
    <3>1. <<f[k].ev, f[j].ev>> \in RunOrder
      BY <1>3 DEF Sorted
    <3> QED
      BY <1>3, <1>4, <2>1, <3>1, EarlierOnce DEF RunOrder
  <2>4. j \in Nat /\ k \in Nat
    BY <1>1, <1>3
  <2> QED
    BY <2>2, <2>3, <2>4
<1> HIDE DEF A, h
<1>10. IsFiniteSet(1..Len(r)) /\ Cardinality(1..Len(r)) = Len(r)
  BY <1>1, IntervalCount
<1>11. Cardinality(A) <= Len(r)
  BY <1>2, <1>8, <1>9, <1>10, InjectionBounds
<1>12. Cardinality(A) <= MaxRows
  BY <1>1, <1>2, <1>11
<1> QED
  BY <1>2, <1>12 DEF A

(***************************************************************************)
(* The argument of RestartShows for one line: counted with the junk it     *)
(* fits the window, and counted with the events behind it it fits the      *)
(* ring.                                                                   *)
(***************************************************************************)
LEMMA StartShows ==
  ASSUME DiskInv, Start, ~GivesUp(file),
         Budget >= MaxRows + Cardinality(JunkLines),
         NEW i \in 1..Len(file), Parses(file[i]), file[i].ev \in ToSet(ring)
  PROVE  file[i].ev \in ToSet(ring')
<1> DEFINE A == {j \in i..Len(file) : Parses(file[j])}
           B == {j \in i..Len(file) : ~Parses(file[j])}
           P == Replayable(file)
           n == IF Cardinality(P) < MaxRows THEN Cardinality(P) ELSE MaxRows
<1>1. /\ file \in Seq(Line) /\ prev \in Seq(Line) /\ ring \in Seq(Event)
      /\ buf = <<>> /\ Len(ring) <= MaxRows
      /\ Sorted(file, <<>>, RunOrder) /\ Sorted(file, <<>>, RingOrder(ring))
  BY DEF Start, DiskInv, IInv, TypeOK, SeqBounded, EventsKept
<1>2. Len(file) \in Nat /\ i \in Nat /\ 1 <= i /\ i <= Len(file)
      /\ MaxRows \in Nat \ {0} /\ Budget \in Nat
  BY <1>1, EventLogAssumption DEF Budget
<1>3. IsFiniteSet(A) /\ Cardinality(A) \in Nat /\ Cardinality(A) <= MaxRows
  BY <1>1, TailFits
<1>4. IsFiniteSet(i..Len(file)) /\ Cardinality(i..Len(file)) = Len(file) - i + 1
  BY <1>2, FS_Interval
<1>5. IsFiniteSet(B) /\ Cardinality(B) \in Nat
  <2>1. B \subseteq i..Len(file)
    OBVIOUS
  <2> QED
    BY <1>4, <2>1, FS_Subset, FS_CardinalityType
<1>6. Cardinality(B) <= Cardinality(JunkLines) /\ Cardinality(JunkLines) \in Nat
  <2> DEFINE h == [j \in B |-> <<"file", j>>]
  <2>1. DOMAIN file = 1..Len(file)
    BY <1>1
  <2>2. B \subseteq {j \in DOMAIN file : ~Parses(file[j])}
    BY <1>2, <2>1
  <2>3. h \in [B -> JunkLines]
    BY <2>2 DEF JunkLines
  <2>4. \A j, k \in B : h[j] = h[k] => j = k
    OBVIOUS
  <2>5. IsFiniteSet(JunkLines)
    BY <1>1, JunkIsFinite
  <2> HIDE DEF h, B
  <2> QED
    BY <1>5, <2>3, <2>4, <2>5, InjectionBounds, FS_CardinalityType
<1>7. Len(file) - i + 1 = Cardinality(A) + Cardinality(B)
  <2>1. i..Len(file) = A \cup B /\ A \cap B = {}
    OBVIOUS
  <2> HIDE DEF A, B
  <2>2. Cardinality(A \cup B) = Cardinality(A) + Cardinality(B) - Cardinality(A \cap B)
    BY <1>3, <1>5, FS_Union
  <2>3. Cardinality(A \cap B) = 0
    BY <2>1, FS_EmptySet
  <2>4. Cardinality(i..Len(file)) = Cardinality(A \cup B)
    BY <2>1
  <2> QED
    BY <1>2, <1>3, <1>4, <1>5, <2>2, <2>3, <2>4
<1> HIDE DEF A, B
<1>8. WindowStart(file) < i
  BY <1>2, <1>3, <1>5, <1>6, <1>7 DEF WindowStart
<1>9. PICK at \in [1..n -> P] :
        /\ \A k, m \in 1..n : k < m => at[k] < at[m]
        /\ \A p \in P : (\A k \in 1..n : at[k] # p) => \A k \in 1..n : p < at[k]
        /\ ring' = [k \in 1..n |-> file[at[k]].ev]
  BY DEF Start, Replay, ReadTail
<1>10. i \in P /\ P \subseteq 1..Len(file) /\ \A p \in P : Parses(file[p])
  BY <1>2, <1>8 DEF Replayable, Window
<1>11. IsFiniteSet(P) /\ Cardinality(P) \in Nat
  <2>1. IsFiniteSet(1..Len(file))
    BY <1>2, FS_Interval
  <2> HIDE DEF P
  <2> QED
    BY <1>10, <2>1, FS_Subset, FS_CardinalityType
<1>12. n \in Nat /\ (n = Cardinality(P) \/ n = MaxRows)
  BY <1>2, <1>11
<1> HIDE DEF P, n
<1>13. IsFiniteSet(1..n) /\ Cardinality(1..n) = n
  BY <1>12, IntervalCount
<1>14. ASSUME NEW k \in 1..n, NEW m \in 1..n, at[k] = at[m]
       PROVE  k = m
  <2>1. at[k] \in Nat /\ at[m] \in Nat
    <3>1. at[k] \in P /\ at[m] \in P
      BY <1>9
    <3>2. at[k] \in 1..Len(file) /\ at[m] \in 1..Len(file)
      BY <1>10, <3>1
    <3> QED
      BY <3>2
  <2>2. ~(k < m) /\ ~(m < k)
    BY <1>9, <1>14, <2>1
  <2> QED
    BY <1>12, <2>2
<1>15. ASSUME \A k \in 1..n : at[k] # i
       PROVE  FALSE
  <2>1. \A k \in 1..n : i < at[k]
    BY <1>9, <1>10, <1>15
  <2>2. ASSUME NEW S, IsFiniteSet(S), i \in S, \A k \in 1..n : at[k] \in S
        PROVE  n < Cardinality(S)
    <3>1. IsFiniteSet(S \ {i}) /\ Cardinality(S \ {i}) = Cardinality(S) - 1
      BY <2>2, FS_RemoveElement
    <3> DEFINE h == [k \in 1..n |-> at[k]]
    <3>2. h \in [1..n -> S \ {i}] /\ \A k, m \in 1..n : h[k] = h[m] => k = m
      BY <1>14, <1>15, <2>2
    <3> HIDE DEF h
    <3>3. n <= Cardinality(S \ {i})
      <4>1. IsFiniteSet(1..n) /\ IsFiniteSet(S \ {i})
        BY <1>13, <3>1
      <4>2. Cardinality(1..n) <= Cardinality(S \ {i})
        BY <3>2, <4>1, InjectionBounds, Zenon
      <4> QED
        BY <1>13, <4>2
    <3>4. Cardinality(S) \in Nat
      BY <2>2, FS_CardinalityType
    <3> QED
      BY <1>12, <3>1, <3>3, <3>4
  <2>3. n < Cardinality(P)
    BY <1>9, <1>10, <1>11, <2>2
  <2>4. n < Cardinality(A)
    <3>1. i \in A
      BY <1>2 DEF A
    <3>2. \A k \in 1..n : at[k] \in A
      <4> SUFFICES ASSUME NEW k \in 1..n PROVE at[k] \in A
        OBVIOUS
      <4>1. at[k] \in P /\ i < at[k]
        BY <1>9, <2>1
      <4>2. at[k] \in 1..Len(file) /\ Parses(file[at[k]])
        BY <1>10, <4>1
      <4> QED
        BY <1>2, <4>1, <4>2 DEF A
    <3> QED
      BY <1>3, <2>2, <3>1, <3>2
  <2> QED
    BY <1>2, <1>3, <1>11, <1>12, <2>3, <2>4
<1>16. PICK k \in 1..n : at[k] = i
  BY <1>15
<1> QED
  BY <1>9, <1>16 DEF ToSet

(***************************************************************************)
(* A boot shows again every event that the ring showed before and that the *)
(* file still holds, if the tail it reads has room for the ring and the    *)
(* lines that do not parse, and no line that is too long.                  *)
(***************************************************************************)
THEOREM RestartShows == Spec => RestartShowsWhatSurvived
<1>1. DiskInv /\ [Next]_vars =>
        [ /\ proc = "down" /\ proc' = "up"
          /\ ~GivesUp(file)
          /\ Budget >= MaxRows + Cardinality(JunkLines)
          => ToSet(ring) \cap EventsOf(file) \subseteq ToSet(ring') ]_vars
  <2> SUFFICES ASSUME DiskInv, Next, proc = "down", proc' = "up", ~GivesUp(file),
                      Budget >= MaxRows + Cardinality(JunkLines)
               PROVE  ToSet(ring) \cap EventsOf(file) \subseteq ToSet(ring')
    OBVIOUS
  <2>1. Start
    BY DEF Next, Log, Flush, FlushFails, Close, Drain, Exit, Crash, Die, KilledInLog
  <2>2. file \in Seq(Line)
    BY DEF DiskInv, IInv, TypeOK
  <2>3. DOMAIN file = 1..Len(file)
    BY <2>2
  <2> QED
    BY <2>1, <2>3, StartShows DEF EventsOf
<1> QED
  BY <1>1, DiskInvariance, PTL DEF Spec, RestartShowsWhatSurvived

=============================================================================
