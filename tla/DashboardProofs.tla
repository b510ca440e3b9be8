------------------------- MODULE DashboardProofs -------------------------
(***************************************************************************)
(* Proofs about what a dashboard is shown, in two parts.                   *)
(*                                                                         *)
(* The live feed, for any loggers and clients, any size of hello and       *)
(* socket, and any number of events: no event falls between the snapshot a *)
(* client is greeted with and the stream.                                  *)
(*                                                                         *)
(* The answers of the event store, for any writers, callers, sessions and  *)
(* bounds: a session's detail lists every command its row counts, the      *)
(* summary a caller is served is never older than one served before and    *)
(* adds up, and the events found are those asked for, the newest first to  *)
(* be kept.                                                                *)
(***************************************************************************)
EXTENDS Feed, Stats, FiniteSetTheorems, SequenceTheorems, WellFoundedInduction, TLAPS

-----------------------------------------------------------------------------
Message == [type : {"event", "hello"}, ids : Seq(Nat)]

FeedTypeOK ==
  /\ nextID \in Nat
  /\ subs \subseteq Clients
  /\ pc \in [Loggers -> {"idle", "logged", "fanout", "sending"}]
  /\ cur \in [Loggers -> Nat]
  /\ todo \in [Loggers -> SUBSET Clients]
  /\ conn \in [Clients -> {"off", "subscribed", "ready", "greeting", "live",
                           "leaving", "unsubscribed", "closed"}]
  /\ hello \in [Clients -> Seq(Nat)]
  /\ sent \in [Clients -> Seq(Message)]
  /\ DOMAIN lock = Clients /\ DOMAIN broken = Clients

\* A client that has its snapshot has subscribed before.
Subscribed == \A c \in Clients :
  conn[c] \in {"subscribed", "ready", "greeting", "live"} => c \in subs

\* A Log call that still has event n to collect subscribers for, or to send
\* to client c.
Carries(w, c, n) ==
  cur[w] = n /\ (pc[w] = "logged" \/ (pc[w] \in {"fanout", "sending"} /\ c \in todo[w]))

Covered(c, n) ==
  \/ n \in Streamed(c)
  \/ hello[c] # <<>> /\ n <= Last(hello[c])
  \/ \E w \in Loggers : Carries(w, c, n)

\* From the snapshot on, every event is with the client, in its hello, or on
\* its way.
AllCovered == \A c \in Clients :
  conn[c] \in {"ready", "greeting", "live"} /\ ~broken[c] =>
    \A n \in 1..nextID : Covered(c, n)

IInv == FeedTypeOK /\ Subscribed /\ AllCovered

-----------------------------------------------------------------------------
(***************************************************************************)
(* What one more message does to the events a client was sent.             *)
(***************************************************************************)
StreamedIn(q) == {q[i].ids[1] : i \in {j \in DOMAIN q : q[j].type = "event"}}

LEMMA StreamedByAppend ==
  ASSUME NEW q \in Seq(Message), NEW m \in Message
  PROVE  /\ Append(q, m) \in Seq(Message)
         /\ StreamedIn(q) \subseteq StreamedIn(Append(q, m))
         /\ m.type = "event" => m.ids[1] \in StreamedIn(Append(q, m))
<1> DEFINE a == Append(q, m)
<1>1. /\ a \in Seq(Message) /\ Len(a) = Len(q) + 1 /\ Len(q) \in Nat
      /\ \A i \in 1..Len(q) : a[i] = q[i]
      /\ a[Len(q) + 1] = m
      /\ DOMAIN q = 1..Len(q) /\ DOMAIN a = 1..Len(a)
  BY AppendProperties, LenProperties
<1> HIDE DEF a
<1>2. \A i \in 1..Len(q) : i \in 1..Len(a)
  BY <1>1
<1>3. Len(q) + 1 \in 1..Len(a)
  BY <1>1
<1>4. StreamedIn(q) \subseteq StreamedIn(a)
  BY <1>1, <1>2 DEF StreamedIn
<1>5. m.type = "event" => m.ids[1] \in StreamedIn(a)
  BY <1>1, <1>3 DEF StreamedIn
<1> QED BY <1>1, <1>4, <1>5 DEF a

LEMMA MessagesTyped ==
  /\ \A n \in Nat : Event(n) \in Message /\ Event(n).type = "event" /\ Event(n).ids[1] = n
  /\ \A s \in Seq(Nat) : Hello(s) \in Message
<1>1. \A n \in Nat : <<n>> \in Seq(Nat) /\ <<n>>[1] = n
  OBVIOUS
<1> QED BY <1>1 DEF Event, Hello, Message

\* A write leaves the events of all clients, and their socket errors.
LEMMA WrittenKeeps ==
  ASSUME FeedTypeOK, NEW c \in Clients, NEW m \in Message, Written(c, m)
  PROVE  /\ sent' \in [Clients -> Seq(Message)]
         /\ DOMAIN lock' = Clients /\ DOMAIN broken' = Clients
         /\ \A d \in Clients : StreamedIn(sent[d]) \subseteq StreamedIn(sent'[d])
         /\ \A d \in Clients : broken[d] => broken'[d]
         /\ m.type = "event" /\ ~Done(c) /\ ~broken'[c] => m.ids[1] \in StreamedIn(sent'[c])
<1>1. /\ sent \in [Clients -> Seq(Message)] /\ DOMAIN lock = Clients
      /\ DOMAIN broken = Clients /\ lock' = [lock EXCEPT ![c] = Free]
  BY DEF FeedTypeOK, Written
<1>2. CASE /\ sent' = [sent EXCEPT ![c] = Append(@, m)]
           /\ UNCHANGED broken
  <2>1. /\ Append(sent[c], m) \in Seq(Message)
        /\ StreamedIn(sent[c]) \subseteq StreamedIn(Append(sent[c], m))
        /\ m.type = "event" => m.ids[1] \in StreamedIn(Append(sent[c], m))
    BY <1>1, StreamedByAppend
  <2>2. sent'[c] = Append(sent[c], m) /\ \A d \in Clients : d # c => sent'[d] = sent[d]
    BY <1>1, <1>2
  <2>3. sent' \in [Clients -> Seq(Message)]
    BY <1>1, <1>2, <2>1
  <2> QED BY <1>1, <1>2, <2>1, <2>2, <2>3
<1>3. CASE (broken[c] \/ Done(c)) /\ UNCHANGED <<sent, broken>>
  BY <1>1, <1>3
<1>4. CASE broken' = [broken EXCEPT ![c] = TRUE] /\ UNCHANGED sent
  BY <1>1, <1>4
<1> QED BY <1>2, <1>3, <1>4 DEF Written

LEMMA InitIInv == FeedInit => IInv
<1> SUFFICES ASSUME FeedInit PROVE IInv
  OBVIOUS
<1>1. <<>> \in Seq(Nat) /\ <<>> \in Seq(Message)
  OBVIOUS
<1>2. FeedTypeOK
  BY <1>1 DEF FeedInit, FeedTypeOK
<1>3. Subscribed /\ AllCovered
  BY DEF FeedInit, Subscribed, AllCovered
<1> QED BY <1>2, <1>3 DEF IInv

-----------------------------------------------------------------------------
Served == {"ready", "greeting", "live"}

(***************************************************************************)
(* A step that neither logs an event nor assembles a hello: no event that  *)
(* is on its way may get lost.                                             *)
(***************************************************************************)
LEMMA StepCovers ==
  ASSUME IInv, FeedTypeOK', Subscribed', nextID' = nextID, hello' = hello,
         \A d \in Clients : conn'[d] \in Served => conn[d] \in Served,
         \A d \in Clients : broken[d] => broken'[d],
         \A d \in Clients : StreamedIn(sent[d]) \subseteq StreamedIn(sent'[d]),
         \A w \in Loggers, d \in Clients, n \in Nat :
           Carries(w, d, n) /\ conn[d] \in Served /\ ~broken'[d]
             => Carries(w, d, n)' \/ n \in StreamedIn(sent'[d])
  PROVE  IInv'
<1> SUFFICES ASSUME NEW d \in Clients, conn'[d] \in Served, ~broken'[d],
                    NEW n \in 1..nextID
             PROVE  Covered(d, n)'
  BY DEF IInv, AllCovered, Served
<1>1. conn[d] \in Served /\ ~broken[d] /\ n \in Nat
  BY DEF IInv, FeedTypeOK
<1>2. Covered(d, n)
  BY <1>1 DEF IInv, AllCovered, Served
<1>3. CASE n \in Streamed(d)
  BY <1>3 DEF Covered, Streamed, EventsTo, StreamedIn
<1>4. CASE hello[d] # <<>> /\ n <= Last(hello[d])
  BY <1>4 DEF Covered
<1>5. CASE \E w \in Loggers : Carries(w, d, n)
  <2>1. PICK w \in Loggers : Carries(w, d, n)
    BY <1>5
  <2>2. Carries(w, d, n)' \/ n \in StreamedIn(sent'[d])
    BY <2>1, <1>1
  <2> QED BY <2>2 DEF Covered, Streamed, EventsTo, StreamedIn
<1> QED BY <1>2, <1>3, <1>4, <1>5 DEF Covered

(***************************************************************************)
(* The steps of Log.                                                       *)
(***************************************************************************)
LEMMA RecordIInv == ASSUME IInv, NEW w \in Loggers, Record(w) PROVE IInv'
<1> USE DEF IInv
<1>1. /\ pc[w] = "idle" /\ nextID' = nextID + 1
      /\ cur' = [cur EXCEPT ![w] = nextID + 1] /\ pc' = [pc EXCEPT ![w] = "logged"]
      /\ UNCHANGED <<subs, todo, conn, hello, lock, sent, got, broken>>
  BY DEF Record
<1>2. FeedTypeOK' /\ Subscribed'
  BY <1>1 DEF FeedTypeOK, Subscribed
<1>3. cur'[w] = nextID + 1 /\ pc'[w] = "logged"
      /\ \A v \in Loggers : v # w => cur'[v] = cur[v] /\ pc'[v] = pc[v]
  BY <1>1 DEF FeedTypeOK
<1>4. ASSUME NEW d \in Clients, conn'[d] \in Served, ~broken'[d], NEW n \in 1..nextID'
      PROVE  Covered(d, n)'
  <2>1. CASE n = nextID + 1
    BY <2>1, <1>3 DEF Covered, Carries
  <2>2. CASE n # nextID + 1
    <3>1. n \in 1..nextID
      BY <2>2, <1>1 DEF FeedTypeOK
    <3>2. Covered(d, n)
      BY <3>1, <1>1, <1>4 DEF AllCovered, Served
    <3>3. \A v \in Loggers : Carries(v, d, n) => Carries(v, d, n)'
      BY <1>1, <1>3 DEF Carries
    <3> QED BY <3>2, <3>3, <1>1 DEF Covered, Streamed, EventsTo
  <2> QED BY <2>1, <2>2
<1>5. AllCovered'
  BY <1>4 DEF AllCovered, Served
<1> QED BY <1>2, <1>5

LEMMA LoggerIInv == ASSUME IInv, NEW w \in Loggers, LoggerStep(w) PROVE IInv'
<1>0. FeedTypeOK /\ Subscribed
  BY DEF IInv
<1>1. CASE Collect(w)
  <2>1. /\ pc[w] = "logged" /\ todo' = [todo EXCEPT ![w] = subs]
        /\ pc' = [pc EXCEPT ![w] = "fanout"]
        /\ UNCHANGED <<nextID, subs, cur, conn, hello, lock, sent, got, broken>>
    BY <1>1 DEF Collect
  <2>2. FeedTypeOK' /\ Subscribed'
    BY <2>1, <1>0 DEF FeedTypeOK, Subscribed
  <2>3. \A v \in Loggers, d \in Clients, n \in Nat :
          Carries(v, d, n) /\ conn[d] \in Served => Carries(v, d, n)'
    BY <2>1, <1>0 DEF Carries, FeedTypeOK, Subscribed, Served
  <2> QED BY <2>1, <2>2, <2>3, StepCovers
<1>2. CASE Return(w)
  <2>1. /\ pc[w] = "fanout" /\ todo[w] = {} /\ pc' = [pc EXCEPT ![w] = "idle"]
        /\ UNCHANGED <<nextID, subs, cur, todo, conn, hello, lock, sent, got, broken>>
    BY <1>2 DEF Return
  <2>2. FeedTypeOK' /\ Subscribed'
    BY <2>1, <1>0 DEF FeedTypeOK, Subscribed
  <2>3. \A v \in Loggers, d \in Clients, n \in Nat : Carries(v, d, n) => Carries(v, d, n)'
    BY <2>1, <1>0 DEF Carries, FeedTypeOK
  <2> QED BY <2>1, <2>2, <2>3, StepCovers
<1>3. ASSUME NEW c \in Clients, Skip(w, c) PROVE IInv'
  <2>1. /\ conn[c] = "closed" /\ todo' = [todo EXCEPT ![w] = @ \ {c}]
        /\ UNCHANGED <<nextID, subs, pc, cur, conn, hello, lock, sent, got, broken>>
    BY <1>3 DEF Skip, Done
  <2>2. FeedTypeOK' /\ Subscribed'
    BY <2>1, <1>0 DEF FeedTypeOK, Subscribed
  <2>3. \A v \in Loggers, d \in Clients, n \in Nat :
          Carries(v, d, n) /\ conn[d] \in Served => Carries(v, d, n)'
    BY <2>1, <1>0 DEF Carries, FeedTypeOK, Served
  <2> QED BY <2>1, <2>2, <2>3, StepCovers
<1>4. ASSUME NEW c \in Clients, BeginSend(w, c) PROVE IInv'
  <2>1. /\ pc[w] = "fanout" /\ pc' = [pc EXCEPT ![w] = "sending"]
        /\ lock' = [lock EXCEPT ![c] = w]
        /\ UNCHANGED <<nextID, subs, cur, todo, conn, hello, sent, got, broken>>
    BY <1>4 DEF BeginSend, Acquire
  <2>2. FeedTypeOK' /\ Subscribed'
    BY <2>1, <1>0 DEF FeedTypeOK, Subscribed
  <2>3. \A v \in Loggers, d \in Clients, n \in Nat : Carries(v, d, n) => Carries(v, d, n)'
    BY <2>1, <1>0 DEF Carries, FeedTypeOK
  <2> QED BY <2>1, <2>2, <2>3, StepCovers
<1>5. ASSUME NEW c \in Clients, EndSend(w, c) PROVE IInv'
  <2>1. /\ pc[w] = "sending" /\ Written(c, Event(cur[w])) /\ cur[w] \in Nat
        /\ todo' = [todo EXCEPT ![w] = @ \ {c}] /\ pc' = [pc EXCEPT ![w] = "fanout"]
        /\ UNCHANGED <<nextID, subs, cur, conn, hello, got>>
    BY <1>5, <1>0 DEF EndSend, FeedTypeOK
  <2>2. /\ sent' \in [Clients -> Seq(Message)]
        /\ DOMAIN lock' = Clients /\ DOMAIN broken' = Clients
        /\ \A d \in Clients : StreamedIn(sent[d]) \subseteq StreamedIn(sent'[d])
        /\ \A d \in Clients : broken[d] => broken'[d]
        /\ ~Done(c) /\ ~broken'[c] => cur[w] \in StreamedIn(sent'[c])
    BY <2>1, <1>0, WrittenKeeps, MessagesTyped
  <2>3. FeedTypeOK' /\ Subscribed'
    BY <2>1, <2>2, <1>0 DEF FeedTypeOK, Subscribed
  <2>4. ASSUME NEW v \in Loggers, NEW d \in Clients, NEW n \in Nat,
               Carries(v, d, n), conn[d] \in Served, ~broken'[d]
        PROVE  Carries(v, d, n)' \/ n \in StreamedIn(sent'[d])
    <3>1. CASE v = w /\ d = c
      BY <3>1, <2>2, <2>4 DEF Carries, Served, Done
    <3>2. CASE ~(v = w /\ d = c)
      BY <3>2, <2>1, <2>4, <1>0 DEF Carries, FeedTypeOK
    <3> QED BY <3>1, <3>2
  <2> QED BY <2>1, <2>2, <2>3, <2>4, StepCovers
<1> QED BY <1>1, <1>2, <1>3, <1>4, <1>5 DEF LoggerStep

(***************************************************************************)
(* The steps of a connection.                                              *)
(***************************************************************************)
LEMMA AssembleIInv == ASSUME IInv, NEW c \in Clients, Assemble(c) PROVE IInv'
<1> USE DEF IInv
<1>1. /\ conn[c] = "subscribed" /\ hello' = [hello EXCEPT ![c] = Newest(HelloLimit)]
      /\ conn' = [conn EXCEPT ![c] = "ready"]
      /\ UNCHANGED <<nextID, subs, pc, cur, todo, lock, sent, got, broken>>
  BY DEF Assemble
<1>2. /\ Newest(HelloLimit) \in Seq(Nat)
      /\ nextID > 0 => /\ Newest(HelloLimit) # <<>>
                       /\ Last(Newest(HelloLimit)) = nextID
  <2> DEFINE from == IF nextID > HelloLimit THEN nextID - HelloLimit ELSE 0
  <2>1. from \in Nat /\ nextID \in Nat /\ nextID - from \in Nat
        /\ (nextID > 0 => nextID - from > 0)
    BY FeedAssumption DEF FeedTypeOK
  <2>2. Newest(HelloLimit) = [i \in 1..(nextID - from) |-> from + i]
    BY DEF Newest
  <2> HIDE DEF from
  <2>3. \A i \in 1..(nextID - from) : from + i \in Nat
    BY <2>1
  <2>4. Newest(HelloLimit) \in [1..(nextID - from) -> Nat]
    BY <2>2, <2>3
  <2>5. Newest(HelloLimit) \in Seq(Nat) /\ Len(Newest(HelloLimit)) = nextID - from
    BY <2>1, <2>4, LenProperties, IsASeq
  <2>6. ASSUME nextID > 0
        PROVE  Newest(HelloLimit) # <<>> /\ Last(Newest(HelloLimit)) = nextID
    <3>1. nextID - from \in 1..(nextID - from) /\ from + (nextID - from) = nextID
      BY <2>1, <2>6
    <3>2. Newest(HelloLimit)[nextID - from] = nextID
      BY <2>2, <3>1
    <3> QED BY <2>1, <2>5, <2>6, <3>2, EmptySeq DEF Last
  <2> QED BY <2>5, <2>6
<1>3. FeedTypeOK' /\ Subscribed'
  BY <1>1, <1>2 DEF FeedTypeOK, Subscribed
<1>4. ASSUME NEW d \in Clients, conn'[d] \in Served, ~broken'[d], NEW n \in 1..nextID
      PROVE  Covered(d, n)'
  <2>1. CASE d = c
    <3>1. hello'[c] = Newest(HelloLimit) /\ nextID > 0 /\ n <= nextID
      BY <1>1 DEF FeedTypeOK
    <3> QED BY <2>1, <3>1, <1>2 DEF Covered
  <2>2. CASE d # c
    <3>1. conn[d] \in Served /\ ~broken[d] /\ hello'[d] = hello[d]
      BY <2>2, <1>1, <1>4 DEF FeedTypeOK
    <3>2. Covered(d, n)
      BY <3>1 DEF AllCovered, Served
    <3> QED BY <3>1, <3>2, <1>1 DEF Covered, Streamed, EventsTo, Carries
  <2> QED BY <2>1, <2>2
<1>5. AllCovered'
  BY <1>1, <1>4 DEF AllCovered, Served
<1> QED BY <1>3, <1>5

LEMMA EndHelloIInv == ASSUME IInv, NEW c \in Clients, EndHello(c) PROVE IInv'
<1>0. FeedTypeOK /\ Subscribed
  BY DEF IInv
<1>1. /\ conn[c] = "greeting" /\ Written(c, Hello(hello[c])) /\ hello[c] \in Seq(Nat)
      /\ UNCHANGED <<nextID, subs, pc, cur, todo, hello, got>>
  BY <1>0 DEF EndHello, FeedTypeOK
<1>2. PICK s \in {"leaving", "live"} : conn' = [conn EXCEPT ![c] = s]
  BY DEF EndHello
<1>3. /\ sent' \in [Clients -> Seq(Message)]
      /\ DOMAIN lock' = Clients /\ DOMAIN broken' = Clients
      /\ \A d \in Clients : StreamedIn(sent[d]) \subseteq StreamedIn(sent'[d])
      /\ \A d \in Clients : broken[d] => broken'[d]
  BY <1>1, <1>0, WrittenKeeps, MessagesTyped
<1>4. FeedTypeOK' /\ Subscribed'
  BY <1>1, <1>2, <1>3, <1>0 DEF FeedTypeOK, Subscribed
<1>5. \A d \in Clients : conn'[d] \in Served => conn[d] \in Served
  BY <1>1, <1>2, <1>0 DEF FeedTypeOK, Served
<1>6. \A v \in Loggers, d \in Clients, n \in Nat : Carries(v, d, n) => Carries(v, d, n)'
  BY <1>1 DEF Carries
<1> QED BY <1>1, <1>3, <1>4, <1>5, <1>6, StepCovers

LEMMA ServerIInv ==
  ASSUME IInv, NEW c \in Clients, ServerStep(c) \/ Receive(c)
  PROVE  IInv'
<1>0. FeedTypeOK /\ Subscribed
  BY DEF IInv
<1>a. ASSUME FeedTypeOK', Subscribed', UNCHANGED <<nextID, pc, cur, todo, hello, sent>>,
             \A d \in Clients : conn'[d] \in Served => conn[d] \in Served,
             \A d \in Clients : broken[d] => broken'[d]
      PROVE  IInv'
  <2>1. \A v \in Loggers, d \in Clients, n \in Nat : Carries(v, d, n) => Carries(v, d, n)'
    BY <1>a DEF Carries
  <2> QED BY <1>a, <2>1, StepCovers
<1>1. CASE Subscribe(c)
  BY <1>1, <1>0, <1>a DEF Subscribe, FeedTypeOK, Subscribed, Served
<1>2. CASE BeginHello(c)
  BY <1>2, <1>0, <1>a DEF BeginHello, Acquire, FeedTypeOK, Subscribed, Served
<1>3. CASE BeginPing(c)
  BY <1>3, <1>0, <1>a DEF BeginPing, Acquire, FeedTypeOK, Subscribed
<1>4. CASE EndPing(c)
  BY <1>4, <1>0, <1>a DEF EndPing, FeedTypeOK, Subscribed
<1>5. CASE Leave(c)
  BY <1>5, <1>0, <1>a DEF Leave, FeedTypeOK, Subscribed, Served
<1>6. CASE Unsubscribe(c)
  BY <1>6, <1>0, <1>a DEF Unsubscribe, FeedTypeOK, Subscribed, Served
<1>7. CASE CloseConn(c)
  BY <1>7, <1>0, <1>a DEF CloseConn, FeedTypeOK, Subscribed, Served
<1>8. CASE Receive(c)
  BY <1>8, <1>0, <1>a DEF Receive, FeedTypeOK, Subscribed
<1> QED
  BY <1>1, <1>2, <1>3, <1>4, <1>5, <1>6, <1>7, <1>8, AssembleIInv, EndHelloIInv
  DEF ServerStep

LEMMA NextIInv == IInv /\ [FeedNext]_feedVars => IInv'
<1> SUFFICES ASSUME IInv, [FeedNext]_feedVars PROVE IInv'
  OBVIOUS
<1>1. CASE UNCHANGED feedVars
  BY <1>1 DEF feedVars, IInv, FeedTypeOK, Subscribed, AllCovered, Covered, Carries,
              Streamed, EventsTo
<1> QED BY <1>1, RecordIInv, LoggerIInv, ServerIInv DEF FeedNext

-----------------------------------------------------------------------------
(***************************************************************************)
(* The strengthened invariant holds in every behaviour of the feed.        *)
(***************************************************************************)
THEOREM FeedInvariance == FeedSpec => []IInv
BY InitIInv, NextIInv, PTL DEF FeedSpec

(***************************************************************************)
(* No event is lost between the hello and the stream, in whatever order    *)
(* Log calls, fanout and handleWS run (eventlog.go, fanout; controlapi.go, *)
(* handleWS).                                                              *)
(***************************************************************************)
THEOREM FeedHasNoGap == FeedSpec => []NoGap
<1>1. IInv => NoGap
  <2> SUFFICES ASSUME IInv, NEW c \in Clients, conn[c] = "live", ~broken[c],
                      NEW n \in 1..nextID, Finished(n)
               PROVE  n \in Streamed(c) \/ (hello[c] # <<>> /\ n <= Last(hello[c]))
    BY DEF NoGap
  <2>1. Covered(c, n)
    BY DEF IInv, AllCovered
  <2>2. ~ \E w \in Loggers : Carries(w, c, n)
    BY DEF Finished, Carries
  <2> QED BY <2>1, <2>2 DEF Covered
<1> QED BY <1>1, FeedInvariance, PTL

-----------------------------------------------------------------------------
\* Types.

LogEvent ==
  [svc : Services, type : {b.type : b \in Bodies},
   sid : {b.sid : b \in Bodies} \cup {""}, ts : Nat]

StatsTyped ==
  /\ clock \in Nat
  /\ stamped \in [Writers -> LogEvent \cup {None}]
  /\ ring \in Seq(LogEvent)
  /\ since.events \in Nat
  /\ rows \in [Sids -> Nat]
  /\ detail.cmds \in Nat

(***************************************************************************)
(* No row counts more commands than the ring has of its session, unless    *)
(* the ring has dropped some; nor does a detail that has read the row.     *)
(***************************************************************************)
RowsAreListed ==
  /\ \A s \in Sids : s \notin dropped => rows[s] <= Listed(s)
  /\ detail.pc = "row" /\ detail.sid \notin dropped => detail.cmds <= Listed(detail.sid)
  /\ DetailCoversRow

(***************************************************************************)
(* One caller computes at a time, and what it computes is no older than    *)
(* the cache, which is what was served last.                               *)
(***************************************************************************)
SummariesAgree ==
  /\ mutex \in [Callers -> Int] /\ cache.summary \in Int
  /\ answer = cache.summary /\ cache.summary <= since.events
  /\ \A c, d \in Callers : mutex[c] # NoSummary /\ mutex[d] # NoSummary => c = d
  /\ \A c \in Callers : mutex[c] # NoSummary =>
       cache.summary <= mutex[c] /\ mutex[c] <= since.events

StatsInv == StatsTyped /\ RowsAreListed /\ SummariesAgree


-----------------------------------------------------------------------------
\* The commands of a session in a ring.

CommandsAt(r, s) == {i \in DOMAIN r : r[i].sid = s /\ r[i].type = "command"}

IsCommandOf(e, s) == e.sid = s /\ e.type = "command"

ListedIn(r, s) == Cardinality(CommandsAt(r, s))

(***************************************************************************)
(* They are finitely many.                                                 *)
(***************************************************************************)
LEMMA CommandsAreFinite ==
  ASSUME NEW r \in Seq(LogEvent), NEW s
  PROVE  /\ IsFiniteSet(CommandsAt(r, s)) /\ Cardinality(CommandsAt(r, s)) \in Nat
<1>1. IsFiniteSet(1..Len(r))
  BY FS_Interval
<1>2. CommandsAt(r, s) \subseteq 1..Len(r)
  BY DEF CommandsAt
<1> QED
  BY <1>1, <1>2, FS_Subset, FS_CardinalityType

(***************************************************************************)
(* One more event keeps those that are there.                              *)
(***************************************************************************)
LEMMA AppendLists ==
  ASSUME NEW r \in Seq(LogEvent), NEW e \in LogEvent, NEW s
  PROVE  Cardinality(CommandsAt(Append(r, e), s))
           >= Cardinality(CommandsAt(r, s)) + (IF IsCommandOf(e, s) THEN 1 ELSE 0)
<1> DEFINE q == Append(r, e)
           n == Len(r) + 1
           B == CommandsAt(r, s)
           C == CommandsAt(q, s)
<1>1. /\ q \in Seq(LogEvent) /\ DOMAIN q = 1..n /\ DOMAIN r = 1..Len(r) /\ Len(r) \in Nat
      /\ q[n] = e /\ \A i \in 1..Len(r) : q[i] = r[i]
  OBVIOUS
<1> HIDE DEF q
<1>2. /\ IsFiniteSet(B) /\ IsFiniteSet(C) /\ Cardinality(B) \in Nat /\ Cardinality(C) \in Nat
  BY <1>1, CommandsAreFinite
<1>3. B \subseteq C /\ n \notin B /\ (IsCommandOf(e, s) => n \in C)
  BY <1>1 DEF CommandsAt, IsCommandOf
<1> HIDE DEF B, C, n
<1>4. CASE IsCommandOf(e, s)
  <2>1. B \cup {n} \subseteq C
    BY <1>3, <1>4
  <2>2. Cardinality(B \cup {n}) = Cardinality(B) + 1
    BY <1>2, <1>3, FS_AddElement
  <2>3. Cardinality(B \cup {n}) <= Cardinality(C)
    BY <1>2, <2>1, FS_Subset
  <2> QED
    BY <1>2, <1>4, <2>2, <2>3 DEF B, C, q
<1>5. CASE ~IsCommandOf(e, s)
  <2>1. Cardinality(B) <= Cardinality(C)
    BY <1>2, <1>3, FS_Subset
  <2> QED
    BY <1>2, <1>5, <2>1 DEF B, C, q
<1> QED
  BY <1>4, <1>5

(***************************************************************************)
(* Dropping the oldest event costs only its own session one.               *)
(***************************************************************************)
LEMMA TailLists ==
  ASSUME NEW r \in Seq(LogEvent), r # <<>>, NEW s, Head(r).sid # s
  PROVE  Cardinality(CommandsAt(Tail(r), s)) >= Cardinality(CommandsAt(r, s))
<1> DEFINE q == Tail(r)
           B == CommandsAt(r, s)
           C == CommandsAt(q, s)
           h == [i \in B |-> i - 1]
<1>1. /\ q \in Seq(LogEvent) /\ Len(q) = Len(r) - 1 /\ Len(r) \in Nat
      /\ DOMAIN r = 1..Len(r) /\ DOMAIN q = 1..Len(q) /\ Head(r) = r[1]
      /\ \A i \in 1..Len(q) : q[i] = r[i + 1]
  BY HeadTailProperties
<1> HIDE DEF q
<1>2. /\ IsFiniteSet(B) /\ IsFiniteSet(C) /\ Cardinality(B) \in Nat /\ Cardinality(C) \in Nat
  BY <1>1, CommandsAreFinite
<1>3. \A i \in B : i \in 2..Len(r) /\ i - 1 \in 1..Len(q) /\ q[i - 1] = r[i]
  BY <1>1 DEF CommandsAt
<1>4. h \in [B -> C]
  BY <1>1, <1>3 DEF CommandsAt
<1>5. \A x, y \in B : h[x] = h[y] => x = y
  BY <1>3
<1> HIDE DEF B, C, h
<1>6. ~(Cardinality(C) < Cardinality(B))
  BY <1>2, <1>4, <1>5, FS_PigeonHole
<1> QED
  BY <1>2, <1>6 DEF B, C, q

(***************************************************************************)
(* An event that is logged is listed, and drops none of a session that the *)
(* ring has not dropped.                                                   *)
(***************************************************************************)
LEMMA CommitLists ==
  ASSUME StatsTyped, NEW g \in Writers, Commit(g), NEW s, s \notin dropped'
  PROVE  /\ s \notin dropped
         /\ ListedIn(ring, s) \in Nat /\ ListedIn(ring', s) \in Nat
         /\ ListedIn(ring', s) >=
              ListedIn(ring, s) + (IF IsCommandOf(stamped[g], s) THEN 1 ELSE 0)
<1> DEFINE e == stamped[g]
           all == Append(ring, e)
<1>1. ring \in Seq(LogEvent) /\ e \in LogEvent
  BY DEF StatsTyped, Commit
<1>2. all \in Seq(LogEvent) /\ all # <<>>
  BY <1>1
<1>3. /\ ListedIn(ring, s) = Cardinality(CommandsAt(ring, s))
      /\ ListedIn(ring', s) = Cardinality(CommandsAt(ring', s))
  BY DEF ListedIn
<1>4. \/ ring' = all /\ dropped' = dropped
      \/ ring' = Tail(all) /\ dropped' = dropped \cup {Head(all).sid}
  BY DEF Commit
<1>5. Cardinality(CommandsAt(all, s))
        >= Cardinality(CommandsAt(ring, s)) + (IF IsCommandOf(e, s) THEN 1 ELSE 0)
  BY <1>1, AppendLists
<1> HIDE DEF all, e
<1>6. /\ Cardinality(CommandsAt(ring, s)) \in Nat
      /\ Cardinality(CommandsAt(all, s)) \in Nat
  BY <1>1, <1>2, CommandsAreFinite
<1>7. CASE ring' = all /\ dropped' = dropped
  BY <1>3, <1>5, <1>6, <1>7 DEF e
<1>8. CASE ring' = Tail(all) /\ dropped' = dropped \cup {Head(all).sid}
  <2>1. Head(all).sid # s /\ s \notin dropped
    BY <1>8
  <2>2. Cardinality(CommandsAt(Tail(all), s)) >= Cardinality(CommandsAt(all, s))
    BY <1>2, <2>1, TailLists
  <2>3. Tail(all) \in Seq(LogEvent)
    BY <1>2
  <2>4. Cardinality(CommandsAt(Tail(all), s)) \in Nat
    BY <2>3, CommandsAreFinite
  <2> QED
    BY <1>3, <1>5, <1>6, <1>8, <2>1, <2>2, <2>4 DEF e
<1> QED
  BY <1>4, <1>7, <1>8

-----------------------------------------------------------------------------
\* The invariant, one kind of step after the other.

(***************************************************************************)
(* A ring may start with one replayed event; nothing is counted.           *)
(***************************************************************************)
LEMMA InitStatsInv == StatsInit => StatsInv
<1> SUFFICES ASSUME StatsInit PROVE StatsInv
  OBVIOUS
<1>1. ring \in Seq(LogEvent)
  <2>1. CASE ring = <<>>
    BY <2>1
  <2>2. ASSUME NEW b \in Bodies,
               ring = <<[svc |-> b.svc, type |-> b.type, sid |-> "", ts |-> 0]>>
        PROVE  ring \in Seq(LogEvent)
    <3> DEFINE e == [svc |-> b.svc, type |-> b.type, sid |-> "", ts |-> 0]
    <3>1. e \in LogEvent
      BY DEF LogEvent, Services
    <3> HIDE DEF e
    <3>2. ring = <<e>>
      BY <2>2 DEF e
    <3> QED
      BY <3>1, <3>2
  <2> QED
    BY <2>1, <2>2 DEF StatsInit, Replayed
<1>2. StatsTyped
  BY <1>1 DEF StatsInit, StatsTyped, NoDetail
<1>3. \A s : Listed(s) \in Nat
  BY <1>1, CommandsAreFinite DEF Listed, CommandsAt
<1>4. RowsAreListed
  <2>1. detail.pc = "idle" /\ \A s \in Sids : rows[s] = 0
    BY DEF StatsInit, NoDetail
  <2>2. \A s \in Sids : rows[s] <= Listed(s)
    BY <1>3, <2>1
  <2> QED
    BY <2>1, <2>2 DEF RowsAreListed, DetailCoversRow
<1>5. SummariesAgree
  BY DEF StatsInit, SummariesAgree, NoSummary
<1> QED
  BY <1>2, <1>4, <1>5 DEF StatsInv

(***************************************************************************)
(* Logging an event: the ring lists it if its row counts it.               *)
(***************************************************************************)
LEMMA CommitKeeps ==
  ASSUME StatsInv, NEW g \in Writers, Commit(g)
  PROVE  StatsInv'
<1> DEFINE e == stamped[g]
           all == Append(ring, e)
<1>1. StatsTyped /\ RowsAreListed /\ SummariesAgree
  BY DEF StatsInv
<1>2. /\ e \in LogEvent /\ ring \in Seq(LogEvent)
      /\ UNCHANGED <<clock, detail, mutex, cache, answer>>
      /\ stamped' = [stamped EXCEPT ![g] = None]
      /\ since' = Counted(e)
      /\ ring' = all \/ ring' = Tail(all)
      /\ dropped \subseteq dropped'
      /\ rows' = [s \in Sids |-> IF s = e.sid /\ e.type = "command"
                                 THEN rows[s] + 1 ELSE rows[s]]
  BY <1>1 DEF Commit, StatsTyped
<1>3. ring' \in Seq(LogEvent)
  <2>1. all \in Seq(LogEvent) /\ all # <<>>
    BY <1>2
  <2>2. Tail(all) \in Seq(LogEvent)
    BY <2>1
  <2> QED
    BY <1>2, <2>1, <2>2
<1> HIDE DEF e, all
<1>4. since'.events = since.events + 1 /\ since.events \in Nat
  BY <1>1, <1>2 DEF Counted, StatsTyped
<1>5. rows' \in [Sids -> Nat]
  BY <1>1, <1>2 DEF StatsTyped
<1>6. StatsTyped'
  BY <1>1, <1>2, <1>3, <1>4, <1>5 DEF StatsTyped
<1>7. \A s : s \notin dropped' =>
        /\ s \notin dropped
        /\ ListedIn(ring, s) \in Nat /\ ListedIn(ring', s) \in Nat
        /\ ListedIn(ring', s) >=
             ListedIn(ring, s) + (IF IsCommandOf(e, s) THEN 1 ELSE 0)
  BY <1>1, CommitLists DEF e
<1>8. \A s \in Sids : s \notin dropped' => rows'[s] <= ListedIn(ring', s)
  <2> SUFFICES ASSUME NEW s \in Sids, s \notin dropped'
               PROVE  rows'[s] <= ListedIn(ring', s)
    OBVIOUS
  <2>1. rows[s] \in Nat /\ rows[s] <= ListedIn(ring, s)
    BY <1>1, <1>7 DEF StatsTyped, RowsAreListed, Listed, ListedIn, CommandsAt
  <2>2. rows'[s] = rows[s] + (IF IsCommandOf(e, s) THEN 1 ELSE 0)
    BY <1>2, <2>1 DEF IsCommandOf
  <2> QED
    BY <1>7, <2>1, <2>2
<1>9. detail.pc = "row" /\ detail.sid \notin dropped' =>
        detail.cmds <= ListedIn(ring', detail.sid)
  <2> SUFFICES ASSUME detail.pc = "row", detail.sid \notin dropped'
               PROVE  detail.cmds <= ListedIn(ring', detail.sid)
    OBVIOUS
  <2> DEFINE s == detail.sid
  <2>1. /\ s \notin dropped
        /\ ListedIn(ring, s) \in Nat /\ ListedIn(ring', s) \in Nat
        /\ ListedIn(ring', s) >= ListedIn(ring, s)
    BY <1>7
  <2>2. detail.cmds \in Nat /\ detail.cmds <= ListedIn(ring, s)
    BY <1>1, <2>1 DEF StatsTyped, RowsAreListed, Listed, ListedIn, CommandsAt
  <2> QED
    BY <2>1, <2>2
<1>10. DetailCoversRow'
  BY <1>1, <1>2 DEF RowsAreListed, DetailCoversRow
<1>11. SummariesAgree'
  BY <1>1, <1>2, <1>4 DEF SummariesAgree, NoSummary
<1>12. RowsAreListed'
  BY <1>2, <1>8, <1>9, <1>10 DEF RowsAreListed, Listed, ListedIn, CommandsAt
<1> QED
  BY <1>6, <1>11, <1>12 DEF StatsInv

(***************************************************************************)
(* Reading the row, then its events: the row is read first.                *)
(***************************************************************************)
LEMMA SessionKeeps ==
  ASSUME StatsInv, (\E s \in Sids : Session(s)) \/ DetailServed
  PROVE  StatsInv'
<1>1. StatsTyped /\ RowsAreListed /\ SummariesAgree
  BY DEF StatsInv
<1>2. UNCHANGED <<clock, stamped, ring, since, rows, dropped, mutex, cache, answer>>
  BY DEF Session, DetailServed
<1>3. \A s : Listed(s)' = Listed(s)
  BY <1>2 DEF Listed
<1>4. SummariesAgree'
  BY <1>1, <1>2 DEF SummariesAgree
<1>5. /\ detail'.cmds \in Nat
      /\ detail'.pc = "row" /\ detail'.sid \notin dropped =>
           detail'.cmds <= Listed(detail'.sid)
      /\ detail'.pc = "done" /\ detail'.sid \notin dropped =>
           detail'.cmds <= detail'.listed
  <2>1. ASSUME NEW s \in Sids, detail' = [NoDetail EXCEPT !.pc = "row", !.sid = s, !.cmds = rows[s]]
        PROVE  detail'.pc = "row" /\ detail'.sid = s /\ detail'.cmds = rows[s]
    BY <2>1 DEF NoDetail
  <2>2. CASE \E s \in Sids : Session(s) /\ detail.pc = "idle"
    BY <1>1, <2>1, <2>2 DEF Session, RowThenEvents, StatsTyped, RowsAreListed
  <2>3. CASE \E s \in Sids : Session(s) /\ detail.pc # "idle"
    <3>1. PICK s \in Sids : /\ detail.pc = "row" /\ detail.sid = s
                            /\ detail' = [detail EXCEPT !.pc = "done", !.listed = Listed(s)]
      BY <2>3 DEF Session, RowThenEvents
    <3> QED
      BY <1>1, <3>1 DEF StatsTyped, RowsAreListed
  <2>4. CASE DetailServed
    BY <2>4 DEF DetailServed, NoDetail
  <2> QED
    BY <2>2, <2>3, <2>4
<1>6. StatsTyped'
  BY <1>1, <1>2, <1>5 DEF StatsTyped
<1>7. RowsAreListed'
  BY <1>1, <1>2, <1>3, <1>5 DEF RowsAreListed, DetailCoversRow
<1> QED
  BY <1>4, <1>6, <1>7 DEF StatsInv

(***************************************************************************)
(* Computing and serving a summary: statsMu is held all the time, so that  *)
(* the cache is as old as it was.                                          *)
(***************************************************************************)
LEMMA SummaryKeeps ==
  ASSUME StatsInv, NEW c \in Callers, ServeCached(c) \/ Compute(c) \/ Serve(c)
  PROVE  StatsInv' /\ answer' >= answer
<1>1. StatsTyped /\ RowsAreListed /\ SummariesAgree /\ since.events \in Nat
  BY DEF StatsInv, StatsTyped
<1>2. UNCHANGED <<clock, stamped, ring, since, rows, dropped, detail>>
  BY DEF ServeCached, Compute, Serve
<1>3. StatsTyped'
  BY <1>1, <1>2 DEF StatsTyped
<1>4. RowsAreListed'
  BY <1>1, <1>2 DEF RowsAreListed, DetailCoversRow, Listed
<1>5. CASE ServeCached(c)
  <2>1. answer' = cache.summary /\ UNCHANGED <<mutex, cache>>
    BY <1>5 DEF ServeCached
  <2> QED
    BY <1>1, <1>2, <1>3, <1>4, <2>1 DEF StatsInv, SummariesAgree
<1>6. CASE Compute(c)
  <2>1. Summary.events = since.events
    BY DEF Summary
  <2>2. /\ \A d \in Callers : mutex[d] = NoSummary
        /\ mutex' = [mutex EXCEPT ![c] = since.events]
        /\ UNCHANGED <<cache, answer>>
    BY <1>6, <2>1 DEF Compute
  <2>3. SummariesAgree'
    BY <1>1, <1>2, <2>2 DEF SummariesAgree, NoSummary
  <2>4. answer' >= answer
    BY <1>1, <2>2 DEF SummariesAgree
  <2> QED
    BY <1>3, <1>4, <2>3, <2>4 DEF StatsInv
<1>7. CASE Serve(c)
  <2>1. /\ mutex[c] # NoSummary
        /\ cache'.summary = mutex[c] /\ answer' = mutex[c]
        /\ mutex' = [mutex EXCEPT ![c] = NoSummary]
    BY <1>7 DEF Serve
  <2>2. mutex[c] \in Int /\ cache.summary <= mutex[c] /\ mutex[c] <= since.events
    BY <1>1, <2>1 DEF SummariesAgree
  <2>3. \A d \in Callers : mutex'[d] = NoSummary
    BY <1>1, <2>1 DEF SummariesAgree
  <2>4. SummariesAgree'
    BY <1>1, <1>2, <2>1, <2>2, <2>3 DEF SummariesAgree, NoSummary
  <2>5. answer' >= answer
    BY <1>1, <2>1, <2>2 DEF SummariesAgree
  <2> QED
    BY <1>3, <1>4, <2>4, <2>5 DEF StatsInv
<1> QED
  BY <1>5, <1>6, <1>7

(***************************************************************************)
(* Every step keeps the invariant, and no summary goes back.               *)
(***************************************************************************)
LEMMA NextStatsInv ==
  ASSUME StatsInv, [StatsNext]_stVars
  PROVE  StatsInv' /\ answer' >= answer
<1>1. StatsTyped /\ RowsAreListed /\ SummariesAgree /\ answer \in Int
  BY DEF StatsInv, SummariesAgree
<1>2. ASSUME UNCHANGED <<since, dropped, ring, rows, detail, mutex, cache, answer>>, StatsTyped'
      PROVE  StatsInv' /\ answer' >= answer
  BY <1>1, <1>2 DEF StatsInv, RowsAreListed, DetailCoversRow, Listed, SummariesAgree
<1>3. ASSUME NEW g \in Writers, Stamp(g) PROVE StatsInv' /\ answer' >= answer
  <2>1. PICK b \in Bodies :
          stamped' = [stamped EXCEPT
            ![g] = [svc |-> b.svc, type |-> b.type, sid |-> b.sid, ts |-> clock]]
    BY <1>3 DEF Stamp
  <2>2. [svc |-> b.svc, type |-> b.type, sid |-> b.sid, ts |-> clock] \in LogEvent
    BY <1>1 DEF LogEvent, Services, StatsTyped
  <2>3. UNCHANGED <<clock, since, dropped, ring, rows, detail, mutex, cache, answer>>
    BY <1>3 DEF Stamp
  <2>4. StatsTyped'
    BY <1>1, <2>1, <2>2, <2>3 DEF StatsTyped
  <2> QED
    BY <1>2, <2>3, <2>4
<1>4. ASSUME NEW g \in Writers, Commit(g) PROVE StatsInv' /\ answer' >= answer
  <2>1. answer' = answer
    BY <1>4 DEF Commit
  <2> QED
    BY <1>1, <1>4, <2>1, CommitKeeps
<1>5. CASE (\E s \in Sids : Session(s)) \/ DetailServed
  <2>1. answer' = answer
    BY <1>5 DEF Session, DetailServed
  <2> QED
    BY <1>1, <1>5, <2>1, SessionKeeps
<1>6. ASSUME NEW c \in Callers, ServeCached(c) \/ Compute(c) \/ Serve(c)
      PROVE  StatsInv' /\ answer' >= answer
  BY <1>6, SummaryKeeps
<1>7. CASE Tick \/ UNCHANGED stVars
  <2>1. UNCHANGED <<stamped, since, dropped, ring, rows, detail, mutex, cache, answer>>
        /\ (clock' = clock + 1 \/ clock' = clock)
    BY <1>7 DEF Tick, stVars
  <2>2. StatsTyped'
    BY <1>1, <2>1 DEF StatsTyped
  <2> QED
    BY <1>2, <2>1, <2>2
<1> QED
  BY <1>3, <1>4, <1>5, <1>6, <1>7 DEF StatsNext

(***************************************************************************)
(* StatsInv holds in every reachable state.                                *)
(***************************************************************************)
THEOREM StatsInvariance == StatsSpec => []StatsInv
<1>1. StatsInv /\ [StatsNext]_stVars => StatsInv'
  BY NextStatsInv
<1> QED
  BY <1>1, InitStatsInv, PTL DEF StatsSpec

(***************************************************************************)
(* The detail of a session lists every command its row counts, though Log  *)
(* runs between the two locks, unless the ring dropped some of them.       *)
(***************************************************************************)
THEOREM DetailsCoverRows == StatsSpec => []DetailCoversRow
<1>1. StatsInv => DetailCoversRow
  BY DEF StatsInv, RowsAreListed
<1> QED
  BY <1>1, StatsInvariance, PTL

(***************************************************************************)
(* No summary that is served shows fewer events than an earlier one.       *)
(***************************************************************************)
THEOREM SummariesNeverGoBack == StatsSpec => SummaryNeverGoesBack
<1>1. StatsInv /\ [StatsNext]_stVars => [answer' >= answer]_stVars
  BY NextStatsInv
<1> QED
  BY <1>1, StatsInvariance, PTL DEF StatsSpec, SummaryNeverGoesBack

-----------------------------------------------------------------------------
(***************************************************************************)
(* Of any naturals one is least.                                           *)
(***************************************************************************)
LEMMA LeastNatural ==
  ASSUME NEW T \in SUBSET Nat, T # {}
  PROVE  \E x \in T : \A y \in T : x <= y
<1> DEFINE R == OpToRel(<, Nat)
<1>1. IsWellFoundedOn(R, Nat)
  BY NatLessThanWellFounded, Zenon
<1>2. \A x, y \in Nat : y < x => <<y, x>> \in R
  BY DEF OpToRel
<1> HIDE DEF R
<1>3. PICK x \in T : \A y \in T : ~ (<<y, x>> \in R)
  BY <1>1, WFMin
<1>4. ASSUME NEW y \in T PROVE x <= y
  <2>1. x \in Nat /\ y \in Nat
    OBVIOUS
  <2>2. ~ (y < x)
    BY <2>1, <1>2, <1>3
  <2> QED BY <2>1, <2>2
<1> QED BY <1>4

-----------------------------------------------------------------------------
(***************************************************************************)
(* A sum over disjoint parts is the number of what they have together:     *)
(* what MapThenSumSet computes by taking one part after the other.         *)
(***************************************************************************)
Together(F, T) == UNION {F[x] : x \in T}

Disjoint(F, S) == \A x, y \in S : x # y => F[x] \cap F[y] = {}

OneOf(T) == CHOOSE x \in T : TRUE

LEMMA TogetherIsFinite ==
  ASSUME NEW S, NEW U, IsFiniteSet(U), NEW F \in [S -> SUBSET U], NEW T \in SUBSET S
  PROVE  /\ IsFiniteSet(Together(F, T)) /\ Cardinality(Together(F, T)) \in Nat
<1>1. Together(F, T) \subseteq U
  BY DEF Together
<1> QED BY <1>1, FS_Subset, FS_CardinalityType

(***************************************************************************)
(* One part taken out.                                                     *)
(***************************************************************************)
LEMMA TakeOneOut ==
  ASSUME NEW S, NEW U, IsFiniteSet(U), NEW F \in [S -> SUBSET U], Disjoint(F, S),
         NEW T \in SUBSET S, T # {}
  PROVE  /\ OneOf(T) \in T
         /\ Cardinality(Together(F, T)) =
              Cardinality(F[OneOf(T)]) + Cardinality(Together(F, T \ {OneOf(T)}))
<1>1. OneOf(T) \in T
  BY Zenon DEF OneOf
<1> DEFINE x == OneOf(T)
          A == F[x]
          B == Together(F, T \ {x})
<1>2. Together(F, T) = A \cup B
  BY <1>1 DEF Together
<1>3. A \cap B = {}
  <2>1. ASSUME NEW z \in B PROVE z \notin A
    <3>1. PICK y \in T \ {x} : z \in F[y]
      BY DEF Together
    <3> QED BY <3>1, <1>1 DEF Disjoint
  <2> QED BY <2>1
<1>4. IsFiniteSet(A) /\ Cardinality(A) \in Nat
  <2>1. A \subseteq U
    BY <1>1
  <2> QED BY <2>1, FS_Subset, FS_CardinalityType
<1>5. IsFiniteSet(B) /\ Cardinality(B) \in Nat
  <2>1. T \ {x} \in SUBSET S
    OBVIOUS
  <2> QED BY <2>1, TogetherIsFinite
<1>6. Cardinality(A \cup B) = Cardinality(A) + Cardinality(B)
  <2> HIDE DEF A, B
  <2>1. Cardinality(A \cup B) = Cardinality(A) + Cardinality(B) - Cardinality(A \cap B)
    BY <1>4, <1>5, FS_Union
  <2>2. Cardinality(A \cap B) = 0
    BY <1>3, FS_EmptySet
  <2> QED BY <2>1, <2>2, <1>4, <1>5
<1> QED BY <1>1, <1>2, <1>6

(***************************************************************************)
(* Whatever adds the parts up one by one comes to that number.             *)
(***************************************************************************)
LEMMA AddsUp ==
  ASSUME NEW S, IsFiniteSet(S), NEW U, IsFiniteSet(U),
         NEW F \in [S -> SUBSET U], Disjoint(F, S),
         NEW it,
         \A T \in SUBSET S :
           it[T] = IF T = {} THEN 0 ELSE Cardinality(F[OneOf(T)]) + it[T \ {OneOf(T)}]
  PROVE  it[S] = Cardinality(Together(F, S))
<1> DEFINE Bad == {T \in SUBSET S : it[T] # Cardinality(Together(F, T))}
          Sizes == {Cardinality(T) : T \in Bad}
<1>1. SUFFICES Bad = {}
  OBVIOUS
<1>2. SUFFICES ASSUME Bad # {} PROVE FALSE
  OBVIOUS
<1>3. \A T \in SUBSET S : IsFiniteSet(T) /\ Cardinality(T) \in Nat
  BY FS_Subset, FS_CardinalityType
<1>4. Sizes \in SUBSET Nat /\ Sizes # {}
  BY <1>2, <1>3
<1>5. PICK n \in Sizes : \A m \in Sizes : n <= m
  <2> HIDE DEF Sizes
  <2> QED BY <1>4, LeastNatural
<1>6. PICK T \in Bad : Cardinality(T) = n
  OBVIOUS
<1>7. CASE T = {}
  <2>1. Together(F, T) = {}
    BY <1>7 DEF Together
  <2>2. it[T] = 0
    BY <1>7
  <2> QED BY <2>1, <2>2, <1>6, FS_EmptySet
<1>8. CASE T # {}
  <2> DEFINE x == OneOf(T)
  <2>1. x \in T /\ Cardinality(Together(F, T)) = Cardinality(F[x]) + Cardinality(Together(F, T \ {x}))
    BY <1>8, TakeOneOut
  <2>2. it[T] = Cardinality(F[x]) + it[T \ {x}]
    BY <1>8
  <2>3. T \ {x} \in SUBSET S /\ T \ {x} \in Bad
    BY <2>1, <2>2
  <2>4. Cardinality(T \ {x}) = Cardinality(T) - 1
    BY <2>1, <1>3, FS_RemoveElement
  <2>5. Cardinality(T \ {x}) \in Sizes
    BY <2>3
  <2>6. Cardinality(T) \in Nat
    BY <1>3
  <2> HIDE DEF Sizes, Bad
  <2>7. n <= Cardinality(T \ {x})
    BY <1>5, <2>5
  <2> QED BY <2>4, <2>6, <2>7, <1>6
<1> QED BY <1>7, <1>8

(***************************************************************************)
(* And there is one that does.                                             *)
(***************************************************************************)
Totals(F, S) == [T \in SUBSET S |-> Cardinality(Together(F, T))]

LEMMA TotalsAddUp ==
  ASSUME NEW S, NEW U, IsFiniteSet(U), NEW F \in [S -> SUBSET U], Disjoint(F, S)
  PROVE  \A T \in SUBSET S : Totals(F, S)[T] =
           IF T = {} THEN 0
           ELSE Cardinality(F[OneOf(T)]) + Totals(F, S)[T \ {OneOf(T)}]
<1>1. TAKE T \in SUBSET S
<1>2. CASE T = {}
  <2>1. Together(F, T) = {}
    BY <1>2 DEF Together
  <2> QED BY <1>2, <2>1, FS_EmptySet DEF Totals
<1>3. CASE T # {}
  <2>1. T \ {OneOf(T)} \in SUBSET S
    OBVIOUS
  <2> QED BY <1>3, <2>1, TakeOneOut DEF Totals
<1> QED BY <1>2, <1>3

EventsOf(r) == MapThenSumSet(LAMBDA x : r[x].events, DOMAIN r)
CountsOf(r) == MapThenSumSet(LAMBDA x : r[x].count, DOMAIN r)

(***************************************************************************)
(* So do the two sums of the summary.                                      *)
(***************************************************************************)
LEMMA EventsSum ==
  ASSUME NEW r, IsFiniteSet(DOMAIN r), NEW U, IsFiniteSet(U),
         NEW F \in [DOMAIN r -> SUBSET U], Disjoint(F, DOMAIN r),
         \A x \in DOMAIN r : r[x].events = Cardinality(F[x])
  PROVE  EventsOf(r) = Cardinality(Together(F, DOMAIN r))
<1> DEFINE S == DOMAIN r
          Adds(it) == it = [T \in SUBSET S |-> IF T = {} THEN 0
                               ELSE r[OneOf(T)].events + it[T \ {OneOf(T)}]]
<1>0. \A T \in SUBSET S : T # {} => r[OneOf(T)].events = Cardinality(F[OneOf(T)])
  BY TakeOneOut
<1>1. Adds(Totals(F, S))
  <2> DEFINE g == Totals(F, S)
            Body(T) == IF T = {} THEN 0 ELSE r[OneOf(T)].events + g[T \ {OneOf(T)}]
  <2>1. g = [T \in SUBSET S |-> g[T]]
    BY DEF Totals
  <2>2. \A T \in SUBSET S : g[T] = Body(T)
    <3>1. \A T \in SUBSET S : g[T] = IF T = {} THEN 0
                               ELSE Cardinality(F[OneOf(T)]) + g[T \ {OneOf(T)}]
      BY TotalsAddUp
    <3> HIDE DEF g
    <3> QED BY <3>1, <1>0
  <2>3. g = [T \in SUBSET S |-> Body(T)]
    <3> HIDE DEF g, Body
    <3> QED BY <2>1, <2>2
  <2> QED BY <2>3, Zenon
<1>2. ASSUME NEW it, Adds(it) PROVE it[S] = Cardinality(Together(F, S))
  <2>1. \A T \in SUBSET S :
          it[T] = IF T = {} THEN 0 ELSE r[OneOf(T)].events + it[T \ {OneOf(T)}]
    BY <1>2, Zenon
  <2>2. \A T \in SUBSET S :
          it[T] = IF T = {} THEN 0 ELSE Cardinality(F[OneOf(T)]) + it[T \ {OneOf(T)}]
    BY <2>1, <1>0
  <2> QED BY <2>2, AddsUp
<1>3. (CHOOSE it : Adds(it))[S] = Cardinality(Together(F, S))
  <2> HIDE DEF Adds
  <2> QED BY <1>1, <1>2, Zenon
<1> QED BY <1>3, Zenon DEF EventsOf, MapThenSumSet, MapThenFoldSet, OneOf

(***************************************************************************)
(* The same of the counts.                                                 *)
(***************************************************************************)
LEMMA CountsSum ==
  ASSUME NEW r, IsFiniteSet(DOMAIN r), NEW U, IsFiniteSet(U),
         NEW F \in [DOMAIN r -> SUBSET U], Disjoint(F, DOMAIN r),
         \A x \in DOMAIN r : r[x].count = Cardinality(F[x])
  PROVE  CountsOf(r) = Cardinality(Together(F, DOMAIN r))
<1> DEFINE S == DOMAIN r
          Adds(it) == it = [T \in SUBSET S |-> IF T = {} THEN 0
                               ELSE r[OneOf(T)].count + it[T \ {OneOf(T)}]]
<1>0. \A T \in SUBSET S : T # {} => r[OneOf(T)].count = Cardinality(F[OneOf(T)])
  BY TakeOneOut
<1>1. Adds(Totals(F, S))
  <2> DEFINE g == Totals(F, S)
            Body(T) == IF T = {} THEN 0 ELSE r[OneOf(T)].count + g[T \ {OneOf(T)}]
  <2>1. g = [T \in SUBSET S |-> g[T]]
    BY DEF Totals
  <2>2. \A T \in SUBSET S : g[T] = Body(T)
    <3>1. \A T \in SUBSET S : g[T] = IF T = {} THEN 0
                               ELSE Cardinality(F[OneOf(T)]) + g[T \ {OneOf(T)}]
      BY TotalsAddUp
    <3> HIDE DEF g
    <3> QED BY <3>1, <1>0
  <2>3. g = [T \in SUBSET S |-> Body(T)]
    <3> HIDE DEF g, Body
    <3> QED BY <2>1, <2>2
  <2> QED BY <2>3, Zenon
<1>2. ASSUME NEW it, Adds(it) PROVE it[S] = Cardinality(Together(F, S))
  <2>1. \A T \in SUBSET S :
          it[T] = IF T = {} THEN 0 ELSE r[OneOf(T)].count + it[T \ {OneOf(T)}]
    BY <1>2, Zenon
  <2>2. \A T \in SUBSET S :
          it[T] = IF T = {} THEN 0 ELSE Cardinality(F[OneOf(T)]) + it[T \ {OneOf(T)}]
    BY <2>1, <1>0
  <2> QED BY <2>2, AddsUp
<1>3. (CHOOSE it : Adds(it))[S] = Cardinality(Together(F, S))
  <2> HIDE DEF Adds
  <2> QED BY <1>1, <1>2, Zenon
<1> QED BY <1>3, Zenon DEF CountsOf, MapThenSumSet, MapThenFoldSet, OneOf

-----------------------------------------------------------------------------
\* The counters: the events of the ring and those since the start.

(***************************************************************************)
(* Nothing is from the future; the ring holds what was logged since the    *)
(* start, and at most one replayed event more, unless it is full; there is *)
(* a first event once there is traffic.                                    *)
(***************************************************************************)
CountersAgree ==
  /\ since.traffic \in Nat /\ since.first \in Int
  /\ \A g \in Writers : stamped[g] # None => stamped[g].ts <= clock
  /\ \A i \in DOMAIN ring : ring[i].ts <= clock
  /\ Len(ring) <= MaxRows
  /\ Len(ring) < MaxRows => since.events <= Len(ring) /\ Len(ring) <= since.events + 1
  /\ since.first = -1 <=> since.traffic = 0

(***************************************************************************)
(* They do at the start.                                                   *)
(***************************************************************************)
LEMMA InitCounters == StatsInit => CountersAgree
<1> SUFFICES ASSUME StatsInit PROVE CountersAgree
  OBVIOUS
<1>1. Len(ring) \in 0..1 /\ \A i \in DOMAIN ring : ring[i].ts = 0
  <2>1. CASE ring = <<>>
    BY <2>1
  <2>2. ASSUME NEW b \in Bodies,
               ring = <<[svc |-> b.svc, type |-> b.type, sid |-> "", ts |-> 0]>>
        PROVE  Len(ring) \in 0..1 /\ \A i \in DOMAIN ring : ring[i].ts = 0
    <3> DEFINE e == [svc |-> b.svc, type |-> b.type, sid |-> "", ts |-> 0]
    <3>1. e.ts = 0
      OBVIOUS
    <3> HIDE DEF e
    <3>2. ring = <<e>>
      BY <2>2 DEF e
    <3> QED
      BY <3>1, <3>2
  <2> QED
    BY <2>1, <2>2 DEF StatsInit, Replayed
<1>2. MaxRows \in Nat \ {0}
  BY StatsAssumption
<1>3. since.events = 0 /\ since.traffic = 0 /\ since.first = -1
  BY DEF StatsInit
<1>4. clock = 1 /\ \A g \in Writers : stamped[g] = None
  BY DEF StatsInit
<1>5. \A i \in DOMAIN ring : ring[i].ts <= clock
  BY <1>1, <1>4
<1>6. /\ Len(ring) <= MaxRows
      /\ since.events <= Len(ring) /\ Len(ring) <= since.events + 1
  <2> DEFINE n == Len(ring)
  <2>1. n \in 0..1
    BY <1>1
  <2> HIDE DEF n
  <2>2. n <= MaxRows /\ 0 <= n /\ n <= 0 + 1
    BY <2>1, <1>2
  <2> QED
    BY <2>2, <1>3 DEF n
<1>7. \A g \in Writers : stamped[g] # None => stamped[g].ts <= clock
  BY <1>4
<1>8. since.traffic \in Nat /\ since.first \in Int /\ (since.first = -1 <=> since.traffic = 0)
  BY <1>3
<1> QED
  BY <1>5, <1>6, <1>7, <1>8 DEF CountersAgree

(***************************************************************************)
(* Logging an event counts it where the ring gets it.                      *)
(***************************************************************************)
LEMMA CommitCounts ==
  ASSUME StatsTyped, CountersAgree, NEW g \in Writers, Commit(g)
  PROVE  CountersAgree'
<1> DEFINE e == stamped[g]
           all == Append(ring, e)
<1>0. MaxRows \in Nat \ {0} /\ since.events \in Nat /\ clock \in Nat
  BY StatsAssumption DEF StatsTyped
<1>1. /\ e \in LogEvent /\ e # None /\ ring \in Seq(LogEvent)
      /\ clock' = clock
      /\ stamped' = [stamped EXCEPT ![g] = None]
      /\ since' = Counted(e)
      /\ \/ Len(all) <= MaxRows /\ ring' = all
         \/ Len(all) > MaxRows /\ ring' = Tail(all)
  BY <1>0 DEF Commit, StatsTyped
<1>2. e.ts \in Nat /\ e.ts <= clock
  BY <1>1 DEF LogEvent, CountersAgree
<1>3. /\ all \in Seq(LogEvent) /\ Len(all) = Len(ring) + 1 /\ Len(ring) \in Nat
      /\ \A i \in 1..Len(all) : all[i] = IF i <= Len(ring) THEN ring[i] ELSE e
      /\ DOMAIN ring = 1..Len(ring) /\ DOMAIN all = 1..Len(all)
      /\ Len(Tail(all)) = Len(ring)
      /\ \A i \in 1..Len(ring) : Tail(all)[i] = all[i + 1]
      /\ DOMAIN Tail(all) = 1..Len(ring)
  <2>1. /\ all \in Seq(LogEvent) /\ Len(all) = Len(ring) + 1 /\ Len(ring) \in Nat
        /\ \A i \in 1..Len(all) : all[i] = IF i <= Len(ring) THEN ring[i] ELSE e
        /\ DOMAIN ring = 1..Len(ring) /\ DOMAIN all = 1..Len(all)
    BY <1>1
  <2> HIDE DEF all
  <2>2. /\ Tail(all) \in Seq(LogEvent) /\ Len(Tail(all)) = Len(ring)
        /\ \A i \in 1..Len(ring) : Tail(all)[i] = all[i + 1]
    BY <2>1, HeadTailProperties
  <2> QED
    BY <2>1, <2>2
<1>4. \A i \in DOMAIN all : all[i].ts <= clock
  BY <1>2, <1>3 DEF CountersAgree
<1> HIDE DEF all, e
<1>5. \A i \in DOMAIN ring' : ring'[i].ts <= clock
  <2>1. CASE ring' = all
    BY <1>4, <2>1
  <2>2. CASE ring' = Tail(all)
    <3> SUFFICES ASSUME NEW i \in 1..Len(ring) PROVE ring'[i].ts <= clock
      BY <1>3, <2>2
    <3>1. i + 1 \in DOMAIN all /\ ring'[i] = all[i + 1]
      BY <1>3, <2>2
    <3> QED
      BY <1>4, <3>1
  <2> QED
    BY <1>1, <2>1, <2>2
<1>6. /\ since'.events = since.events + 1
      /\ since'.traffic = IF OwnBookkeeping(e) THEN since.traffic ELSE since.traffic + 1
      /\ since'.first = IF since.first = -1 /\ ~OwnBookkeeping(e) THEN e.ts ELSE since.first
  BY <1>1 DEF Counted
<1>7. /\ since'.traffic \in Nat /\ since'.first \in Int
      /\ since'.first = -1 <=> since'.traffic = 0
  <2>1. CASE OwnBookkeeping(e)
    BY <1>6, <2>1 DEF CountersAgree
  <2>2. CASE ~OwnBookkeeping(e)
    <3>1. since'.traffic = since.traffic + 1 /\ since.traffic \in Nat /\ since.first \in Int
      BY <1>6, <2>2 DEF CountersAgree
    <3>2. since'.first # -1 /\ since'.first \in Int
      BY <1>2, <1>6, <2>2, <3>1
    <3> QED BY <3>1, <3>2
  <2> QED BY <2>1, <2>2
<1>8. /\ Len(ring') <= MaxRows
      /\ Len(ring') < MaxRows =>
           since'.events <= Len(ring') /\ Len(ring') <= since'.events + 1
  BY <1>0, <1>1, <1>3, <1>6 DEF CountersAgree
<1>9. \A h \in Writers : stamped'[h] # None => stamped'[h].ts <= clock
  BY <1>1 DEF CountersAgree, StatsTyped
<1> QED
  BY <1>1, <1>5, <1>7, <1>8, <1>9 DEF CountersAgree

(***************************************************************************)
(* Every step keeps the counters in agreement.                             *)
(***************************************************************************)
LEMMA NextCounters ==
  ASSUME StatsTyped, CountersAgree, [StatsNext]_stVars
  PROVE  CountersAgree'
<1>1. clock \in Nat
  BY DEF StatsTyped
<1>2. ASSUME NEW g \in Writers, Stamp(g) PROVE CountersAgree'
  <2>1. UNCHANGED <<clock, ring, since>>
        /\ \E t : t.ts = clock /\ stamped' = [stamped EXCEPT ![g] = t]
    BY <1>2 DEF Stamp
  <2>2. \A h \in Writers : stamped'[h] # None => stamped'[h].ts <= clock
    BY <1>1, <2>1 DEF CountersAgree, StatsTyped
  <2> QED
    BY <2>1, <2>2 DEF CountersAgree
<1>3. ASSUME NEW g \in Writers, Commit(g) PROVE CountersAgree'
  BY <1>3, CommitCounts
<1>4. ASSUME UNCHANGED <<clock, stamped, ring, since>> PROVE CountersAgree'
  BY <1>4 DEF CountersAgree
<1>5. CASE (\E s \in Sids : Session(s)) \/ DetailServed
  BY <1>4, <1>5 DEF Session, DetailServed
<1>6. ASSUME NEW c \in Callers, ServeCached(c) \/ Compute(c) \/ Serve(c) PROVE CountersAgree'
  BY <1>4, <1>6 DEF ServeCached, Compute, Serve
<1>7. CASE Tick
  <2>1. clock' = clock + 1 /\ UNCHANGED <<stamped, ring, since>>
    BY <1>7 DEF Tick
  <2>2. ASSUME NEW g \in Writers, stamped[g] # None PROVE stamped[g].ts \in Nat
    <3>1. stamped[g] \in LogEvent
      BY <2>2 DEF StatsTyped
    <3> QED
      BY <3>1 DEF LogEvent
  <2>3. ASSUME NEW i \in DOMAIN ring PROVE ring[i].ts \in Nat
    <3>1. ring[i] \in LogEvent
      BY DEF StatsTyped
    <3> QED
      BY <3>1 DEF LogEvent
  <2> QED
    BY <1>1, <2>1, <2>2, <2>3 DEF CountersAgree
<1>8. CASE UNCHANGED stVars
  BY <1>4, <1>8 DEF stVars
<1> QED
  BY <1>2, <1>3, <1>5, <1>6, <1>7, <1>8 DEF StatsNext

(***************************************************************************)
(* The services of a summary have all events of the ring between them.     *)
(***************************************************************************)
LEMMA ServicesAddUp ==
  ASSUME StatsTyped
  PROVE  EventsOf(Summary.services) = Len(ring)
<1> DEFINE r == Summary.services
           S == Named
           F == [x \in S |-> {i \in DOMAIN ring : ring[i].svc = x}]
           U == DOMAIN ring
<1>0. S = {ring[i].svc : i \in U}
  <2>1. \A i \in U : ring[i] \in LogEvent
    BY DEF StatsTyped
  <2>2. \A i \in U : ring[i].svc \in Services
    BY <2>1 DEF LogEvent
  <2>3. "" \notin Services
    BY StatsAssumption
  <2>4. \A i \in U : ring[i].svc # ""
    BY <2>2, <2>3
  <2> QED
    BY <2>4 DEF Named
<1>1. r = [s \in S |-> ServiceStat(s)]
  BY DEF Summary
<1>2. DOMAIN r = S /\ \A x \in S : r[x].events = Cardinality(F[x])
  BY <1>1 DEF ServiceStat, Count
<1>3. U = 1..Len(ring) /\ Len(ring) \in Nat
  BY DEF StatsTyped
<1>4. IsFiniteSet(U) /\ Cardinality(U) = Len(ring)
  <2> DEFINE n == Len(ring)
  <2>1. n \in Nat /\ U = 1..n
    BY <1>3
  <2> HIDE DEF n, U
  <2>2. IsFiniteSet(1..n) /\ Cardinality(1..n) = IF 1 > n THEN 0 ELSE n - 1 + 1
    BY <2>1, FS_Interval
  <2>3. Cardinality(1..n) = n
    BY <2>1, <2>2
  <2> QED
    BY <2>1, <2>2, <2>3 DEF n
<1>5. IsFiniteSet(S)
  <2> DEFINE f == [i \in U |-> ring[i].svc]
  <2>1. f \in Surjection(U, S)
    BY <1>0 DEF Surjection
  <2> QED BY <1>4, <2>1, FS_Surjection
<1>6. F \in [S -> SUBSET U] /\ Disjoint(F, S)
  BY DEF Disjoint
<1>7. Together(F, S) = U
  <2>1. ASSUME NEW i \in U PROVE i \in Together(F, S)
    <3>1. ring[i].svc \in S /\ i \in F[ring[i].svc]
      BY <1>0
    <3> QED
      BY <3>1 DEF Together
  <2>2. Together(F, S) \subseteq U
    BY <1>6 DEF Together
  <2> QED
    BY <2>1, <2>2
<1> HIDE DEF r, S, F, U
<1>8. EventsOf(r) = Cardinality(Together(F, DOMAIN r))
  BY <1>2, <1>4, <1>5, <1>6, EventsSum
<1> QED
  BY <1>2, <1>4, <1>7, <1>8 DEF r

(***************************************************************************)
(* The buckets of its timeline have those of the last hours between them.  *)
(***************************************************************************)
LEMMA TimelineAddsUp ==
  ASSUME StatsTyped, CountersAgree
  PROVE  CountsOf(Timeline) =
           Cardinality({i \in DOMAIN ring : ring[i].ts > clock - Hours})
<1> DEFINE r == Timeline
           S == 0..(Hours - 1)
           F == [h \in S |-> {i \in DOMAIN ring : ring[i].ts - FirstHour = h}]
           U == DOMAIN ring
<1>1. DOMAIN r = S /\ \A h \in S : r[h].count = Cardinality(F[h])
  BY DEF Timeline, Count
<1>2. U = 1..Len(ring) /\ Len(ring) \in Nat
  BY DEF StatsTyped
<1>3. IsFiniteSet(U)
  BY <1>2, FS_Interval
<1>4. Hours \in Nat \ {0} /\ clock \in Nat
  BY StatsAssumption DEF StatsTyped
<1>5. IsFiniteSet(S)
  BY <1>4, FS_Interval
<1>6. F \in [S -> SUBSET U] /\ Disjoint(F, S)
  BY DEF Disjoint
<1>7. \A i \in U : ring[i].ts \in Nat /\ ring[i].ts <= clock
  <2> SUFFICES ASSUME NEW i \in DOMAIN ring
               PROVE  ring[i].ts \in Nat /\ ring[i].ts <= clock
    OBVIOUS
  <2>1. ring[i] \in LogEvent
    BY DEF StatsTyped
  <2> QED
    BY <2>1 DEF LogEvent, CountersAgree
<1>8. Together(F, S) = {i \in DOMAIN ring : ring[i].ts > clock - Hours}
  <2>1. \A i \in U : ring[i].ts > clock - Hours <=> ring[i].ts - FirstHour \in S
    BY <1>4, <1>7 DEF FirstHour
  <2> QED BY <2>1 DEF Together
<1> HIDE DEF r, S, F, U
<1>9. CountsOf(r) = Cardinality(Together(F, DOMAIN r))
  BY <1>1, <1>3, <1>5, <1>6, CountsSum
<1> QED
  BY <1>1, <1>8, <1>9 DEF r

(***************************************************************************)
(* A summary adds up at any moment: its services to its total, its total   *)
(* to what was replayed and logged, its timeline to the last hours.        *)
(***************************************************************************)
THEOREM SummariesAddUp == StatsSpec => []SummaryAddsUp
<1>1. StatsInit => CountersAgree
  BY InitCounters
<1>2. StatsInv /\ CountersAgree /\ [StatsNext]_stVars => CountersAgree'
  BY NextCounters DEF StatsInv
<1>3. StatsInv /\ CountersAgree => SummaryAddsUp
  <2> SUFFICES ASSUME StatsInv, CountersAgree PROVE SummaryAddsUp
    OBVIOUS
  <2>1. StatsTyped
    BY DEF StatsInv
  <2>2. /\ Summary.total = Len(ring) /\ Summary.timeline = Timeline
        /\ Summary.first = since.first /\ Summary.traffic = since.traffic
    BY DEF Summary
  <2>3. EventsOf(Summary.services) = Summary.total
    BY <2>1, <2>2, ServicesAddUp
  <2>4. CountsOf(Summary.timeline) =
          Cardinality({i \in DOMAIN ring : ring[i].ts > clock - Hours})
    BY <2>1, <2>2, TimelineAddsUp
  <2>5. /\ Summary.total < MaxRows =>
             since.events <= Summary.total /\ Summary.total <= since.events + 1
        /\ Summary.first = -1 <=> Summary.traffic = 0
    BY <2>2 DEF CountersAgree
  <2> QED
    BY <2>3, <2>4, <2>5, Zenon DEF SummaryAddsUp, EventsOf, CountsOf, Count
<1> QED
  BY <1>1, <1>2, <1>3, StatsInvariance, PTL DEF StatsSpec

-----------------------------------------------------------------------------
\* What the walk of Events collects.

Take(e, f, q) == IF Matches(e, f) /\ Len(q) < Limit(f) THEN <<e>> \o q ELSE q

\* The walk over the newest n events.
Walks(h, f, n) ==
  h = [i \in 0..n |-> IF i = 0 THEN <<>> ELSE Take(ring[Len(ring) + 1 - i], f, h[i - 1])]

(***************************************************************************)
(* There is such a walk, for one can always look at one event more.        *)
(***************************************************************************)
LEMMA WalkExists ==
  ASSUME StatsTyped, NEW f
  PROVE  \E h : Walks(h, f, Len(ring))
<1> DEFINE N == Len(ring)
           Bad == {n \in 0..N : ~ \E h : Walks(h, f, n)}
<1>1. N \in Nat
  BY DEF StatsTyped
<1>2. SUFFICES ASSUME Bad # {} PROVE FALSE
  BY <1>1
<1>3. PICK n \in Bad : \A m \in Bad : n <= m
  <2>1. Bad \in SUBSET Nat
    OBVIOUS
  <2> HIDE DEF Bad
  <2> QED
    BY <1>2, <2>1, LeastNatural
<1>4. CASE n = 0
  <2> DEFINE h == [i \in 0..0 |-> <<>>]
  <2>1. Walks(h, f, 0)
    BY DEF Walks
  <2> QED
    BY <1>4, <2>1
<1>5. CASE n # 0
  <2>1. n \in Nat /\ n - 1 \in 0..N /\ n - 1 \notin Bad
    BY <1>3, <1>5
  <2>2. PICK h : Walks(h, f, n - 1)
    BY <2>1
  <2> DEFINE T(i, q) == Take(ring[Len(ring) + 1 - i], f, q)
             g == [i \in 0..n |-> IF i = n THEN T(n, h[n - 1]) ELSE h[i]]
             k == [i \in 0..n |-> IF i = 0 THEN <<>> ELSE T(i, g[i - 1])]
  <2>3. \A i \in 0..(n - 1) : h[i] = IF i = 0 THEN <<>> ELSE T(i, h[i - 1])
    BY <2>2, Zenon DEF Walks
  <2> HIDE DEF T
  <2>4. \A i \in 0..n : g[i] = k[i]
    <3> SUFFICES ASSUME NEW i \in 0..n PROVE g[i] = k[i]
      OBVIOUS
    <3>1. CASE i = n
      BY <1>5, <2>1, <3>1
    <3>2. CASE i # n
      BY <2>1, <2>3, <3>2
    <3> QED
      BY <3>1, <3>2
  <2>5. g = k
    BY <2>4
  <2>6. Walks(g, f, n)
    <3> HIDE DEF g
    <3>1. g = [i \in 0..n |-> IF i = 0 THEN <<>> ELSE T(i, g[i - 1])]
      BY <2>5
    <3> QED
      BY <3>1, Zenon DEF T, Walks
  <2> QED
    BY <2>6
<1> QED
  BY <1>4, <1>5

(***************************************************************************)
(* Walk is one.                                                            *)
(***************************************************************************)
LEMMA WalkWalks ==
  ASSUME StatsTyped, NEW f
  PROVE  /\ Walk(f)[0] = <<>>
         /\ \A i \in 1..Len(ring) :
              Walk(f)[i] = Take(ring[Len(ring) + 1 - i], f, Walk(f)[i - 1])
<1>1. PICK h : Walks(h, f, Len(ring))
  BY WalkExists
<1>2. Walks(CHOOSE g : Walks(g, f, Len(ring)), f, Len(ring))
  BY <1>1, Zenon
<1>3. Walks(Walk(f), f, Len(ring))
  BY <1>2, Zenon DEF Walk, Walks, Take
<1>4. Len(ring) \in Nat
  BY DEF StatsTyped
<1> DEFINE w == Walk(f)
<1> HIDE DEF w
<1>5. \A i \in 0..Len(ring) :
        w[i] = IF i = 0 THEN <<>> ELSE Take(ring[Len(ring) + 1 - i], f, w[i - 1])
  BY <1>3, Zenon DEF w, Walks
<1>6. w[0] = <<>>
  BY <1>4, <1>5
<1>7. \A i \in 1..Len(ring) : w[i] = Take(ring[Len(ring) + 1 - i], f, w[i - 1])
  BY <1>4, <1>5
<1> QED
  BY <1>6, <1>7 DEF w

\* The events asked for among the newest n.
AskedOf(f, n) == {j \in DOMAIN ring : Matches(ring[j], f) /\ j > Len(ring) - n}

(***************************************************************************)
(* One event more is asked for, or not.                                    *)
(***************************************************************************)
LEMMA OneMoreAsked ==
  ASSUME StatsTyped, NEW f, NEW n \in 1..Len(ring)
  PROVE  LET e == Len(ring) + 1 - n
         IN /\ e \in DOMAIN ring /\ e \notin AskedOf(f, n - 1)
            /\ AskedOf(f, n) = IF Matches(ring[e], f) THEN AskedOf(f, n - 1) \cup {e}
                               ELSE AskedOf(f, n - 1)
            /\ IsFiniteSet(AskedOf(f, n - 1)) /\ Cardinality(AskedOf(f, n - 1)) \in Nat
            /\ Cardinality(AskedOf(f, n)) = Cardinality(AskedOf(f, n - 1))
                                              + (IF Matches(ring[e], f) THEN 1 ELSE 0)
<1> DEFINE e == Len(ring) + 1 - n
<1>1. Len(ring) \in Nat /\ DOMAIN ring = 1..Len(ring)
  BY DEF StatsTyped
<1>2. e \in DOMAIN ring /\ e \notin AskedOf(f, n - 1)
  BY <1>1 DEF AskedOf
<1>3. AskedOf(f, n) = IF Matches(ring[e], f) THEN AskedOf(f, n - 1) \cup {e}
                      ELSE AskedOf(f, n - 1)
  <2>1. \A j \in DOMAIN ring : j > Len(ring) - n <=> j > Len(ring) - (n - 1) \/ j = e
    BY <1>1
  <2> HIDE DEF e
  <2> QED
    BY <1>2, <2>1 DEF AskedOf
<1>4. IsFiniteSet(AskedOf(f, n - 1)) /\ Cardinality(AskedOf(f, n - 1)) \in Nat
  <2>1. IsFiniteSet(1..Len(ring)) /\ AskedOf(f, n - 1) \subseteq 1..Len(ring)
    BY <1>1, FS_Interval DEF AskedOf
  <2> QED
    BY <2>1, FS_Subset, FS_CardinalityType
<1>5. Cardinality(AskedOf(f, n)) = Cardinality(AskedOf(f, n - 1))
                                     + (IF Matches(ring[e], f) THEN 1 ELSE 0)
  <2> DEFINE A == AskedOf(f, n - 1)
  <2>1. Cardinality(A \cup {e}) = Cardinality(A) + 1
    BY <1>2, <1>4, FS_AddElement
  <2> HIDE DEF e, A
  <2>2. CASE Matches(ring[e], f)
    BY <1>3, <2>1, <2>2 DEF A
  <2>3. CASE ~Matches(ring[e], f)
    BY <1>3, <1>4, <2>3
  <2> QED
    BY <2>2, <2>3
<1> QED
  BY <1>2, <1>3, <1>4, <1>5

\* A walk over the newest n has what it should.
Collects(f, n) ==
  LET q == Walk(f)[n]
      asked == Cardinality(AskedOf(f, n))
  IN /\ q \in Seq(LogEvent)
     /\ Len(q) = IF asked < Limit(f) THEN asked ELSE Limit(f)
     /\ \A j \in AskedOf(f, n) :
          Cardinality(AskedOf(f, Len(ring) + 1 - j)) <= Limit(f) => ring[j] \in Range(q)

(***************************************************************************)
(* So it goes on, one event more.                                          *)
(***************************************************************************)
LEMMA OneMoreCollects ==
  ASSUME StatsTyped, NEW f, Limit(f) \in Nat \ {0},
         NEW n \in 1..Len(ring), Collects(f, n - 1)
  PROVE  Collects(f, n)
<1> DEFINE k == Len(ring) + 1 - n
           e == ring[k]
           p == Walk(f)[n - 1]
           q == Walk(f)[n]
           a == Cardinality(AskedOf(f, n - 1))
           b == Cardinality(AskedOf(f, n))
<1>1. /\ k \in DOMAIN ring /\ a \in Nat
      /\ AskedOf(f, n) = IF Matches(e, f) THEN AskedOf(f, n - 1) \cup {k} ELSE AskedOf(f, n - 1)
      /\ b = a + (IF Matches(e, f) THEN 1 ELSE 0)
  BY OneMoreAsked
<1>2. q = Take(e, f, p)
  BY WalkWalks
<1>3. /\ p \in Seq(LogEvent) /\ Len(p) = (IF a < Limit(f) THEN a ELSE Limit(f))
      /\ \A j \in AskedOf(f, n - 1) :
           Cardinality(AskedOf(f, Len(ring) + 1 - j)) <= Limit(f) => ring[j] \in Range(p)
  BY DEF Collects
<1>4. Len(ring) + 1 - k = n /\ Len(ring) \in Nat
  BY DEF StatsTyped
<1>5. e \in LogEvent
  BY <1>1 DEF StatsTyped
<1> HIDE DEF k, e, p, q, a
<1>6. CASE ~Matches(e, f)
  BY <1>1, <1>2, <1>3, <1>6 DEF Take, Collects, q, a
<1>7. CASE Matches(e, f) /\ a < Limit(f)
  <2>1. q = <<e>> \o p /\ b = a + 1
    BY <1>1, <1>2, <1>3, <1>7 DEF Take
  <2>2. /\ q \in Seq(LogEvent) /\ Len(q) = Len(p) + 1
        /\ q[1] = e /\ \A i \in 1..Len(p) : q[i + 1] = p[i]
    BY <1>3, <1>5, <2>1
  <2>3. e \in Range(q) /\ \A x \in Range(p) : x \in Range(q)
    <3>1. DOMAIN q = 1..(Len(p) + 1) /\ DOMAIN p = 1..Len(p) /\ Len(p) \in Nat
      BY <1>3, <2>2
    <3>2. e \in Range(q)
      BY <2>2, <3>1 DEF Range
    <3>3. ASSUME NEW x \in Range(p) PROVE x \in Range(q)
      <4>1. PICK i \in 1..Len(p) : p[i] = x
        BY <3>1 DEF Range
      <4>2. i + 1 \in DOMAIN q /\ q[i + 1] = x
        BY <2>2, <3>1, <4>1
      <4> QED
        BY <4>2 DEF Range
    <3> QED
      BY <3>2, <3>3
  <2>4. \A j \in AskedOf(f, n) :
          Cardinality(AskedOf(f, Len(ring) + 1 - j)) <= Limit(f) => ring[j] \in Range(q)
    BY <1>1, <1>3, <1>7, <2>3 DEF e
  <2>5. Len(q) = IF b < Limit(f) THEN b ELSE Limit(f)
    BY <1>1, <1>3, <1>7, <2>1, <2>2
  <2> QED
    BY <2>2, <2>4, <2>5 DEF Collects, q
<1>8. CASE Matches(e, f) /\ a >= Limit(f)
  <2>1. q = p /\ b = a + 1
    BY <1>1, <1>2, <1>3, <1>8 DEF Take
  <2>2. \A j \in AskedOf(f, n) :
          Cardinality(AskedOf(f, Len(ring) + 1 - j)) <= Limit(f) => ring[j] \in Range(q)
    <3> SUFFICES ASSUME NEW j \in AskedOf(f, n),
                        Cardinality(AskedOf(f, Len(ring) + 1 - j)) <= Limit(f)
                 PROVE  ring[j] \in Range(q)
      OBVIOUS
    <3>1. j # k
      <4>1. Cardinality(AskedOf(f, Len(ring) + 1 - k)) = a + 1
        BY <1>4, <2>1
      <4>2. ~ (a + 1 <= Limit(f))
        BY <1>1, <1>8
      <4> QED
        BY <4>1, <4>2
    <3> QED
      BY <1>1, <1>3, <2>1, <3>1
  <2>3. Len(q) = IF b < Limit(f) THEN b ELSE Limit(f)
    BY <1>1, <1>3, <1>8, <2>1
  <2> QED
    BY <1>3, <2>1, <2>2, <2>3 DEF Collects, q
<1> QED
  BY <1>1, <1>6, <1>7, <1>8

(***************************************************************************)
(* And so Events finds what it was asked for.                              *)
(***************************************************************************)
LEMMA EventsCollects ==
  ASSUME StatsTyped, NEW f, Limit(f) \in Nat \ {0}
  PROVE  Collects(f, Len(ring))
<1> DEFINE N == Len(ring)
           Bad == {n \in 0..N : ~Collects(f, n)}
<1>1. N \in Nat /\ DOMAIN ring = 1..N
  BY DEF StatsTyped
<1>2. SUFFICES ASSUME Bad # {} PROVE FALSE
  BY <1>1
<1>3. PICK n \in Bad : \A m \in Bad : n <= m
  <2>1. Bad \in SUBSET Nat
    OBVIOUS
  <2> HIDE DEF Bad
  <2> QED
    BY <1>2, <2>1, LeastNatural
<1>4. CASE n = 0
  <2>1. AskedOf(f, 0) = {}
    BY <1>1 DEF AskedOf
  <2>2. Walk(f)[0] = <<>>
    BY WalkWalks
  <2>3. Collects(f, 0)
    <3>1. <<>> \in Seq(LogEvent) /\ Len(<<>>) = 0
      OBVIOUS
    <3>2. Cardinality(AskedOf(f, 0)) = 0
      BY <2>1, FS_EmptySet
    <3>3. Len(Walk(f)[0]) = IF 0 < Limit(f) THEN 0 ELSE Limit(f)
      BY <2>2, <3>1
    <3> QED
      BY <2>1, <2>2, <3>1, <3>2, <3>3 DEF Collects
  <2> QED
    BY <1>4, <2>3
<1>5. CASE n # 0
  <2>1. n \in 1..N /\ n - 1 \in 0..N /\ n - 1 \notin Bad
    BY <1>1, <1>3, <1>5
  <2>2. Collects(f, n - 1)
    BY <2>1
  <2>3. Collects(f, n)
    BY <2>1, <2>2, OneMoreCollects
  <2> QED
    BY <2>3
<1> QED
  BY <1>4, <1>5

(***************************************************************************)
(* The events page and the exports find everything they were asked for, or *)
(* as many as the limit allows, the newest, whatever order the times of    *)
(* the ring are in.                                                        *)
(***************************************************************************)
THEOREM EventsAreFound == StatsSpec => []EventsFindAll
<1>1. StatsInv => EventsFindAll
  <2> SUFFICES ASSUME StatsTyped, NEW f \in Filters
               PROVE  LET asked == {i \in DOMAIN ring : Matches(ring[i], f)}
                          found == Events(f)
                      IN /\ Len(found) = (IF Cardinality(asked) < Limit(f)
                                          THEN Cardinality(asked) ELSE Limit(f))
                         /\ \A i \in asked :
                              Cardinality({j \in asked : j >= i}) <= Limit(f) =>
                                ring[i] \in Range(found)
    BY DEF StatsInv, EventsFindAll
  <2> DEFINE asked == {i \in DOMAIN ring : Matches(ring[i], f)}
             N == Len(ring)
  <2>1. Limit(f) \in Nat \ {0}
    <3>1. f.limit \in Int
      BY StatsAssumption DEF Filters
    <3>2. {MaxRows, DefaultLimit, MaxLimit} \subseteq Nat \ {0}
      BY StatsAssumption
    <3> QED
      BY <3>1, <3>2 DEF Limit
  <2>2. Collects(f, N)
    BY <2>1, EventsCollects
  <2>3. N \in Nat /\ DOMAIN ring = 1..N
    BY DEF StatsTyped
  <2>4. AskedOf(f, N) = asked
    BY <2>3 DEF AskedOf
  <2>5. \A i \in asked : AskedOf(f, N + 1 - i) = {j \in asked : j >= i}
    BY <2>3 DEF AskedOf
  <2> HIDE DEF asked
  <2>6. /\ Len(Events(f)) = (IF Cardinality(asked) < Limit(f)
                             THEN Cardinality(asked) ELSE Limit(f))
        /\ \A i \in asked : Cardinality({j \in asked : j >= i}) <= Limit(f) =>
             ring[i] \in Range(Events(f))
    BY <2>2, <2>4, <2>5 DEF Collects, Events
  <2> QED
    BY <2>6 DEF asked
<1> QED
  BY <1>1, StatsInvariance, PTL
===========================================================================
