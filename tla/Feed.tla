-------------------------------- MODULE Feed --------------------------------
(***************************************************************************)
(* The live feed: Store.Log calls that run concurrently on the goroutines  *)
(* of the handlers, the fanout each makes after it released Store.mu, the  *)
(* subscription and the hello of a dashboard connection (handleWS), and    *)
(* the socket to a tab that reads or does not.                             *)
(*                                                                         *)
(* An event is its id.  The ring of one run holds the ids up to nextID, so *)
(* a snapshot of it is determined by nextID and the limit it was asked.    *)
(* A write to a socket blocks when the peer has Room unread messages.      *)
(***************************************************************************)
EXTENDS Integers, SequencesExt

CONSTANTS
  Loggers,     \* goroutines that call Store.Log
  Clients,     \* dashboard connections; a reconnect is another one
  HelloLimit,  \* events in a hello (200 in the code)
  Room,        \* messages a socket takes before a write blocks
  MaxId        \* bound of the model: events logged

ASSUME FeedAssumption ==
  /\ IsFiniteSet(Loggers) /\ IsFiniteSet(Clients)
  /\ HelloLimit \in Nat \ {0}
  /\ Room \in Nat \ {0}
  /\ MaxId \in Nat

VARIABLES
  nextID,   \* Store.nextID
  subs,     \* Store.subs: the clients subscribed
  pc,       \* where each logger is
  cur,      \* the event it logs
  todo,     \* the subscribers it has still to call
  conn,     \* where handleWS is for each client
  hello,    \* the events in the hello it is about to send
  lock,     \* who holds client.sendMu
  sent,     \* messages written to the socket, in order
  got,      \* how many of them the tab has handled
  broken    \* the socket has a write error, which later writes return

feedVars == <<nextID, subs, pc, cur, todo, conn, hello, lock, sent,
              got, broken>>

\* A logger is "idle", then "logged": Store.mu released.  "fanout": the
\* subscribers are collected.  "sending": inside client.send, with its lock.
\*
\* A connection is "off", "subscribed", "ready": the hello is assembled.
\* "greeting": it is being written.  "live": it was sent.  "leaving": handleWS
\* returns, its deferred calls unsubscribe and then close: "unsubscribed",
\* "closed".

Event(n) == [type |-> "event", ids |-> <<n>>]
Hello(s) == [type |-> "hello", ids |-> s]

Free == "free"

FeedInit ==
  /\ nextID = 0
  /\ subs = {}
  /\ pc = [w \in Loggers |-> "idle"]
  /\ cur = [w \in Loggers |-> 0]
  /\ todo = [w \in Loggers |-> {}]
  /\ conn = [c \in Clients |-> "off"]
  /\ hello = [c \in Clients |-> <<>>]
  /\ lock = [c \in Clients |-> Free]
  /\ sent = [c \in Clients |-> <<>>]
  /\ got = [c \in Clients |-> 0]
  /\ broken = [c \in Clients |-> FALSE]

-----------------------------------------------------------------------------
\* client.send, by the holder p of the lock.

Full(c) == Len(sent[c]) - got[c] >= Room

Done(c) == conn[c] = "closed"

NoDeadline(c, msg) ==                  \* mutant: SetWriteDeadline is missing
  /\ broken[c] \/ Done(c) \/ ~Full(c)
  /\ lock' = [lock EXCEPT ![c] = Free]
  /\ sent' = IF broken[c] \/ Done(c) THEN sent
             ELSE [sent EXCEPT ![c] = Append(@, msg)]
  /\ UNCHANGED broken

\* The write ends: it goes through, returns the error of an earlier one, or
\* meets the deadline of five seconds.
Written(c, msg) ==
  /\ lock' = [lock EXCEPT ![c] = Free]
  /\ \/ /\ ~broken[c] /\ ~Full(c) /\ ~Done(c)
        /\ sent' = [sent EXCEPT ![c] = Append(@, msg)]
        /\ UNCHANGED broken
     \/ /\ broken[c] \/ Done(c)
        /\ UNCHANGED <<sent, broken>>
     \/ /\ ~broken[c] /\ Full(c) /\ ~Done(c)
        /\ broken' = [broken EXCEPT ![c] = TRUE]
        /\ UNCHANGED sent

Acquire(c, p) ==
  /\ lock[c] = Free
  /\ lock' = [lock EXCEPT ![c] = p]

-----------------------------------------------------------------------------
\* Store.Log on goroutine w.

Record(w) ==
  /\ pc[w] = "idle"
  /\ nextID < MaxId
  /\ nextID' = nextID + 1
  /\ cur' = [cur EXCEPT ![w] = nextID + 1]
  /\ pc' = [pc EXCEPT ![w] = "logged"]
  /\ UNCHANGED <<subs, todo, conn, hello, lock, sent, got, broken>>

\* fanout copies the subscribers under subMu.
CollectGreeted(w) ==                   \* mutant: only those that are served
  /\ pc[w] = "logged"
  /\ todo' = [todo EXCEPT ![w] = {c \in subs : conn[c] = "live"}]
  /\ pc' = [pc EXCEPT ![w] = "fanout"]
  /\ UNCHANGED <<nextID, subs, cur, conn, hello, lock, sent, got,
                 broken>>

Collect(w) ==
  /\ pc[w] = "logged"
  /\ todo' = [todo EXCEPT ![w] = subs]
  /\ pc' = [pc EXCEPT ![w] = "fanout"]
  /\ UNCHANGED <<nextID, subs, cur, conn, hello, lock, sent, got,
                 broken>>

\* The subscriber of a closed connection returns at once.
Skip(w, c) ==
  /\ pc[w] = "fanout"
  /\ c \in todo[w]
  /\ Done(c)
  /\ todo' = [todo EXCEPT ![w] = @ \ {c}]
  /\ UNCHANGED <<nextID, subs, pc, cur, conn, hello, lock, sent, got,
                 broken>>

BeginSend(w, c) ==
  /\ pc[w] = "fanout"
  /\ c \in todo[w]
  /\ ~Done(c)
  /\ Acquire(c, w)
  /\ pc' = [pc EXCEPT ![w] = "sending"]
  /\ UNCHANGED <<nextID, subs, cur, todo, conn, hello, sent, got,
                 broken>>

EndSend(w, c) ==
  /\ pc[w] = "sending"
  /\ lock[c] = w
  /\ Written(c, Event(cur[w]))
  /\ todo' = [todo EXCEPT ![w] = @ \ {c}]
  /\ pc' = [pc EXCEPT ![w] = "fanout"]
  /\ UNCHANGED <<nextID, subs, cur, conn, hello, got>>

Return(w) ==
  /\ pc[w] = "fanout"
  /\ todo[w] = {}
  /\ pc' = [pc EXCEPT ![w] = "idle"]
  /\ UNCHANGED <<nextID, subs, cur, todo, conn, hello, lock, sent, got,
                 broken>>

-----------------------------------------------------------------------------
\* handleWS of client c.

Subscribe(c) ==
  /\ conn[c] = "off"
  /\ subs' = subs \cup {c}
  /\ conn' = [conn EXCEPT ![c] = "subscribed"]
  /\ UNCHANGED <<nextID, pc, cur, todo, hello, lock, sent, got, broken>>

\* Store.Events with a limit: the newest, oldest first.
Newest(limit) ==
  LET from == IF nextID > limit THEN nextID - limit ELSE 0
  IN [i \in 1..(nextID - from) |-> from + i]

Assemble(c) ==
  /\ conn[c] = "subscribed"
  /\ hello' = [hello EXCEPT ![c] = Newest(HelloLimit)]
  /\ conn' = [conn EXCEPT ![c] = "ready"]
  /\ UNCHANGED <<nextID, subs, pc, cur, todo, lock, sent, got, broken>>

BeginHello(c) ==
  /\ conn[c] = "ready"
  /\ Acquire(c, "ws")
  /\ conn' = [conn EXCEPT ![c] = "greeting"]
  /\ UNCHANGED <<nextID, subs, pc, cur, todo, hello, sent, got, broken>>

EndHello(c) ==
  /\ conn[c] = "greeting"
  /\ Written(c, Hello(hello[c]))
  /\ conn' = [conn EXCEPT ![c] = IF sent' = sent THEN "leaving" ELSE "live"]
  /\ UNCHANGED <<nextID, subs, pc, cur, todo, hello, got>>

\* The ping goroutine, when its write blocks; otherwise nobody notices it.
BeginPing(c) ==
  /\ conn[c] = "live"
  /\ Full(c) /\ ~broken[c]
  /\ Acquire(c, "ping")
  /\ UNCHANGED <<nextID, subs, pc, cur, todo, conn, hello, sent, got,
                 broken>>

EndPing(c) ==
  /\ lock[c] = "ping"
  /\ lock' = [lock EXCEPT ![c] = Free]
  /\ broken' = [broken EXCEPT ![c] = @ \/ Full(c)]
  /\ UNCHANGED <<nextID, subs, pc, cur, todo, conn, hello, sent, got>>

\* ReadMessage fails: the tab is gone, or silent for sixty seconds.
Leave(c) ==
  /\ conn[c] = "live"
  /\ conn' = [conn EXCEPT ![c] = "leaving"]
  /\ UNCHANGED <<nextID, subs, pc, cur, todo, hello, lock, sent, got,
                 broken>>

Unsubscribe(c) ==
  /\ conn[c] = "leaving"
  /\ subs' = subs \ {c}
  /\ conn' = [conn EXCEPT ![c] = "unsubscribed"]
  /\ UNCHANGED <<nextID, pc, cur, todo, hello, lock, sent, got, broken>>

CloseConn(c) ==
  /\ conn[c] = "unsubscribed"
  /\ conn' = [conn EXCEPT ![c] = "closed"]
  /\ UNCHANGED <<nextID, subs, pc, cur, todo, hello, lock, sent, got,
                 broken>>

\* The tab handles the next message; it may stop doing so at any time.
Receive(c) ==
  /\ got[c] < Len(sent[c])
  /\ got' = [got EXCEPT ![c] = @ + 1]
  /\ UNCHANGED <<nextID, subs, pc, cur, todo, conn, hello, lock, sent,
                 broken>>

LoggerStep(w) ==
  \/ Collect(w) \/ Return(w)
  \/ \E c \in Clients : Skip(w, c) \/ BeginSend(w, c) \/ EndSend(w, c)

ServerStep(c) ==
  \/ Subscribe(c) \/ Assemble(c) \/ BeginHello(c) \/ EndHello(c)
  \/ BeginPing(c) \/ EndPing(c)
  \/ Leave(c) \/ Unsubscribe(c) \/ CloseConn(c)

FeedNext ==
  \/ \E w \in Loggers : Record(w) \/ LoggerStep(w)
  \/ \E c \in Clients : ServerStep(c) \/ Receive(c)

FeedSpec == FeedInit /\ [][FeedNext]_feedVars

\* Goroutines are scheduled, and whoever holds a send lock finishes within
\* the write deadline.  Nothing is assumed of the tab.
FairFeed ==
  /\ FeedSpec
  /\ \A w \in Loggers : WF_feedVars(LoggerStep(w))
  /\ \A c \in Clients : WF_feedVars(EndHello(c) \/ EndPing(c))

-----------------------------------------------------------------------------
Finished(n) ==
  n \in 1..nextID /\ \A w \in Loggers : cur[w] = n => pc[w] = "idle"

EventsTo(c) == {i \in DOMAIN sent[c] : sent[c][i].type = "event"}

Streamed(c) == {sent[c][i].ids[1] : i \in EventsTo(c)}

(***************************************************************************)
(* handleWS subscribes before it takes the snapshot for the hello: no      *)
(* event falls between the two.  Once a Log call has returned, a client    *)
(* with an intact socket was sent the event, or the event is in its hello, *)
(* or is older than what a hello holds.                                    *)
(***************************************************************************)
NoGap ==
  \A c \in Clients : conn[c] = "live" /\ ~broken[c] =>
    \A n \in 1..nextID : Finished(n) =>
      \/ n \in Streamed(c)
      \/ hello[c] # <<>> /\ n <= Last(hello[c])

(***************************************************************************)
(* Every call of Log returns, although fanout runs on the goroutine of the *)
(* honeypot handler and a tab may have stopped reading: the write deadline *)
(* and the lock around it cannot block it for good.                        *)
(***************************************************************************)
LogReturns == \A w \in Loggers : pc[w] # "idle" ~> pc[w] = "idle"

=============================================================================
