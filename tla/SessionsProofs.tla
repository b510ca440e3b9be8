--------------------------- MODULE SessionsProofs ---------------------------
(***************************************************************************)
(* Proofs about the session table, for any connections, caps and sizes of  *)
(* the log: the handlers drive the event store as EventLog says, so that   *)
(* its theorems hold for them; the table stays bounded; its counts cover   *)
(* the ring; and rows go in the order that storage.md promises.            *)
(***************************************************************************)
EXTENDS Sessions, EventLogProofs, WellFoundedInduction

-----------------------------------------------------------------------------
\* The event store under the handlers.

(***************************************************************************)
(* What a handler logs is an event of EventLog.                            *)
(***************************************************************************)
LEMMA LogForLogs ==
  ASSUME NEW c \in Conns, NEW type \in Types, LogFor(c, type)
  PROVE  /\ [sid |-> c, type |-> type] \in Body
         /\ Log([sid |-> c, type |-> type])
BY SessionsAssumption DEF LogFor

(***************************************************************************)
(* So is what it was logging when a kill came.                             *)
(***************************************************************************)
LEMMA KilledLoggingLogs ==
  ASSUME KilledLogging
  PROVE  \E b \in Body :
           KilledInLog(b) /\ \E c \in Conns : MayLog(c, b.type) /\ b.sid = c
<1>1. PICK c \in Conns, type \in Types :
        MayLog(c, type) /\ KilledInLog([sid |-> c, type |-> type])
  BY DEF KilledLogging
<1> DEFINE b == [sid |-> c, type |-> type]
<1>2. b \in Body /\ b.sid = c /\ b.type = type
  BY SessionsAssumption
<1> HIDE DEF b
<1> QED
  BY <1>1, <1>2 DEF b

(***************************************************************************)
(* What the handler of a connection does: it leaves the store alone, or    *)
(* logs an event, once it was accepted and while it is not gone.           *)
(***************************************************************************)
Logs(c) ==
  \E type \in Types : LogFor(c, type)

(***************************************************************************)
(* No other step of a handler touches the store.                           *)
(***************************************************************************)
LEMMA ServeSteps ==
  ASSUME NEW c \in Conns, Serve(c)
  PROVE  Logs(c) \/ UNCHANGED vars
<1>1. CASE Accept(c) \/ FinishTcp(c) \/ OpenChannel(c) \/ CloseChannel(c)
           \/ Disconnect(c)
  BY <1>1 DEF Accept, FinishTcp, OpenChannel, CloseChannel, Disconnect
<1>2. CASE LogConnection(c)
  BY <1>2 DEF LogConnection, Types, Logs
<1>3. CASE TcpCommand(c) \/ SshCommand(c)
  BY <1>3 DEF TcpCommand, SshCommand, Types, Logs
<1>4. CASE LogClosed(c)
  BY <1>4 DEF LogClosed, Types, Logs
<1> QED
  BY <1>1, <1>2, <1>3, <1>4 DEF Serve

(***************************************************************************)
(* Every step of the handlers and the table is a step of the event store,  *)
(* or does not touch it.                                                   *)
(***************************************************************************)
LEMMA StepImplements == [SessionsNext]_allVars => [Next]_vars
<1> SUFFICES ASSUME [SessionsNext]_allVars PROVE [Next]_vars
  OBVIOUS
<1>1. ASSUME NEW c \in Conns, Serve(c) PROVE [Next]_vars
  <2>1. CASE Logs(c)
    BY <2>1, LogForLogs DEF Logs, Next
  <2> QED
    BY <1>1, <2>1, ServeSteps
<1>2. CASE Background \/ Restart
  BY <1>2 DEF Background, Restart, Next
<1>3. CASE ProcessEnds
  BY <1>3, KilledLoggingLogs DEF ProcessEnds, Next
<1>4. CASE UNCHANGED allVars
  BY <1>4 DEF allVars
<1> QED
  BY <1>1, <1>2, <1>3, <1>4 DEF SessionsNext

(***************************************************************************)
(* The handlers and the table implement the event store: whatever EventLog *)
(* promises of the ring and the disk holds with them running on top.       *)
(***************************************************************************)
THEOREM SessionsImplementEventLog == SessionsSpec => Spec
<1>1. SessionsInit => Init
  BY DEF SessionsInit
<1> QED
  BY <1>1, StepImplements, PTL DEF SessionsSpec, Spec

-----------------------------------------------------------------------------
\* Cardinalities and extremes.

(***************************************************************************)
(* Of any naturals one is least.                                           *)
(***************************************************************************)
LEMMA LeastIsIn ==
  ASSUME NEW T \in SUBSET Nat, T # {}
  PROVE  Min(T) \in T
<1> DEFINE R == OpToRel(<, Nat)
<1>1. IsWellFoundedOn(R, Nat)
  BY NatLessThanWellFounded, Zenon
<1>2. \A x, y \in Nat : y < x => <<y, x>> \in R
  BY DEF OpToRel
<1> HIDE DEF R
<1>3. PICK x \in T : \A y \in T : ~ (<<y, x>> \in R)
  BY <1>1, WFMin
<1>4. \A y \in T : x <= y
  <2> TAKE y \in T
  <2>1. x \in Nat /\ y \in Nat
    OBVIOUS
  <2>2. ~(y < x)
    BY <2>1, <1>2, <1>3
  <2> QED
    BY <2>1, <2>2
<1> QED
  BY <1>4 DEF Min

(***************************************************************************)
(* The larger and the smaller of two naturals.                             *)
(***************************************************************************)
LEMMA ExtremesOfTwo ==
  ASSUME NEW a \in Nat, NEW b \in Nat
  PROVE  /\ Max({a, b}) \in {a, b} /\ Max({a, b}) >= a /\ Max({a, b}) >= b
         /\ Min({a, b}) \in {a, b} /\ Min({a, b}) <= a /\ Min({a, b}) <= b
<1>1. \E x \in {a, b} : \A y \in {a, b} : x >= y
  OBVIOUS
<1>2. \E x \in {a, b} : \A y \in {a, b} : x <= y
  OBVIOUS
<1>3. /\ Max({a, b}) \in {a, b}
      /\ \A y \in {a, b} : Max({a, b}) >= y
  BY <1>1 DEF Max
<1>4. /\ Min({a, b}) \in {a, b}
      /\ \A y \in {a, b} : Min({a, b}) <= y
  BY <1>2 DEF Min
<1> QED
  BY <1>3, <1>4

(***************************************************************************)
(* Pruning aims below the cap.                                             *)
(***************************************************************************)
LEMMA TargetBounds == Target \in Nat /\ Target >= 1 /\ Target <= MaxSessions
<1> DEFINE part == (MaxSessions * 8) \div 10
<1>1. MaxSessions \in Nat \ {0}
  BY SessionsAssumption
<1>2. part \in Nat /\ part <= MaxSessions
  BY <1>1
<1>3. Target = Max({1, part})
  BY DEF Target
<1> HIDE DEF part
<1> QED
  BY <1>1, <1>2, <1>3, ExtremesOfTwo

-----------------------------------------------------------------------------
\* The table.

(***************************************************************************)
(* Taking the oldest n rows of S away takes n rows away.                   *)
(***************************************************************************)
LEMMA OldestGo ==
  ASSUME NEW t, IsFiniteSet(DOMAIN t), NEW S, S \subseteq DOMAIN t, NEW n,
         NEW D \in OldestOf(t, S, n)
  PROVE  /\ DOMAIN Without(t, D) = DOMAIN t \ D
         /\ \A k \in DOMAIN t \ D : Without(t, D)[k] = t[k]
         /\ IsFiniteSet(DOMAIN t \ D) /\ IsFiniteSet(D)
         /\ Cardinality(DOMAIN t \ D) = Cardinality(DOMAIN t) - n
         /\ D \subseteq S /\ Cardinality(D) = n
         /\ \A d \in D, k \in S \ D : t[d].opened <= t[k].opened
<1>1. D \subseteq S /\ Cardinality(D) = n
      /\ \A d \in D, k \in S \ D : t[d].opened <= t[k].opened
  BY DEF OldestOf
<1>2. DOMAIN t \cap D = D
  BY <1>1
<1>3. IsFiniteSet(D)
  BY <1>1, FS_Subset
<1>4. /\ IsFiniteSet(DOMAIN t \ D)
      /\ Cardinality(DOMAIN t \ D) = Cardinality(DOMAIN t) - n
  BY <1>1, <1>2, FS_Difference
<1>5. /\ DOMAIN Without(t, D) = DOMAIN t \ D
      /\ \A k \in DOMAIN t \ D : Without(t, D)[k] = t[k]
  BY DEF Without, Restrict
<1> QED
  BY <1>1, <1>3, <1>4, <1>5

(***************************************************************************)
(* The order storage.md promises, between a table and what pruning left.   *)
(***************************************************************************)
EvictedInOrder(t, u) ==
  \A gone \in DOMAIN t \ DOMAIN u, kept \in DOMAIN t \cap DOMAIN u :
    /\ t[kept].active = t[gone].active => t[gone].opened <= t[kept].opened
    /\ t[gone].active => t[kept].active

(***************************************************************************)
(* Pruning a table over the cap takes it below, in that order: the first   *)
(* pass takes closed rows only, and the second runs when none is left.     *)
(***************************************************************************)
LEMMA PrunedFits ==
  ASSUME NEW t, IsFiniteSet(DOMAIN t), Cardinality(DOMAIN t) > MaxSessions,
         NEW u \in Pruned(t)
  PROVE  /\ DOMAIN u \subseteq DOMAIN t
         /\ \A k \in DOMAIN u : u[k] = t[k]
         /\ Cardinality(DOMAIN u) <= MaxSessions
         /\ EvictedInOrder(t, u)
<1> DEFINE C == Closed(t)
           n == Min({Excess(t), Cardinality(C)})
           rows == Cardinality(DOMAIN t)
<1>1. /\ MaxSessions \in Nat /\ Target \in Nat /\ Target <= MaxSessions
      /\ rows \in Nat
  BY SessionsAssumption, TargetBounds, FS_CardinalityType
<1>2. C \subseteq DOMAIN t /\ \A k \in DOMAIN t : k \in C <=> ~t[k].active
  BY DEF Closed
<1>3. IsFiniteSet(C) /\ Cardinality(C) \in Nat
  BY <1>2, FS_Subset, FS_CardinalityType
<1>4. Excess(t) = rows - Target /\ Excess(t) \in Nat /\ Excess(t) > 0
  BY <1>1 DEF Excess
<1>5. /\ n \in {Excess(t), Cardinality(C)} /\ n \in Nat
      /\ n <= Excess(t) /\ n <= Cardinality(C)
  BY <1>3, <1>4, ExtremesOfTwo
<1>6. \E D \in OldestOf(t, C, n) :
        LET w == Without(t, D)
        IN \/ u = w /\ ~(Cardinality(DOMAIN w) > MaxSessions)
           \/ /\ Cardinality(DOMAIN w) > MaxSessions
              /\ \E B \in OldestOf(w, DOMAIN w, Excess(w)) : u = Without(w, B)
  BY Zenon DEF Pruned
<1>7. PICK D \in OldestOf(t, C, n) :
        \/ u = Without(t, D) /\ ~(Cardinality(DOMAIN Without(t, D)) > MaxSessions)
        \/ /\ Cardinality(DOMAIN Without(t, D)) > MaxSessions
           /\ \E B \in OldestOf(Without(t, D), DOMAIN Without(t, D), Excess(Without(t, D))) :
                u = Without(Without(t, D), B)
  BY <1>6, Zenon
<1> DEFINE w == Without(t, D)
<1> HIDE DEF n, C, rows
<1>8. /\ DOMAIN w = DOMAIN t \ D
      /\ \A k \in DOMAIN t \ D : w[k] = t[k]
      /\ IsFiniteSet(DOMAIN t \ D) /\ IsFiniteSet(D)
      /\ Cardinality(DOMAIN t \ D) = rows - n
      /\ D \subseteq C /\ Cardinality(D) = n
      /\ \A d \in D, k \in C \ D : t[d].opened <= t[k].opened
  BY <1>2, <1>7, OldestGo, Zenon DEF rows
<1> HIDE DEF w
<1>9. CASE u = w /\ ~(Cardinality(DOMAIN w) > MaxSessions)
  <2>1. EvictedInOrder(t, u)
    <3> SUFFICES ASSUME NEW gone \in DOMAIN t \ DOMAIN u, NEW kept \in DOMAIN t \cap DOMAIN u
                 PROVE  /\ t[kept].active = t[gone].active
                             => t[gone].opened <= t[kept].opened
                        /\ t[gone].active => t[kept].active
      BY DEF EvictedInOrder
    <3>1. gone \in D /\ kept \in DOMAIN t \ D /\ ~t[gone].active
      BY <1>2, <1>8, <1>9
    <3>2. t[kept].active = t[gone].active => kept \in C \ D
      BY <1>2, <3>1
    <3> QED
      BY <1>8, <3>1, <3>2
  <2>2. Cardinality(DOMAIN u) <= MaxSessions
    BY <1>1, <1>5, <1>8, <1>9
  <2> QED
    BY <1>8, <1>9, <2>1, <2>2
<1>10. CASE /\ Cardinality(DOMAIN w) > MaxSessions
           /\ \E B \in OldestOf(w, DOMAIN w, Excess(w)) : u = Without(w, B)
  <2>1. PICK B \in OldestOf(w, DOMAIN w, Excess(w)) : u = Without(w, B)
    BY <1>10
  <2>2. IsFiniteSet(DOMAIN w) /\ Cardinality(DOMAIN w) = rows - n
    BY <1>8
  <2>3. /\ DOMAIN Without(w, B) = DOMAIN w \ B
        /\ \A k \in DOMAIN w \ B : Without(w, B)[k] = w[k]
        /\ Cardinality(DOMAIN w \ B) = Cardinality(DOMAIN w) - Excess(w)
        /\ B \subseteq DOMAIN w
        /\ \A d \in B, k \in DOMAIN w \ B : w[d].opened <= w[k].opened
    <3> DEFINE all == DOMAIN w
               more == Excess(w)
    <3>1. B \in OldestOf(w, all, more) /\ all \subseteq DOMAIN w
      BY <2>1
    <3> HIDE DEF all, more
    <3>2. /\ DOMAIN Without(w, B) = DOMAIN w \ B
          /\ \A k \in DOMAIN w \ B : Without(w, B)[k] = w[k]
          /\ Cardinality(DOMAIN w \ B) = Cardinality(DOMAIN w) - more
          /\ B \subseteq all
          /\ \A d \in B, k \in all \ B : w[d].opened <= w[k].opened
      BY <2>2, <3>1, OldestGo, Zenon
    <3> QED
      BY <3>2 DEF all, more
  <2>4. /\ DOMAIN u = DOMAIN w \ B
        /\ \A k \in DOMAIN w \ B : u[k] = w[k]
    BY <2>1, <2>3
  <2>5. D = C
    <3>1. n = Cardinality(C)
      BY <1>1, <1>4, <1>5, <1>10, <2>2
    <3> QED
      BY <1>3, <1>8, <3>1, FS_Subset
  <2>6. Cardinality(DOMAIN u) <= MaxSessions
    <3>1. Excess(w) = Cardinality(DOMAIN w) - Target
      BY DEF Excess
    <3> QED
      BY <1>1, <1>5, <2>2, <2>3, <2>4, <3>1
  <2>7. EvictedInOrder(t, u)
    <3> SUFFICES ASSUME NEW gone \in DOMAIN t \ DOMAIN u, NEW kept \in DOMAIN t \cap DOMAIN u
                 PROVE  /\ t[kept].active = t[gone].active
                             => t[gone].opened <= t[kept].opened
                        /\ t[gone].active => t[kept].active
      BY DEF EvictedInOrder
    <3>1. kept \in DOMAIN t \ C /\ t[kept].active /\ kept \in DOMAIN w \ B
      BY <1>2, <1>8, <2>4, <2>5
    <3>2. CASE gone \in C
      BY <1>2, <3>1, <3>2
    <3>3. CASE gone \notin C
      <4>1. gone \in B /\ gone \in DOMAIN w
        BY <1>8, <2>4, <2>5, <3>3
      <4>2. w[gone].opened <= w[kept].opened
        BY <2>3, <3>1, <4>1
      <4> QED
        BY <1>8, <3>1, <4>1, <4>2
    <3> QED
      BY <3>2, <3>3
  <2> QED
    BY <1>8, <2>4, <2>6, <2>7
<1> QED
  BY <1>7, <1>9, <1>10, Zenon DEF w

-----------------------------------------------------------------------------
\* The commands of a session in a ring.

Commands(r, s) == {i \in OfSession(r, s) : r[i].body.type = "command"}

(***************************************************************************)
(* They are finitely many, and commands for the recount at a restart.      *)
(***************************************************************************)
LEMMA CommandsCount ==
  ASSUME NEW r \in Seq(Event), NEW s
  PROVE  /\ IsFiniteSet(Commands(r, s)) /\ Cardinality(Commands(r, s)) \in Nat
         /\ Cardinality(CommandsOf(r, s)) \in Nat
         /\ Cardinality(Commands(r, s)) <= Cardinality(CommandsOf(r, s))
<1>1. DOMAIN r = 1..Len(r) /\ Len(r) \in Nat
  OBVIOUS
<1>2. IsFiniteSet(DOMAIN r)
  BY <1>1, FS_Interval
<1>3. CommandsOf(r, s) \in SUBSET DOMAIN r /\ Commands(r, s) \in SUBSET CommandsOf(r, s)
  BY DEF CommandsOf, Commands, OfSession
<1> QED
  BY <1>2, <1>3, FS_Subset, FS_CardinalityType

(***************************************************************************)
(* Pushing an event adds a command to a session only if it is one of it.   *)
(***************************************************************************)
LEMMA PushCounts ==
  ASSUME NEW r \in Seq(Event), NEW e \in Event, NEW s
  PROVE  /\ Cardinality(Commands(Push(r, e), s)) <= Cardinality(Commands(r, s)) + 1
         /\ ~(e.body.sid = s /\ e.body.type = "command") =>
              Cardinality(Commands(Push(r, e), s)) <= Cardinality(Commands(r, s))
<1> DEFINE q == Push(r, e)
           last == Len(q)
           off == IF Len(r) < MaxRows THEN 0 ELSE 1
           C == Commands(q, s)
           A == C \ {last}
           B == Commands(r, s)
           h == [i \in A |-> i + off]
<1>1. /\ q \in Seq(Event) /\ last \in Nat /\ q[last] = e
      /\ DOMAIN q = 1..last /\ DOMAIN r = 1..Len(r) /\ off \in {0, 1}
      /\ \A i \in 1..last : i # last => i + off \in 1..Len(r) /\ q[i] = r[i + off]
  <2>1. Len(r) \in Nat /\ MaxRows \in Nat \ {0} /\ DOMAIN r = 1..Len(r)
    BY EventLogAssumption
  <2>2. CASE Len(r) < MaxRows
    <3>1. q = Append(r, e) /\ off = 0
      BY <2>2 DEF Push
    <3> QED
      BY <2>1, <3>1
  <2>3. CASE ~(Len(r) < MaxRows)
    <3>1. q = Append(Tail(r), e) /\ off = 1
      BY <2>3 DEF Push
    <3>2. r # <<>>
      BY <2>1, <2>3
    <3>3. /\ Tail(r) \in Seq(Event) /\ Len(Tail(r)) = Len(r) - 1
          /\ \A i \in 1..Len(Tail(r)) : Tail(r)[i] = r[i + 1]
      BY <3>2, HeadTailProperties
    <3> DEFINE b == Tail(r)
    <3> HIDE DEF b
    <3>4. /\ Append(b, e) \in Seq(Event) /\ Len(Append(b, e)) = Len(b) + 1
          /\ Append(b, e)[Len(b) + 1] = e
          /\ \A i \in 1..Len(b) : Append(b, e)[i] = b[i]
          /\ DOMAIN Append(b, e) = 1..Len(b) + 1
      BY <3>3 DEF b
    <3>5. q = Append(b, e) /\ last = Len(r) /\ Len(b) = Len(r) - 1
      BY <2>1, <3>1, <3>3, <3>4 DEF b
    <3>6. \A i \in 1..Len(b) : b[i] = r[i + 1]
      BY <3>3 DEF b
    <3>7. off = 1
      BY <3>1
    <3> HIDE DEF q, last, off
    <3>8. \A i \in 1..last : i # last => i \in 1..Len(b) /\ i + 1 \in 1..Len(r)
      <4> DEFINE n == Len(r)
                 m == Len(b)
      <4>1. last = n /\ m = n - 1 /\ n \in Nat
        BY <2>1, <3>5
      <4> HIDE DEF n, m
      <4>2. \A i \in 1..last : i # last => i \in 1..m /\ i + 1 \in 1..n
        BY <4>1
      <4> QED
        BY <4>2 DEF n, m
    <3>9. \A i \in 1..last : i # last => q[i] = r[i + 1]
      BY <3>4, <3>5, <3>6, <3>8
    <3>10. /\ q \in Seq(Event) /\ last \in Nat /\ q[last] = e
           /\ DOMAIN q = 1..last
      <4>1. last = Len(b) + 1
        BY <2>1, <3>5
      <4> QED
        BY <2>1, <3>4, <3>5, <4>1
    <3> QED
      BY <2>1, <3>7, <3>8, <3>9, <3>10
  <2> QED
    BY <2>2, <2>3
<1> HIDE DEF q, last, off
<1>2. /\ IsFiniteSet(B) /\ IsFiniteSet(C)
      /\ Cardinality(B) \in Nat /\ Cardinality(C) \in Nat
  BY <1>1, CommandsCount
<1>3. C \subseteq 1..last /\ A \subseteq 1..last
  BY <1>1 DEF Commands, OfSession
<1>4. h \in [A -> B]
  BY <1>1, <1>3 DEF Commands, OfSession
<1>5. \A x, y \in A : h[x] = h[y] => x = y
  BY <1>1, <1>3
<1>6. last \in C => e.body.sid = s /\ e.body.type = "command"
  BY <1>1 DEF Commands, OfSession
<1> HIDE DEF C, B
<1>7. /\ IsFiniteSet(A)
      /\ Cardinality(A) = IF last \in C THEN Cardinality(C) - 1 ELSE Cardinality(C)
  BY <1>2, FS_RemoveElement
<1> HIDE DEF A, h
<1>8. Cardinality(A) <= Cardinality(B)
  BY <1>2, <1>4, <1>5, <1>7, InjectionBounds
<1>9. Cardinality(C) <= Cardinality(B) + 1
  BY <1>2, <1>7, <1>8
<1>10. ~(e.body.sid = s /\ e.body.type = "command") => Cardinality(C) <= Cardinality(B)
  BY <1>2, <1>6, <1>7, <1>8
<1> QED
  BY <1>9, <1>10 DEF C, B, q

-----------------------------------------------------------------------------
\* The invariant.

(***************************************************************************)
(* Rows and handlers; and an SSH channel is only open while its connection *)
(* is served.                                                              *)
(***************************************************************************)
Row == [active : BOOLEAN, opened : Nat, cmds : Nat]

RowsTyped == Rows \subseteq Conns /\ \A s \in Rows : sessions[s] \in Row

HandlerStates == {"idle", "opened", "serving", "closing", "gone"}

HandlersTyped ==
  /\ handler \in [Conns -> HandlerStates]
  /\ channels \in [Ssh -> Nat]
  /\ \A c \in Ssh : channels[c] > 0 => handler[c] = "serving"

(***************************************************************************)
(* No connection outlives the process.                                     *)
(***************************************************************************)
NobodyLeft == proc = "down" => \A c \in Conns : ~Live(c)

(***************************************************************************)
(* A connection that was not accepted yet has no row, and neither the ring *)
(* nor what a restart would read has an event of it: its row starts with   *)
(* no command to count.                                                    *)
(***************************************************************************)
Newcomers ==
  \A c \in Conns : handler[c] = "idle" =>
    /\ c \notin Rows
    /\ \A e \in Said(file, buf) \cup ToSet(ring) : e.body.sid # c

SessInv ==
  /\ RowsTyped /\ HandlersTyped /\ NobodyLeft /\ Newcomers
  /\ TableBounded /\ CountsCoverRing

(***************************************************************************)
(* The rows are finitely many.                                             *)
(***************************************************************************)
LEMMA RowsAreFinite ==
  RowsTyped => IsFiniteSet(Rows) /\ Cardinality(Rows) \in Nat
BY SessionsAssumption, FS_Subset, FS_CardinalityType DEF RowsTyped

(***************************************************************************)
(* A restart builds at most one row for each event it replays, and counts  *)
(* all commands.                                                           *)
(***************************************************************************)
LEMMA RebuiltRows ==
  ASSUME NEW r \in Seq(Event), Len(r) <= MaxRows
  PROVE  /\ DOMAIN Rebuilt(r) \subseteq Conns
         /\ Cardinality(DOMAIN Rebuilt(r)) <= MaxRows
         /\ \A s \in DOMAIN Rebuilt(r) :
              /\ Rebuilt(r)[s] \in Row
              /\ Rebuilt(r)[s].cmds >= Cardinality(Commands(r, s))
              /\ \E e \in ToSet(r) : e.body.sid = s
<1> DEFINE S == {r[i].body.sid : i \in DOMAIN r}
<1>1. /\ DOMAIN r = 1..Len(r) /\ Len(r) \in Nat /\ MaxRows \in Nat
      /\ \A i \in 1..Len(r) : r[i] \in Event
  BY EventLogAssumption
<1>2. \A i \in 1..Len(r) : r[i].id \in Nat /\ r[i].body.sid \in Conns
  BY <1>1, SessionsAssumption DEF Event
<1>3. S \subseteq Conns
  BY <1>1, <1>2
<1>4. DOMAIN Rebuilt(r) = S
  BY DEF Rebuilt
<1>5. Cardinality(S) <= Len(r)
  <2> DEFINE h == [s \in S |-> CHOOSE i \in DOMAIN r : r[i].body.sid = s]
  <2>1. \A s \in S : h[s] \in DOMAIN r /\ r[h[s]].body.sid = s
    OBVIOUS
  <2>2. h \in [S -> DOMAIN r]
    BY <2>1
  <2>3. \A x, y \in S : h[x] = h[y] => x = y
    BY <2>1
  <2>4. IsFiniteSet(S)
    BY <1>3, SessionsAssumption, FS_Subset
  <2> HIDE DEF h, S
  <2>5. IsFiniteSet(DOMAIN r) /\ Cardinality(DOMAIN r) = Len(r)
    BY <1>1, IntervalCount
  <2> QED
    BY <2>2, <2>3, <2>4, <2>5, InjectionBounds
<1>6. Cardinality(S) <= MaxRows
  <2>1. Cardinality(S) \in Nat
    BY <1>3, SessionsAssumption, FS_Subset, FS_CardinalityType
  <2> QED
    BY <1>1, <1>5, <2>1
<1>7. ASSUME NEW s \in S
      PROVE  /\ Rebuilt(r)[s] \in Row
             /\ Rebuilt(r)[s].cmds >= Cardinality(Commands(r, s))
             /\ \E e \in ToSet(r) : e.body.sid = s
  <2>1. Rebuilt(r)[s] = [active |-> FALSE, opened |-> r[Min(OfSession(r, s))].id,
                         cmds |-> Cardinality(CommandsOf(r, s))]
    BY DEF Rebuilt
  <2>2. OfSession(r, s) # {} /\ OfSession(r, s) \in SUBSET Nat
    BY <1>1 DEF OfSession
  <2>3. Min(OfSession(r, s)) \in DOMAIN r
    BY <2>2, LeastIsIn DEF OfSession
  <2>4. /\ Cardinality(CommandsOf(r, s)) \in Nat
        /\ Cardinality(Commands(r, s)) \in Nat
        /\ Cardinality(Commands(r, s)) <= Cardinality(CommandsOf(r, s))
    BY CommandsCount
  <2>5. \E e \in ToSet(r) : e.body.sid = s
    BY DEF ToSet
  <2> QED
    BY <1>1, <1>2, <2>1, <2>3, <2>4, <2>5 DEF Row
<1> QED
  BY <1>3, <1>4, <1>6, <1>7

(***************************************************************************)
(* Whatever Log does to the disk, it says the new event or nothing new.    *)
(***************************************************************************)
LEMMA LogSays ==
  ASSUME TypeOK, TypeOK', GoneIsEmpty, NEW e \in Event, WriteLine(e)
  PROVE  Said(file', buf') \subseteq Said(file, buf) \cup {e}
<1>1. /\ file \in Seq(Line) /\ buf \in Seq(Event)
      /\ file' \in Seq(Line) /\ buf' \in Seq(Event)
      /\ <<>> \in Seq(Event) /\ <<>> \in Seq(Line)
      /\ Append(buf, e) \in Seq(Event) /\ Append(<<>>, e) = <<e>>
  BY DEF TypeOK
<1>2. Said(file, Append(buf, e)) = Said(file, buf) \cup {e}
  BY <1>1, SaidAppend
<1>3. CASE Written(e)
  BY <1>2, <1>3 DEF Written
<1>4. CASE Overflowed(e)
  <2>1. Said(file', <<>>) \subseteq Said(file, buf)
    BY <1>1, <1>4, SqueezeKeeps DEF Overflowed
  <2>2. Said(file', Append(<<>>, e)) = Said(file', <<>>) \cup {e}
    <3> DEFINE none == <<>>
    <3>1. file' \in Seq(Line) /\ none \in Seq(Event)
      BY <1>1
    <3> HIDE DEF none
    <3>2. Said(file', Append(none, e)) = Said(file', none) \cup {e}
      BY <3>1, SaidAppend
    <3> QED
      BY <3>2 DEF none
  <2>3. buf' = Append(<<>>, e)
    BY <1>1, <1>4 DEF Overflowed
  <2> QED
    BY <2>1, <2>2, <2>3
<1>5. CASE RotatedAway(e)
  <2>1. PICK f \in Seq(Line) : /\ Squeezed(file, Append(buf, e), f)
                               /\ MovesAside(f) \/ StaysBehind(f)
    BY <1>5 DEF RotatedAway
  <2>2. Said(f, <<>>) \subseteq Said(file, Append(buf, e))
    BY <1>1, <2>1, SqueezeKeeps
  <2>3. file' = f \/ file' = <<>>
    BY <2>1 DEF MovesAside, StaysBehind
  <2>4. buf' = <<>> /\ Said(<<>>, <<>>) = {}
    BY <1>5, NothingSaid DEF RotatedAway
  <2> QED
    BY <1>2, <2>2, <2>3, <2>4
<1>6. CASE LineLost
  BY <1>6 DEF LineLost
<1> QED
  BY <1>3, <1>4, <1>5, <1>6, WriteLineMoves

(***************************************************************************)
(* A ring that an event is pushed on holds that event and old ones.        *)
(***************************************************************************)
LEMMA PushAdds ==
  ASSUME NEW r \in Seq(Event), NEW e \in Event
  PROVE  ToSet(Push(r, e)) \subseteq ToSet(r) \cup {e}
<1>1. Len(r) \in Nat /\ MaxRows \in Nat \ {0} /\ DOMAIN r = 1..Len(r)
  BY EventLogAssumption
<1>2. ASSUME NEW b \in Seq(Event)
      PROVE  ToSet(Append(b, e)) \subseteq ToSet(b) \cup {e}
  <2>1. /\ DOMAIN Append(b, e) = 1..Len(b) + 1 /\ DOMAIN b = 1..Len(b)
        /\ \A i \in 1..Len(b) : Append(b, e)[i] = b[i]
        /\ Append(b, e)[Len(b) + 1] = e /\ Len(b) \in Nat
    OBVIOUS
  <2> QED
    BY <2>1 DEF ToSet
<1>3. CASE Len(r) < MaxRows
  BY <1>2, <1>3 DEF Push
<1>4. CASE ~(Len(r) < MaxRows)
  <2>1. r # <<>>
    BY <1>1, <1>4
  <2>2. /\ Tail(r) \in Seq(Event) /\ Len(Tail(r)) = Len(r) - 1
        /\ \A i \in 1..Len(Tail(r)) : Tail(r)[i] = r[i + 1]
    BY <2>1, HeadTailProperties
  <2>3. ToSet(Tail(r)) \subseteq ToSet(r)
    BY <1>1, <2>2 DEF ToSet
  <2> QED
    BY <1>2, <1>4, <2>2, <2>3 DEF Push
<1> QED
  BY <1>3, <1>4

-----------------------------------------------------------------------------
\* The invariant, one kind of step after the other.

(***************************************************************************)
(* Nothing has happened at first.                                          *)
(***************************************************************************)
LEMMA InitSessInv == SessionsInit => SessInv
<1> SUFFICES ASSUME SessionsInit PROVE SessInv
  OBVIOUS
<1>1. Rows = {}
  BY DEF SessionsInit, Rows
<1>2. Cardinality(Rows) = 0
  BY <1>1, FS_EmptySet
<1>3. TableBounded
  BY <1>2, RowsAreFinite, SessionsAssumption DEF TableBounded
<1>4. Said(file, buf) = {} /\ ToSet(ring) = {}
  BY NothingSaid DEF SessionsInit, Init, ToSet
<1> QED
  BY <1>1, <1>3, <1>4
     DEF SessionsInit, Init, SessInv, RowsTyped, HandlersTyped, HandlerStates,
         NobodyLeft, Newcomers, CountsCoverRing

(***************************************************************************)
(* A step that logs nothing and drops no row: no row forgets a command.    *)
(***************************************************************************)
Forgetless ==
  /\ DOMAIN sessions' = Rows
  /\ \A s \in Rows : sessions'[s] \in Row /\ sessions'[s].cmds >= sessions[s].cmds

\* The connections whose handler has started.
Accepted == {c \in Conns : handler[c] # "idle"}

(***************************************************************************)
(* A step that accepts no connection: none is forgotten, none comes to     *)
(* life, and none survives the process.                                    *)
(***************************************************************************)
Onward ==
  /\ HandlersTyped' /\ NobodyLeft'
  /\ Accepted \subseteq Accepted'
  /\ \A c \in Conns : ~Live(c) => ~Live(c)'

(***************************************************************************)
(* Such a step keeps the invariant, if it puts no new event on disk.       *)
(***************************************************************************)
LEMMA QuietKeeps ==
  ASSUME SessInv, TypeOK, Forgetless, ring' = ring, proc' # "down" => proc # "down",
         Said(file', buf') \subseteq Said(file, buf), Onward
  PROVE  SessInv'
<1>1. Rows' = Rows
  BY DEF Forgetless, Rows
<1>2. RowsTyped' /\ TableBounded'
  BY <1>1 DEF SessInv, RowsTyped, TableBounded, Forgetless, Onward
<1>3. Newcomers'
  BY <1>1 DEF SessInv, Newcomers, Accepted, Onward
<1>4. CountsCoverRing'
  <2> SUFFICES ASSUME proc # "down", NEW s \in Rows
               PROVE  sessions'[s].cmds >= Cardinality(CommandEvents(s)')
    BY <1>1 DEF CountsCoverRing
  <2>1. CommandEvents(s)' = CommandEvents(s) /\ CommandEvents(s) = Commands(ring, s)
    BY DEF CommandEvents, Commands, OfSession
  <2>2. Cardinality(CommandEvents(s)) \in Nat
    BY <2>1, CommandsCount DEF TypeOK
  <2>3. sessions[s].cmds \in Nat /\ sessions'[s].cmds \in Nat
    BY DEF SessInv, RowsTyped, Row, Forgetless
  <2>4. sessions[s].cmds >= Cardinality(CommandEvents(s))
    BY DEF SessInv, CountsCoverRing
  <2>5. sessions'[s].cmds >= sessions[s].cmds
    BY DEF Forgetless
  <2> QED
    BY <2>1, <2>2, <2>3, <2>4, <2>5
<1> QED
  BY <1>2, <1>3, <1>4 DEF SessInv, Onward

(***************************************************************************)
(* Closing a row, or leaving the table alone.                              *)
(***************************************************************************)
LEMMA CloseForgetless ==
  ASSUME RowsTyped, NEW c, CloseSession(c) \/ UNCHANGED sessions
  PROVE  Forgetless
<1>1. \A s \in Rows : sessions[s] \in Row /\ sessions[s].cmds \in Nat
  BY DEF RowsTyped, Row
<1>2. CASE c \in Rows /\ sessions' = [sessions EXCEPT ![c].active = FALSE]
  <2>1. /\ DOMAIN sessions' = Rows
        /\ sessions'[c] = [sessions[c] EXCEPT !.active = FALSE]
        /\ \A s \in Rows : s # c => sessions'[s] = sessions[s]
    BY <1>2 DEF Rows
  <2>2. sessions'[c] \in Row /\ sessions'[c].cmds = sessions[c].cmds
    BY <1>1, <1>2, <2>1 DEF Row
  <2>3. \A s \in Rows : sessions'[s] \in Row /\ sessions'[s].cmds >= sessions[s].cmds
    <3> TAKE s \in Rows
    <3>1. sessions'[s] \in Row /\ sessions'[s].cmds = sessions[s].cmds
      BY <1>1, <2>1, <2>2
    <3> QED
      BY <1>1, <3>1
  <2> QED
    BY <2>1, <2>3 DEF Forgetless
<1>3. CASE sessions' = sessions
  BY <1>1, <1>3 DEF Forgetless, Rows
<1> QED
  BY <1>2, <1>3 DEF CloseSession

(***************************************************************************)
(* Accepting a connection: its row has no command to count yet, and the    *)
(* table is pruned if it is over the cap.                                  *)
(***************************************************************************)
LEMMA AcceptKeeps ==
  ASSUME SessInv, TypeOK, NEW c \in Conns, Accept(c)
  PROVE  /\ SessInv'
         /\ EvictedInOrder(sessions, sessions')
<1> DEFINE row == [active |-> TRUE, opened |-> nextID, cmds |-> 0]
           t == [s \in Rows \cup {c} |-> IF s = c THEN row ELSE sessions[s]]
<1>1. /\ proc # "down" /\ handler[c] = "idle" /\ c \notin Rows
      /\ UNCHANGED <<vars, channels>>
      /\ handler' = [handler EXCEPT ![c] = "opened"]
  BY DEF Accept, Goto, SessInv, Newcomers
<1>2. /\ proc' = proc /\ ring' = ring /\ file' = file /\ buf' = buf
      /\ ring \in Seq(Event)
  BY <1>1 DEF vars, TypeOK
<1>3. /\ DOMAIN t = Rows \cup {c} /\ t[c] = row
      /\ \A s \in Rows : t[s] = sessions[s]
  BY <1>1
<1>4. IF Cardinality(DOMAIN t) > MaxSessions THEN sessions' \in Pruned(t)
                                             ELSE sessions' = t
  BY DEF Accept, OpenSession
<1>5. row \in Row /\ row.cmds = 0
  BY DEF Row, TypeOK
<1> HIDE DEF t, row
<1>6. IsFiniteSet(DOMAIN t) /\ Cardinality(DOMAIN t) \in Nat
  BY <1>3, RowsAreFinite, FS_AddElement, FS_CardinalityType DEF SessInv
<1>7. /\ DOMAIN sessions' \subseteq DOMAIN t
      /\ \A k \in DOMAIN sessions' : sessions'[k] = t[k]
      /\ Cardinality(DOMAIN sessions') <= MaxSessions
      /\ EvictedInOrder(t, sessions')
  <2>1. CASE Cardinality(DOMAIN t) > MaxSessions
    BY <1>4, <1>6, <2>1, PrunedFits
  <2>2. CASE ~(Cardinality(DOMAIN t) > MaxSessions)
    BY <1>4, <1>6, <2>2, SessionsAssumption DEF EvictedInOrder
  <2> QED
    BY <2>1, <2>2
<1>8. Rows' = DOMAIN sessions'
  BY DEF Rows
<1>9. RowsTyped'
  BY <1>3, <1>5, <1>7, <1>8 DEF SessInv, RowsTyped
<1>10. HandlersTyped' /\ NobodyLeft'
  BY <1>1, <1>2 DEF SessInv, HandlersTyped, HandlerStates, NobodyLeft
<1>11. Newcomers'
  <2> SUFFICES ASSUME NEW d \in Conns, handler'[d] = "idle"
               PROVE  /\ d \notin Rows'
                      /\ \A e \in Said(file, buf) \cup ToSet(ring) : e.body.sid # d
    BY <1>2 DEF Newcomers
  <2>1. d # c /\ handler[d] = "idle"
    BY <1>1 DEF SessInv, HandlersTyped
  <2> QED
    BY <1>3, <1>7, <1>8, <2>1 DEF SessInv, Newcomers
<1>12. TableBounded'
  <2>1. Cardinality(DOMAIN sessions') \in Nat
    BY <1>8, <1>9, SessionsAssumption, FS_Subset, FS_CardinalityType DEF RowsTyped
  <2> QED
    BY <1>7, <1>8, <2>1, RowsAreFinite, SessionsAssumption DEF TableBounded
<1>13. CountsCoverRing'
  <2> SUFFICES ASSUME NEW s \in Rows'
               PROVE  sessions'[s].cmds >= Cardinality(CommandEvents(s)')
    BY DEF CountsCoverRing
  <2>1. CommandEvents(s)' = CommandEvents(s)
    BY <1>2 DEF CommandEvents, OfSession
  <2>2. CASE s = c
    <3>1. \A i \in DOMAIN ring : ring[i].body.sid # c
      BY <1>1 DEF SessInv, Newcomers, ToSet
    <3>2. CommandEvents(s) = {}
      BY <2>2, <3>1 DEF CommandEvents, OfSession
    <3> QED
      BY <1>3, <1>5, <1>7, <1>8, <2>1, <2>2, <3>2, FS_EmptySet
  <2>3. CASE s # c
    <3>1. s \in Rows /\ sessions'[s] = sessions[s]
      BY <1>3, <1>7, <1>8, <2>3
    <3> QED
      BY <1>1, <2>1, <3>1 DEF SessInv, CountsCoverRing
  <2> QED
    BY <2>2, <2>3
<1>14. EvictedInOrder(sessions, sessions')
  <2> SUFFICES ASSUME NEW gone \in Rows \ Rows', NEW kept \in Rows \cap Rows'
               PROVE  /\ sessions[kept].active = sessions[gone].active
                           => sessions[gone].opened <= sessions[kept].opened
                      /\ sessions[gone].active => sessions[kept].active
    BY <1>8 DEF EvictedInOrder, Rows
  <2> QED
    BY <1>3, <1>7, <1>8 DEF EvictedInOrder
<1> QED
  BY <1>9, <1>10, <1>11, <1>12, <1>13, <1>14 DEF SessInv

(***************************************************************************)
(* Logging an event of an accepted connection: the ring gains a command    *)
(* only if the row counts it too.                                          *)
(***************************************************************************)
LEMMA LogForKeeps ==
  ASSUME SessInv, TypeOK, TypeOK', GoneIsEmpty,
         NEW c \in Conns, NEW type \in Types, LogFor(c, type),
         Live(c), Onward
  PROVE  SessInv' /\ DOMAIN sessions' = Rows
<1> DEFINE b == [sid |-> c, type |-> type]
           e == Stored(b)
<1>1. /\ proc # "down" /\ ring' = Push(ring, e) /\ WriteLine(e)
      /\ e \in Event /\ e.body = b /\ b.sid = c /\ b.type = type
      /\ ring \in Seq(Event) /\ sessions' = Counted(b)
  <2>1. b \in Body /\ Log(b) /\ sessions' = Counted(b)
    BY LogForLogs DEF LogFor
  <2>2. e \in Event /\ e.body = b
    BY <2>1 DEF TypeOK, Stored, Event
  <2> QED
    BY <2>1, <2>2 DEF Log, TypeOK
<1> HIDE DEF e
<1>2. Counted(b) = IF c \in Rows /\ type = "command"
                   THEN [sessions EXCEPT ![c].cmds = @ + 1] ELSE sessions
  BY DEF Counted
<1> HIDE DEF b
<1>3. \A s \in Rows : sessions[s] \in Row /\ sessions[s].cmds \in Nat
  BY DEF SessInv, RowsTyped, Row
<1>4. /\ Rows' = Rows /\ DOMAIN sessions' = Rows
      /\ \A s \in Rows : /\ sessions'[s] \in Row
                         /\ sessions'[s].cmds =
                              IF s = c /\ type = "command" THEN sessions[s].cmds + 1
                                                           ELSE sessions[s].cmds
  <2>1. CASE c \in Rows /\ type = "command"
    <3>1. /\ DOMAIN sessions' = Rows
          /\ sessions'[c] = [sessions[c] EXCEPT !.cmds = @ + 1]
          /\ \A s \in Rows : s # c => sessions'[s] = sessions[s]
      BY <1>1, <1>2, <2>1 DEF Rows
    <3>2. sessions'[c] \in Row /\ sessions'[c].cmds = sessions[c].cmds + 1
      BY <1>3, <2>1, <3>1 DEF Row
    <3>3. \A s \in Rows : /\ sessions'[s] \in Row
                          /\ sessions'[s].cmds =
                               IF s = c THEN sessions[s].cmds + 1 ELSE sessions[s].cmds
      BY <1>3, <3>1, <3>2
    <3> QED
      BY <2>1, <3>1, <3>3 DEF Rows
  <2>2. CASE ~(c \in Rows /\ type = "command")
    BY <1>1, <1>2, <1>3, <2>2 DEF Rows
  <2> QED
    BY <2>1, <2>2
<1>5. RowsTyped' /\ TableBounded'
  BY <1>4 DEF SessInv, RowsTyped, TableBounded
<1>6. Newcomers'
  <2>1. Said(file', buf') \subseteq Said(file, buf) \cup {e}
    BY <1>1, LogSays
  <2>2. ToSet(ring') \subseteq ToSet(ring) \cup {e}
    BY <1>1, PushAdds
  <2> QED
    BY <1>1, <1>4, <2>1, <2>2 DEF SessInv, Newcomers, Accepted, Onward, Live
<1>7. CountsCoverRing'
  <2> SUFFICES ASSUME NEW s \in Rows
               PROVE  sessions'[s].cmds >= Cardinality(CommandEvents(s)')
    BY <1>4 DEF CountsCoverRing
  <2> DEFINE old == Cardinality(CommandEvents(s))
             new == Cardinality(CommandEvents(s)')
  <2>1. /\ CommandEvents(s) = Commands(ring, s)
        /\ CommandEvents(s)' = Commands(Push(ring, e), s)
    BY <1>1 DEF CommandEvents, Commands, OfSession
  <2>2. /\ new <= old + 1
        /\ ~(s = c /\ type = "command") => new <= old
    BY <1>1, <2>1, PushCounts
  <2>3. old \in Nat /\ new \in Nat
    <3>1. ring' \in Seq(Event)
      BY DEF TypeOK
    <3> QED
      BY <1>1, <2>1, <3>1, CommandsCount
  <2>4. sessions[s].cmds >= old
    BY <1>1 DEF SessInv, CountsCoverRing
  <2> HIDE DEF old, new
  <2>5. sessions'[s].cmds >= new
    BY <1>3, <1>4, <2>2, <2>3, <2>4
  <2> QED
    BY <2>5 DEF new
<1> QED
  BY <1>4, <1>5, <1>6, <1>7 DEF SessInv, Onward

(***************************************************************************)
(* A restart: the table is what the ring it replayed says.                 *)
(***************************************************************************)
LEMMA RestartKeeps ==
  ASSUME SessInv, TypeOK, IInv', Restart
  PROVE  SessInv'
<1>1. /\ Replay(file) /\ UNCHANGED <<file, buf, handler, channels>>
      /\ sessions' = Rebuilt(ring')
      /\ ring' \in Seq(Event) /\ Len(ring') <= MaxRows
      /\ file \in Seq(Line) /\ proc = "down"
  BY DEF Restart, Start, IInv, TypeOK, SeqBounded
<1>2. /\ Rows' \subseteq Conns /\ Cardinality(Rows') <= MaxRows
      /\ \A s \in Rows' :
           /\ sessions'[s] \in Row
           /\ sessions'[s].cmds >= Cardinality(Commands(ring', s))
           /\ \E e \in ToSet(ring') : e.body.sid = s
  BY <1>1, RebuiltRows DEF Rows
<1>3. /\ RowsTyped' /\ HandlersTyped' /\ NobodyLeft'
      /\ \A c \in Conns : ~Live(c)'
  BY <1>1, <1>2 DEF SessInv, RowsTyped, HandlersTyped, NobodyLeft, Live
<1>4. ToSet(ring') \subseteq Said(file, buf)
  <2>1. CASE ring' = <<>>
    BY <2>1 DEF ToSet
  <2>2. CASE ReadTail(file)
    <3>1. PICK n \in Nat : \E at \in [1..n -> Replayable(file)] :
                              ring' = [i \in 1..n |-> file[at[i]].ev]
      BY <1>1, <2>2, ReadTailAt
    <3>2. PICK at \in [1..n -> Replayable(file)] :
                 ring' = [i \in 1..n |-> file[at[i]].ev]
      BY <3>1
    <3>3. Replayable(file) \subseteq {j \in DOMAIN file : Parses(file[j])}
      BY <1>1 DEF Replayable, Window
    <3>4. ToSet(ring') \subseteq EventsOf(file)
      BY <3>2, <3>3 DEF ToSet, EventsOf
    <3> QED
      BY <3>4 DEF Said
  <2> QED
    BY <1>1, <2>1, <2>2 DEF Replay
<1>5. Newcomers'
  BY <1>1, <1>2, <1>4 DEF SessInv, Newcomers
<1>6. TableBounded'
  BY <1>2, <1>3 DEF TableBounded
<1>7. CountsCoverRing'
  <2>1. \A s : CommandEvents(s)' = Commands(ring', s)
    BY DEF CommandEvents, Commands, OfSession
  <2> QED
    BY <1>2, <2>1 DEF CountsCoverRing
<1> QED
  BY <1>3, <1>5, <1>6, <1>7 DEF SessInv

(***************************************************************************)
(* Moving on: the handler that moves stays among the accepted ones.        *)
(***************************************************************************)
LEMMA HandlerMoves ==
  ASSUME HandlersTyped, NobodyLeft, proc' = proc,
         NEW c \in Conns, NEW state \in HandlerStates \ {"idle"}, Live(c),
         \/ handler' = handler
         \/ Goto(c, state) /\ (c \in Tcp \/ channels[c] = 0),
         channels' = channels
  PROVE  Onward
<1>1. handler \in [Conns -> HandlerStates] /\ Tcp \cap Ssh = {}
  BY SessionsAssumption DEF HandlersTyped
<1>2. /\ handler' \in [Conns -> HandlerStates]
      /\ \A d \in Conns : handler'[d] = IF d = c THEN handler'[c] ELSE handler[d]
      /\ handler'[c] # "idle"
      /\ handler'[c] = handler[c] \/ c \in Tcp \/ channels[c] = 0
  BY <1>1 DEF Goto, Live
<1>3. HandlersTyped'
  <2> SUFFICES ASSUME NEW d \in Ssh, channels[d] > 0
               PROVE  handler'[d] = "serving"
    BY <1>2 DEF HandlersTyped
  <2>1. d \in Conns /\ handler[d] = "serving"
    BY DEF HandlersTyped, Conns
  <2> QED
    BY <1>1, <1>2, <2>1
<1>4. /\ Accepted \subseteq Accepted'
      /\ \A d \in Conns : ~Live(d) => ~Live(d)'
  BY <1>2 DEF Accepted, Live
<1> QED
  BY <1>3, <1>4 DEF Onward, NobodyLeft

(***************************************************************************)
(* A step of a handler keeps the invariant, and rows go in order.          *)
(***************************************************************************)
LEMMA ServeKeeps ==
  ASSUME SessInv, TypeOK, TypeOK', GoneIsEmpty, NEW c \in Conns, Serve(c)
  PROVE  SessInv' /\ EvictedInOrder(sessions, sessions')
<1>1. /\ RowsTyped /\ HandlersTyped /\ NobodyLeft /\ Tcp \cap Ssh = {}
      /\ Tcp \subseteq Conns /\ Ssh \subseteq Conns
  BY SessionsAssumption DEF SessInv, Conns
<1>2. \A s \in Ssh : channels[s] \in Nat /\ (channels[s] > 0 => handler[s] = "serving")
  BY <1>1 DEF HandlersTyped
<1>3. DOMAIN sessions' = Rows => EvictedInOrder(sessions, sessions')
  BY DEF EvictedInOrder, Rows
<1>4. CASE Accept(c)
  BY <1>4, AcceptKeeps
<1>5. ASSUME NEW type \in Types, LogFor(c, type), Live(c),
             NEW state \in HandlerStates \ {"idle"},
             \/ handler' = handler
             \/ Goto(c, state) /\ (c \in Tcp \/ channels[c] = 0),
             channels' = channels
      PROVE  SessInv' /\ EvictedInOrder(sessions, sessions')
  <2>1. proc' = proc
    BY <1>5 DEF LogFor, Log
  <2>2. Onward
    BY <1>1, <1>5, <2>1, HandlerMoves
  <2> QED
    BY <1>3, <1>5, <2>2, LogForKeeps
<1>6. ASSUME CloseSession(c) \/ UNCHANGED sessions, UNCHANGED vars, Onward
      PROVE  SessInv' /\ EvictedInOrder(sessions, sessions')
  <2>1. Forgetless
    BY <1>1, <1>6, CloseForgetless
  <2>2. ring' = ring /\ proc' = proc /\ file' = file /\ buf' = buf
    BY <1>6 DEF vars
  <2> QED
    BY <1>3, <1>6, <2>1, <2>2, QuietKeeps DEF Forgetless
<1>7. CASE LogConnection(c)
  <2>1. /\ LogFor(c, "connection") /\ "connection" \in Types
        /\ handler[c] = "opened" /\ Goto(c, "serving") /\ channels' = channels
    BY <1>7 DEF LogConnection, Types
  <2>2. c \in Tcp \/ channels[c] = 0
    BY <1>2, <2>1 DEF Conns
  <2> QED
    BY <1>5, <2>1, <2>2 DEF HandlerStates, Live
<1>8. CASE TcpCommand(c) \/ SshCommand(c)
  <2>1. PICK type \in Types : LogFor(c, type)
    BY <1>8 DEF TcpCommand, SshCommand, Types
  <2>2. handler[c] = "serving" /\ handler' = handler /\ channels' = channels
    BY <1>2, <1>8 DEF TcpCommand, SshCommand
  <2> QED
    BY <1>5, <2>1, <2>2 DEF HandlerStates, Live
<1>9. CASE LogClosed(c)
  <2>1. /\ LogFor(c, "connection_closed") /\ "connection_closed" \in Types
        /\ handler[c] = "serving" /\ c \in Tcp
        /\ Goto(c, "closing") /\ channels' = channels
    BY <1>9 DEF LogClosed, Types
  <2> QED
    BY <1>5, <2>1 DEF HandlerStates, Live
<1>10. CASE FinishTcp(c) \/ Disconnect(c)
  <2>1. /\ CloseSession(c) \/ UNCHANGED sessions
        /\ Goto(c, "gone") /\ UNCHANGED vars /\ channels' = channels
        /\ Live(c)
    BY <1>10 DEF FinishTcp, Disconnect, Live
  <2>2. c \in Tcp \/ channels[c] = 0
    BY <1>2, <1>10 DEF FinishTcp, Disconnect, Conns
  <2>3. proc' = proc
    BY <2>1 DEF vars
  <2>4. Onward
    BY <1>1, <2>1, <2>2, <2>3, HandlerMoves DEF HandlerStates
  <2> QED
    BY <1>6, <2>1, <2>4
<1>11. CASE OpenChannel(c) \/ CloseChannel(c)
  <2>1. /\ CloseSession(c) \/ UNCHANGED sessions
        /\ UNCHANGED vars /\ handler' = handler /\ c \in Ssh
        /\ handler[c] = "serving"
    BY <1>2, <1>11 DEF OpenChannel, CloseChannel
  <2>2. /\ channels' \in [Ssh -> Nat]
        /\ \A s \in Ssh : s # c => channels'[s] = channels[s]
    BY <1>1, <1>2, <1>11 DEF OpenChannel, CloseChannel, HandlersTyped
  <2>3. proc' = proc
    BY <2>1 DEF vars
  <2>4. Onward
    BY <1>1, <2>1, <2>2, <2>3
       DEF HandlersTyped, Accepted, Onward, NobodyLeft, Live
  <2> QED
    BY <1>6, <2>1, <2>4
<1> QED
  BY <1>4, <1>7, <1>8, <1>9, <1>10, <1>11 DEF Serve

(***************************************************************************)
(* A step that leaves the table alone: what the file and the buffer said   *)
(* may be lost, but nothing comes to it.                                   *)
(***************************************************************************)
LEMMA StoreAloneKeeps ==
  ASSUME SessInv, TypeOK, TypeOK', GoneIsEmpty, sessions' = sessions,
         Onward,
         Flush \/ Drain \/ Exit \/ Crash \/ Close \/ UNCHANGED vars
  PROVE  SessInv'
<1>1. Forgetless
  BY CloseForgetless DEF SessInv
<1>2. /\ ring' = ring /\ (proc' # "down" => proc # "down")
      /\ Said(file', buf') \subseteq Said(file, buf)
  <2>1. CASE Flush \/ Drain \/ Exit \/ Crash
    <3>1. Settled
      BY <2>1, OthersSettle
    <3>2. /\ ring' = ring /\ (proc' # "down" => proc # "down") /\ buf' = <<>>
          /\ Squeezed(file, buf, file')
      BY <3>1 DEF Settled
    <3>3. file \in Seq(Line) /\ buf \in Seq(Event) /\ file' \in Seq(Line)
      BY DEF TypeOK
    <3>4. Said(file', <<>>) \subseteq Said(file, buf)
      BY <3>2, <3>3, SqueezeKeeps
    <3> QED
      BY <3>2, <3>4
  <2>2. CASE Close \/ UNCHANGED vars
    BY <2>2 DEF Close, vars
  <2> QED
    BY <2>1, <2>2
<1> QED
  BY <1>1, <1>2, QuietKeeps

(***************************************************************************)
(* When the process ends, its connections do.                              *)
(***************************************************************************)
LEMMA EndingIsOnward ==
  ASSUME HandlersTyped, ProcessEnds
  PROVE  Onward /\ \A c \in Conns : ~Live(c)'
<1>1. /\ handler' = [c \in Conns |-> IF Live(c) THEN "gone" ELSE handler[c]]
      /\ channels' = [c \in Ssh |-> 0]
  BY DEF ProcessEnds
<1>2. handler' \in [Conns -> HandlerStates] /\ channels' \in [Ssh -> Nat]
  BY <1>1 DEF HandlersTyped, HandlerStates
<1>3. HandlersTyped'
  BY <1>1, <1>2 DEF HandlersTyped
<1>4. \A c \in Conns : ~Live(c)'
  BY <1>1 DEF Live
<1>5. Accepted \subseteq Accepted'
  BY <1>1 DEF Accepted
<1> QED
  BY <1>3, <1>4, <1>5 DEF Onward, NobodyLeft

(***************************************************************************)
(* When it is killed while it logs, what it leaves behind is of a          *)
(* connection that was accepted.                                           *)
(***************************************************************************)
LEMMA KilledLoggingKeeps ==
  ASSUME SessInv, TypeOK, ProcessEnds, KilledLogging
  PROVE  SessInv'
<1>1. PICK b \in Body : KilledInLog(b) /\ \E c \in Conns : MayLog(c, b.type) /\ b.sid = c
  BY KilledLoggingLogs
<1>2. b.sid \in Accepted
  <2>1. PICK c \in Conns : MayLog(c, b.type) /\ b.sid = c
    BY <1>1
  <2>2. \A d \in Ssh : channels[d] > 0 => handler[d] = "serving"
    BY DEF SessInv, HandlersTyped
  <2> QED
    BY <2>1, <2>2 DEF MayLog, Accepted
<1> DEFINE e == Stored(b)
<1>3. e \in Event /\ e.body = b
  BY DEF TypeOK, Stored, Event
<1>4. /\ proc' = "down" /\ buf' = <<>> /\ ring' = Push(ring, e)
      /\ sessions' = sessions /\ Rows' = Rows
  BY <1>1 DEF KilledInLog, ProcessEnds, Rows
<1>5. PICK f : Grown(e, f) /\ HalfRotated(f)
  BY <1>1, KilledGrows
<1>6. Said(file', buf') \subseteq Said(file, buf) \cup {e}
  <2>1. Said(f, <<>>) \subseteq Said(file, buf) \cup {e}
    BY <1>5 DEF Grown
  <2>2. file' = f \/ file' = <<>>
    BY <1>5 DEF HalfRotated
  <2> QED
    BY <1>4, <2>1, <2>2, NothingSaid
<1>7. ToSet(ring') \subseteq ToSet(ring) \cup {e}
  BY <1>3, <1>4, PushAdds DEF TypeOK
<1> HIDE DEF e
<1>8. Onward /\ \A c \in Conns : ~Live(c)'
  BY EndingIsOnward DEF SessInv
<1>9. RowsTyped' /\ TableBounded'
  BY <1>4, <1>8 DEF SessInv, RowsTyped, TableBounded
<1>10. Newcomers'
  BY <1>2, <1>3, <1>4, <1>6, <1>7, <1>8 DEF SessInv, Newcomers, Accepted, Onward
<1>11. CountsCoverRing'
  BY <1>4 DEF CountsCoverRing
<1> QED
  BY <1>8, <1>9, <1>10, <1>11 DEF SessInv, Onward

(***************************************************************************)
(* Every step keeps the invariant of the table, and while the process is   *)
(* up its rows go in order.                                                *)
(***************************************************************************)
LEMMA NextSessInv ==
  ASSUME DiskInv, SessInv, [SessionsNext]_allVars
  PROVE  SessInv' /\ (proc # "down" => EvictedInOrder(sessions, sessions'))
<1>1. TypeOK /\ GoneIsEmpty /\ IInv
  BY DEF DiskInv, IInv
<1>2. IInv' /\ TypeOK'
  BY <1>1, StepImplements, NextIInv DEF IInv
<1>3. HandlersTyped
  BY DEF SessInv
<1>4. sessions' = sessions => EvictedInOrder(sessions, sessions')
  BY DEF EvictedInOrder
<1>5. ASSUME NEW c \in Conns, Serve(c)
      PROVE  SessInv' /\ EvictedInOrder(sessions, sessions')
  BY <1>1, <1>2, <1>5, ServeKeeps
<1>6. CASE Background \/ UNCHANGED allVars
  <2>1. /\ Flush \/ Drain \/ Close \/ UNCHANGED vars
        /\ UNCHANGED <<sessions, handler, channels>>
    BY <1>6 DEF Background, allVars, sessVars
  <2>2. proc' = "down" => proc = "down"
    BY <2>1 DEF Flush, Drain, Close, vars
  <2>3. Onward
    BY <2>1, <2>2 DEF SessInv, HandlersTyped, NobodyLeft, Accepted, Onward, Live
  <2> QED
    BY <1>1, <1>2, <1>4, <2>1, <2>3, StoreAloneKeeps
<1>7. CASE ProcessEnds
  <2>1. sessions' = sessions /\ (Exit \/ Crash \/ KilledLogging)
    BY <1>7 DEF ProcessEnds
  <2>2. Onward
    BY <1>3, <1>7, EndingIsOnward
  <2>3. CASE KilledLogging
    BY <1>1, <1>4, <1>7, <2>1, <2>3, KilledLoggingKeeps
  <2>4. CASE Exit \/ Crash
    BY <1>1, <1>2, <1>4, <2>1, <2>2, <2>4, StoreAloneKeeps
  <2> QED
    BY <2>1, <2>3, <2>4
<1>8. CASE Restart
  <2>1. proc = "down"
    BY <1>8 DEF Restart, Start
  <2> QED
    BY <1>1, <1>2, <1>8, <2>1, RestartKeeps
<1> QED
  BY <1>5, <1>6, <1>7, <1>8 DEF SessionsNext

(***************************************************************************)
(* SessInv holds in every reachable state of the handlers and the table.   *)
(***************************************************************************)
THEOREM SessionsInvariance == SessionsSpec => []SessInv
<1>1. DiskInv /\ SessInv /\ [SessionsNext]_allVars => SessInv'
  BY NextSessInv
<1> QED
  BY <1>1, InitSessInv, SessionsImplementEventLog, DiskInvariance, PTL DEF SessionsSpec

(***************************************************************************)
(* The table is within maxSessions while a connection lives, and within    *)
(* the rows of the ring from a boot to the first connection, whatever the  *)
(* handlers do and however often the process restarts.                     *)
(***************************************************************************)
THEOREM TableStaysBounded == SessionsSpec => []TableBounded
<1>1. SessInv => TableBounded
  BY DEF SessInv
<1> QED
  BY <1>1, SessionsInvariance, PTL

(***************************************************************************)
(* No row shows fewer commands than the store still holds of its session:  *)
(* not after pruning, ring eviction, a lost line or a recount at a boot.   *)
(***************************************************************************)
THEOREM CountsStayCovering == SessionsSpec => []CountsCoverRing
<1>1. SessInv => CountsCoverRing
  BY DEF SessInv
<1> QED
  BY <1>1, SessionsInvariance, PTL

(***************************************************************************)
(* While the process is up the oldest closed rows go first, and an active  *)
(* row only when no closed row is kept.                                    *)
(***************************************************************************)
THEOREM OldestClosedGoFirst == SessionsSpec => EvictsOldestClosedFirst
<1> DEFINE InOrderOnly ==
      proc # "down" =>
        \A gone \in Rows \ DOMAIN sessions', kept \in Rows \cap DOMAIN sessions' :
          /\ sessions[kept].active = sessions[gone].active
               => sessions[gone].opened <= sessions[kept].opened
          /\ sessions[gone].active => sessions[kept].active
<1>1. DiskInv /\ SessInv /\ [SessionsNext]_allVars => [InOrderOnly]_allVars
  BY NextSessInv DEF EvictedInOrder, Rows
<1> HIDE DEF InOrderOnly
<1>2. SessionsSpec => [][InOrderOnly]_allVars
  BY <1>1, SessionsInvariance, SessionsImplementEventLog, DiskInvariance, PTL
     DEF SessionsSpec
<1> QED
  BY <1>2 DEF InOrderOnly, EvictsOldestClosedFirst

=============================================================================
