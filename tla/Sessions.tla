------------------------------ MODULE Sessions ------------------------------
(***************************************************************************)
(* The session table of the event store, and the connection handlers that  *)
(* open, feed and close its rows: the TCP base (base.go) and the SSH       *)
(* server (ssh.go), whose channels share one session.  The event log under *)
(* it is EventLog: every Log of a handler is a Log there, and a restart    *)
(* rebuilds the table from the ring it replayed.                           *)
(*                                                                         *)
(* The clock is the event counter: a row opened after event n and before   *)
(* event n + 1 is opened at n.                                             *)
(***************************************************************************)
EXTENDS EventLog

CONSTANTS
  Tcp, Ssh,      \* connections by the listener they come in on
  MaxSessions    \* Options.MaxSessions: rows in the table

Conns == Tcp \cup Ssh

Types == {"connection", "connection_closed", "command", "exec"}

ASSUME SessionsAssumption ==
  /\ MaxSessions \in Nat \ {0}
  /\ IsFiniteSet(Conns)
  /\ Tcp \cap Ssh = {}
  /\ Body = [sid : Conns, type : Types]

VARIABLES
  sessions,   \* Store.sessions: id |-> [active, opened, cmds], where there is a row
  handler,    \* where the goroutine of each connection is
  channels    \* session channels an SSH connection has open

sessVars == <<sessions, handler, channels>>
allVars  == <<vars, sessVars>>

(***************************************************************************)
(* "idle": not accepted yet.  "opened": OpenSession returned.  "serving":  *)
(* the emulator runs.  "closing": connection_closed was logged.  "gone":   *)
(* the connection has ended.                                               *)
(***************************************************************************)
Live(c) == handler[c] \notin {"idle", "gone"}

-----------------------------------------------------------------------------
\* The table.

Rows == DOMAIN sessions

\* The n oldest of the rows S of table t, in any order between equals.
OldestOf(t, S, n) ==
  {D \in SUBSET S :
     /\ Cardinality(D) = n
     /\ \A d \in D, k \in S \ D : t[d].opened <= t[k].opened}

Without(t, D) == Restrict(t, DOMAIN t \ D)

Closed(t) == {s \in DOMAIN t : ~t[s].active}

Target == Max({1, (MaxSessions * 8) \div 10})

Excess(t) == Cardinality(DOMAIN t) - Target

\* pruneSessionsLocked: the oldest closed rows, then, if the table is still
\* over the cap, the oldest of what is left.
ClosedOnly(t) ==                       \* mutant: no second pass
  {Without(t, D) :
     D \in OldestOf(t, Closed(t), Min({Excess(t), Cardinality(Closed(t))}))}

OldestFirst(t) ==                      \* mutant: no first pass
  {Without(t, D) : D \in OldestOf(t, DOMAIN t, Excess(t))}

Pruned(t) ==
  LET closed == Min({Excess(t), Cardinality(Closed(t))})
      first  == {Without(t, D) : D \in OldestOf(t, Closed(t), closed)}
      over(u) == Cardinality(DOMAIN u) > MaxSessions
  IN {u \in first : ~over(u)} \cup
     UNION {{Without(u, D) : D \in OldestOf(u, DOMAIN u, Excess(u))} :
              u \in {v \in first : over(v)}}

\* Store.OpenSession; a row is stamped before it is inserted.
OpenSession(c) ==
  LET row == [active |-> TRUE, opened |-> nextID, cmds |-> 0]
      t   == [s \in Rows \cup {c} |-> IF s = c THEN row ELSE sessions[s]]
  IN IF Cardinality(DOMAIN t) > MaxSessions
     THEN sessions' \in Pruned(t)
     ELSE sessions' = t

\* Store.CloseSession.
CloseSession(c) ==
  sessions' = IF c \in Rows THEN [sessions EXCEPT ![c].active = FALSE]
                            ELSE sessions

\* The part of Store.Log that counts commands.
Counted(b) ==
  IF b.sid \in Rows /\ b.type = "command"
  THEN [sessions EXCEPT ![b.sid].cmds = @ + 1]
  ELSE sessions

\* The rows replay builds from the ring r.
OfSession(r, s) == {i \in DOMAIN r : r[i].body.sid = s}

OnlyExec(r, s) ==                      \* mutant
  {i \in OfSession(r, s) : r[i].body.type = "exec"}

CommandsOf(r, s) ==
  {i \in OfSession(r, s) : r[i].body.type \in {"command", "exec"}}

Rebuilt(r) ==
  [s \in {r[i].body.sid : i \in DOMAIN r} |->
     [active |-> FALSE,
      opened |-> r[Min(OfSession(r, s))].id,
      cmds   |-> Cardinality(CommandsOf(r, s))]]

-----------------------------------------------------------------------------
\* The handlers.

SessionsInit ==
  /\ Init
  /\ sessions = <<>>
  /\ handler = [c \in Conns |-> "idle"]
  /\ channels = [c \in Ssh |-> 0]

Goto(c, state) == handler' = [handler EXCEPT ![c] = state]

LogFor(c, type) ==
  /\ Log([sid |-> c, type |-> type])
  /\ sessions' = Counted([sid |-> c, type |-> type])

\* TCP.handle, and the first auth attempt on an SSH connection
\* (getOrInitSessionID): the row, then the connection event.
Accept(c) ==
  /\ proc \in {"up", "closing"}
  /\ handler[c] = "idle"
  /\ OpenSession(c)
  /\ Goto(c, "opened")
  /\ UNCHANGED <<vars, channels>>

LogConnection(c) ==
  /\ handler[c] = "opened"
  /\ LogFor(c, "connection")
  /\ Goto(c, "serving")
  /\ UNCHANGED channels

\* The emulator of a TCP service.
TcpCommand(c) ==
  /\ c \in Tcp
  /\ handler[c] = "serving"
  /\ \E type \in {"command", "exec"} : LogFor(c, type)
  /\ UNCHANGED <<handler, channels>>

\* The emulator returns, panics or meets the 60 s deadline.
LogClosed(c) ==
  /\ c \in Tcp
  /\ handler[c] = "serving"
  /\ LogFor(c, "connection_closed")
  /\ Goto(c, "closing")
  /\ UNCHANGED channels

\* The deferred CloseSession.
RowLeftOpen(c) ==                      \* mutant
  /\ handler[c] = "closing"
  /\ Goto(c, "gone")
  /\ UNCHANGED <<vars, sessions, channels>>

FinishTcp(c) ==
  /\ handler[c] = "closing"
  /\ CloseSession(c)
  /\ Goto(c, "gone")
  /\ UNCHANGED <<vars, channels>>

\* handleSession, once per session channel: the defer closes the row.
OpenChannel(c) ==
  /\ c \in Ssh
  /\ handler[c] = "serving"
  /\ channels[c] < 2
  /\ channels' = [channels EXCEPT ![c] = @ + 1]
  /\ UNCHANGED <<vars, sessions, handler>>

SshCommand(c) ==
  /\ c \in Ssh
  /\ channels[c] > 0
  /\ \E type \in {"command", "exec"} : LogFor(c, type)
  /\ UNCHANGED <<handler, channels>>

CloseChannel(c) ==
  /\ c \in Ssh
  /\ channels[c] > 0
  /\ CloseSession(c)
  /\ channels' = [channels EXCEPT ![c] = @ - 1]
  /\ UNCHANGED <<vars, handler>>

\* The client disconnects: after failed logins no channel was ever opened.
Disconnect(c) ==
  /\ c \in Ssh
  /\ handler[c] = "serving"
  /\ channels[c] = 0
  /\ Goto(c, "gone")
  /\ UNCHANGED <<vars, sessions, channels>>

\* A failing disk loses lines, as a crash does; the table does not see it.
Background == (Flush \/ Close \/ Drain) /\ UNCHANGED sessVars

\* What the handler of c logs where it stands.
MayLog(c, type) ==
  \/ handler[c] = "opened" /\ type = "connection"
  \/ c \in Tcp /\ handler[c] = "serving" /\ type # "connection"
  \/ c \in Ssh /\ channels[c] > 0 /\ type \in {"command", "exec"}

KilledLogging ==
  \E c \in Conns, type \in Types :
    MayLog(c, type) /\ KilledInLog([sid |-> c, type |-> type])

\* The connections end with it; nobody reads the table until Restart.
ProcessEnds ==
  /\ Exit \/ Crash \/ KilledLogging
  /\ handler' = [c \in Conns |-> IF Live(c) THEN "gone" ELSE handler[c]]
  /\ channels' = [c \in Ssh |-> 0]
  /\ UNCHANGED sessions

Restart ==
  /\ Start
  /\ sessions' = Rebuilt(ring')
  /\ UNCHANGED <<handler, channels>>

Serve(c) ==
  \/ Accept(c) \/ LogConnection(c)
  \/ TcpCommand(c) \/ LogClosed(c) \/ FinishTcp(c)
  \/ OpenChannel(c) \/ SshCommand(c) \/ CloseChannel(c) \/ Disconnect(c)

SessionsNext ==
  \/ \E c \in Conns : Serve(c)
  \/ Background
  \/ ProcessEnds
  \/ Restart

SessionsSpec == SessionsInit /\ [][SessionsNext]_allVars

\* A TCP handler that is not waiting for its client keeps running, and the
\* deadline on the connection ends the wait.
FairHandlers ==
  /\ SessionsSpec
  /\ \A c \in Tcp :
       WF_allVars(LogConnection(c) \/ LogClosed(c) \/ FinishTcp(c))

-----------------------------------------------------------------------------
(***************************************************************************)
(* However many connections claim to be open, the table is bounded by      *)
(* maxSessions while one of them lives.  Only the table a boot rebuilt,    *)
(* until the first connection comes, may be larger: one row per event of   *)
(* the ring, never pruned.  (storage.md:126 and :255 and                   *)
(* architecture.md:196 bound it by maxSessions alone.)                     *)
(***************************************************************************)
TableBounded ==
  \/ Cardinality(Rows) <= MaxSessions
  \/ Cardinality(Rows) <= MaxRows /\ \A c \in Conns : ~Live(c)

(***************************************************************************)
(* The commands the session list shows for a row are never fewer than the  *)
(* command events of that session the store still holds: counting in Log,  *)
(* pruning, ring eviction and the recount at a restart agree.              *)
(***************************************************************************)
CommandEvents(s) == {i \in OfSession(ring, s) : ring[i].body.type = "command"}

CountsCoverRing ==
  proc # "down" =>
    \A s \in Rows : sessions[s].cmds >= Cardinality(CommandEvents(s))

(***************************************************************************)
(* storage.md:150: "Session rows are evicted oldest-closed-first; active   *)
(* sessions are kept".  While the process is up, a row only goes if every  *)
(* row that is kept is younger or, when the one that goes is closed, still *)
(* active.  The second half of the sentence is not what the code does: an  *)
(* active row goes too, but only if no closed row is kept.                 *)
(***************************************************************************)
EvictsOldestClosedFirst ==
  [][proc # "down" =>
       \A gone \in Rows \ DOMAIN sessions', kept \in Rows \cap DOMAIN sessions' :
         /\ sessions[kept].active = sessions[gone].active
              => sessions[gone].opened <= sessions[kept].opened
         /\ sessions[gone].active => sessions[kept].active]_allVars

(***************************************************************************)
(* Every TCP session ends up closed or evicted, whatever the emulator did, *)
(* unless the process stops (or the model reaches its bound on events).    *)
(***************************************************************************)
TcpSessionsEnd ==
  \A c \in Tcp :
    (c \in Rows /\ sessions[c].active) ~>
      (c \notin Rows \/ ~sessions[c].active \/ proc = "down" \/ nextID = MaxId)

-----------------------------------------------------------------------------
\* What the documentation says and the code does not do.

(***************************************************************************)
(* architecture.md: the path of a connection ends in "CloseSession() marks *)
(* ClosedAt (the row stays, prunable)".                                    *)
(***************************************************************************)
EndedSessionsAreClosed ==
  \A c \in Rows : handler[c] = "gone" /\ proc # "down" => ~sessions[c].active

=============================================================================
