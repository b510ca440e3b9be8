----------------------------- MODULE Datagrams -----------------------------
(***************************************************************************)
(* A UDP listener (generic.go): the read loop, the table that groups the   *)
(* datagrams of a source into a session, Stop, and what the emulator of    *)
(* each UDP service (netudp.go, vpn.go) answers.                           *)
(*                                                                         *)
(* A datagram is its source, its length and what its emulator reads in it. *)
(* Of an answer the model keeps the type of the event and the length of    *)
(* the reply, 0 for none.  An emulator keeps nothing between datagrams, so *)
(* one listener stands for all, and which emulator it has and what is in   *)
(* the datagram are chosen when the emulator is called.  The clock ticks   *)
(* between any two datagrams.                                              *)
(***************************************************************************)
EXTENDS Integers, FiniteSets, Functions

CONSTANTS
  Sources,      \* ip:port a datagram comes from
  Suspects,     \* bound: those of them the operator may block
  Protocols,    \* emulators, a subset of AllProtocols
  Cap,          \* rows the table holds (4096)
  Window,       \* udpSessionWindow, in ticks (2 minutes)
  MaxClock      \* bound: ticks in a behaviour

AllProtocols == {"dns", "snmp", "ntp", "tftp", "sip", "openvpn", "ike",
                 "wireguard", "l2tp", "generic"}

ASSUME DatagramsAssumption ==
  /\ IsFiniteSet(Sources) /\ Suspects \subseteq Sources
  /\ Protocols \subseteq AllProtocols
  /\ Cap \in Nat \ {0} /\ Window \in Nat \ {0} /\ MaxClock \in Nat

VARIABLES
  loop,       \* where readLoop is
  pkt,        \* the source of the datagram it has in hand, in a set
  asked,      \* the emulator and the datagram it was given, in a set
  answer,     \* what the emulator answered to it
  socket,     \* "open" or "closed"
  cancelled,  \* the context of the listener
  cleared,    \* Stop has closed the sessions
  table,      \* udpSessions: source |-> [id, seen]
  active,     \* ids of the rows of the store that are active
  nextId,
  blocked,    \* sources on the blocklist
  clock,
  heard       \* when a source was last admitted (history)

listener == <<socket, cancelled, cleared>>
rows     == <<table, active, nextId>>
dgVars   == <<loop, pkt, asked, answer, listener, rows, blocked, clock, heard>>

-----------------------------------------------------------------------------
\* What the emulators answer.

D(kind, len) == [kind |-> kind, len |-> len]

\* The shapes an emulator tells apart, at the lengths where its answer changes;
\* "reply" is what an emulator of the same service would send.
Datagram ==
  [dns       |-> {D("query", 11), D("query", 12), D("any", 40), D("reply", 40)},
   snmp      |-> {D("malformed", 8), D("bare", 12), D("get", 40), D("getbulk", 40),
                  D("reply", 40)},
   ntp       |-> {D("empty", 0), D("client", 47), D("client", 48), D("client", 60),
                  D("control", 12), D("private", 60), D("reply", 48)},
   tftp      |-> {D("RRQ", 3), D("RRQ", 12), D("RRQ", 20), D("WRQ", 20), D("WRQ", 24),
                  D("reply", 19)},
   sip       |-> {D("junk", 20), D("OPTIONS", 40), D("REGISTER", 300), D("reply", 200)},
   openvpn   |-> {D("empty", 0), D("reset", 8), D("reset", 9), D("reset", 22),
                  D("data", 40), D("reply", 22)},
   ike       |-> {D("keepalive", 1), D("v2", 27), D("v2", 28), D("v2", 36),
                  D("natt", 31), D("natt", 40), D("v1", 60), D("reply", 36)},
   wireguard |-> {D("initiation", 3), D("initiation", 148), D("data", 40)},
   l2tp      |-> {D("control", 5), D("control", 60)},
   generic   |-> {D("any", 0), D("any", 60)}]

Logged(type, size) == [type |-> type, size |-> size]
Nothing == Logged("", 0)

\* dnsNXDomain gives the query back.
NXDomain(d) == IF d.len < 12 THEN 0 ELSE d.len

Dns(d) == IF d.len < 12 THEN Logged("payload", 0)
                        ELSE Logged("query", NXDomain(d))

\* snmpResponse turns the tag of the PDU round, and gives nothing without one
\* or for a response.
SnmpResponse(d) == IF d.kind \in {"bare", "reply"} THEN 0 ELSE d.len

Snmp(d) == IF d.kind = "malformed" THEN Logged("payload", 0)
                                   ELSE Logged("login_attempt", SnmpResponse(d))

NtpServerReplyToAll(d) == 48                                         \* mutant
NtpServerReply(d) == IF d.len < 48 THEN 0 ELSE 48

Ntp(d) ==
  CASE d.len < 1                       -> Nothing
    [] d.kind \in {"private", "control"} -> Logged("amplification_attempt", 0)
    [] OTHER                           -> Logged("query", NtpServerReply(d))

\* Four bytes, the message and a zero.
TftpError(write) == IF write THEN 4 + 16 + 1 ELSE 4 + 14 + 1

Tftp(d) ==
  LET type == CASE d.kind = "RRQ" -> "query" [] d.kind = "WRQ" -> "upload_attempt"
                [] OTHER -> "payload"
  IN IF d.len < 4 THEN Logged("payload", 0)
                  ELSE Logged(type, TftpError(d.kind = "WRQ"))

\* The fixed text; Via, From, To, Call-ID and CSeq are copied from the request.
SipUnauthorized(d) == 200 + (IF d.kind = "REGISTER" THEN 150 ELSE 0)

Sip(d) ==
  CASE d.kind \in {"junk", "reply"} -> Logged("payload", 0)
    [] d.kind = "REGISTER"          -> Logged("login_attempt", SipUnauthorized(d))
    [] OTHER                        -> Logged("request", SipUnauthorized(d))

\* opcode, session id, no acks, packet id; from 9 bytes on the client's id too.
ServerReset(d) == 1 + 8 + 1 + (IF d.len >= 9 THEN 8 ELSE 0) + 4

OpenVpn(d) ==
  CASE d.len < 1        -> Nothing
    [] d.kind = "reset" -> Logged("client_hello", ServerReset(d))
    [] OTHER            -> Logged("payload", 0)

\* IKEv1 gets no notify.  Behind NAT four zero bytes come first.
Notify(d) == IF d.kind = "v1" THEN 0 ELSE 28 + 8

Ike(d) ==
  LET body == IF d.kind = "natt" THEN d.len - 4 ELSE d.len
  IN IF d.kind = "keepalive" \/ body < 28 THEN Logged("payload", 0)
                                          ELSE Logged("client_hello", Notify(d))

Wireguard(d) ==
  IF d.len >= 4 /\ d.kind = "initiation" THEN Logged("client_hello", 0)
                                         ELSE Logged("payload", 0)

L2tp(d) == IF d.len < 6 THEN Logged("payload", 0) ELSE Logged("client_hello", 0)

\* No emulator: the event, and the banner the service is configured with.
Banner == 24
GenericUdp(d) == Logged("datagram", Banner)

Answer(proto, d) ==
  CASE proto = "dns"       -> Dns(d)
    [] proto = "snmp"      -> Snmp(d)
    [] proto = "ntp"       -> Ntp(d)
    [] proto = "tftp"      -> Tftp(d)
    [] proto = "sip"       -> Sip(d)
    [] proto = "openvpn"   -> OpenVpn(d)
    [] proto = "ike"       -> Ike(d)
    [] proto = "wireguard" -> Wireguard(d)
    [] proto = "l2tp"      -> L2tp(d)
    [] proto = "generic"   -> GenericUdp(d)

-----------------------------------------------------------------------------
\* sessionFor.

Keys  == DOMAIN table
Ids(t) == {t[s].id : s \in DOMAIN t}
Idle(t) == {s \in DOMAIN t : clock - t[s].seen >= Window}

\* What a new row pushes out of table t: what is idle and, if that leaves more
\* than Cap, the one not seen for longest.
Evict(t) ==
  LET fresh == DOMAIN t \ Idle(t)
  IN Idle(t) \cup
     {s \in fresh : /\ Cardinality(fresh) > Cap
                    /\ \A k \in fresh : t[s].seen <= t[k].seen}

\* CloseSession, for every row that leaves the table.
RowsLeftOpen(t) == active \cup Ids(t)                          \* mutant
StillActive(t)  == (active \cup Ids(t)) \ (Ids(table) \ Ids(t))

\* A source heard within the window keeps its row.
SeenOnce(s) ==                         \* mutant: the row is not refreshed
  /\ s \in Keys \ Idle(table)
  /\ UNCHANGED rows

Refresh(s) ==
  /\ s \in Keys \ Idle(table)
  /\ table' = [table EXCEPT ![s].seen = clock]
  /\ UNCHANGED <<active, nextId>>

OpenRow(s) ==
  /\ s \notin Keys \ Idle(table)
  /\ LET t == [k \in Keys \cup {s} |->
                 IF k = s THEN [id |-> nextId, seen |-> clock] ELSE table[k]]
     IN table' = Restrict(t, DOMAIN t \ Evict(t))
  /\ active' = StillActive(table')
  /\ nextId' = nextId + 1

-----------------------------------------------------------------------------
\* The read loop.

DatagramsInit ==
  /\ loop = "top" /\ pkt = {} /\ asked = {} /\ answer = Nothing
  /\ socket = "open" /\ cancelled = FALSE /\ cleared = FALSE
  /\ table = [s \in {} |-> {}] /\ active = {} /\ nextId = 1
  /\ blocked = {}
  /\ clock = 0
  /\ heard = [s \in {} |-> 0]

TopUnchecked ==                        \* mutant: the context is not looked at
  /\ loop = "top"
  /\ loop' = "reading"
  /\ UNCHANGED <<pkt, asked, answer, listener, rows, blocked, clock, heard>>

Top ==
  /\ loop = "top"
  /\ loop' = IF cancelled THEN "gone" ELSE "reading"
  /\ UNCHANGED <<pkt, asked, answer, listener, rows, blocked, clock, heard>>

\* The deadline passes, or the read fails: it does once the socket is closed.
ReadAgain ==                           \* mutant: every error is tried again
  /\ loop = "reading"
  /\ UNCHANGED <<pkt, asked, answer, listener, rows, blocked, clock, heard>>
  /\ loop' = "reading"

ReadFails ==
  /\ loop = "reading"
  /\ loop' \in (IF cancelled \/ socket = "closed" THEN {"gone"} ELSE {"top", "gone"})
  /\ UNCHANGED <<pkt, asked, answer, listener, rows, blocked, clock, heard>>

Read(s) ==
  /\ loop = "reading"
  /\ socket = "open"
  /\ clock < MaxClock
  /\ pkt' = {s}
  /\ loop' = "read"
  /\ UNCHANGED <<asked, answer, listener, rows, blocked, clock, heard>>

Drop == loop' = "top" /\ pkt' = {}
Take == loop' = "admitted" /\ UNCHANGED pkt

Admit(s) ==
  /\ loop = "read" /\ s \in pkt
  /\ IF s \in blocked THEN Drop ELSE Take
  /\ UNCHANGED <<asked, answer, listener, rows, blocked, clock, heard>>

SessionFor(s) ==
  /\ loop = "admitted" /\ s \in pkt
  /\ Refresh(s) \/ OpenRow(s)
  /\ heard' = [k \in DOMAIN heard \cup {s} |-> IF k = s THEN clock ELSE heard[k]]
  /\ clock' = clock + 1
  /\ loop' = "handling"
  /\ UNCHANGED <<pkt, asked, answer, listener, blocked>>

\* callHandler: a panic is an event and no reply.
Panic(p) ==
  /\ p.to # "generic"
  /\ answer' = Logged("handler_error", 0)

Respond(p) == answer' = Answer(p.to, p.what)

Handle(p) ==
  /\ loop = "handling"
  /\ asked' = {p}
  /\ Respond(p) \/ Panic(p)
  /\ loop' = "replying"
  /\ UNCHANGED <<pkt, listener, rows, blocked, clock, heard>>

\* The event is logged and the reply sent, if the socket is still open.
Reply(s) ==
  /\ loop = "replying" /\ s \in pkt
  /\ loop' = "top" /\ pkt' = {} /\ asked' = {} /\ answer' = Nothing
  /\ UNCHANGED <<listener, rows, blocked, clock, heard>>

-----------------------------------------------------------------------------
\* Stop, which does not wait for the loop.

Cancel ==
  /\ ~cancelled
  /\ cancelled' = TRUE
  /\ UNCHANGED <<loop, pkt, asked, answer, socket, cleared, rows, blocked, clock, heard>>

CloseSessions ==
  /\ cancelled /\ ~cleared
  /\ active' = active \ Ids(table)
  /\ table' = [s \in {} |-> {}]
  /\ cleared' = TRUE
  /\ UNCHANGED <<loop, pkt, asked, answer, socket, cancelled, nextId, blocked, clock, heard>>

CloseSocket ==
  /\ cleared /\ socket = "open"
  /\ socket' = "closed"
  /\ UNCHANGED <<loop, pkt, asked, answer, cancelled, cleared, rows, blocked, clock, heard>>

\* The operator blocks a source; time passes.
Block(s) ==
  /\ s \notin blocked
  /\ blocked' = blocked \cup {s}
  /\ UNCHANGED <<loop, pkt, asked, answer, listener, rows, clock, heard>>

Tick ==
  /\ clock < MaxClock
  /\ clock' = clock + 1
  /\ UNCHANGED <<loop, pkt, asked, answer, listener, rows, blocked, heard>>

LoopStep ==
  \/ Top \/ ReadFails
  \/ \E s \in pkt : Admit(s) \/ SessionFor(s) \/ Reply(s)
  \/ \E p \in Protocols : \E d \in Datagram[p] : Handle([to |-> p, what |-> d])

DatagramsNext ==
  \/ LoopStep
  \/ \E s \in Sources : Read(s)
  \/ Cancel \/ CloseSessions \/ CloseSocket
  \/ \E s \in Suspects : Block(s)
  \/ Tick
  \/ loop = "gone" /\ UNCHANGED dgVars

\* The loop's goroutine runs: a read returns within two seconds.
DatagramsSpec == DatagramsInit /\ [][DatagramsNext]_dgVars /\ WF_dgVars(LoopStep)

-----------------------------------------------------------------------------
(***************************************************************************)
(* The types; the table never holds more rows than its cap, however many   *)
(* sources there are.                                                      *)
(***************************************************************************)
DatagramsTypeOK ==
  /\ loop \in {"top", "reading", "read", "admitted", "handling", "replying", "gone"}
  /\ pkt \subseteq Sources
  /\ \A p \in asked : p.to \in Protocols /\ p.what \in Datagram[p.to]
  /\ answer.size \in Nat
  /\ socket \in {"open", "closed"} /\ cancelled \in BOOLEAN /\ cleared \in BOOLEAN
  /\ nextId \in Nat \ {0} /\ clock \in Nat
  /\ Keys \subseteq Sources /\ Cardinality(Keys) <= Cap
  /\ \A s \in Keys : table[s] \in [id : 1..nextId-1, seen : 0..clock]
  /\ blocked \subseteq Suspects

(***************************************************************************)
(* The rows of this listener that the dashboard shows as active are those  *)
(* of its table, one per source: an eviction, an expiry and Stop all close *)
(* what they drop.                                                         *)
(***************************************************************************)
ActiveRowsAreTabled ==
  /\ active = Ids(table)
  /\ \A s, k \in Keys : table[s].id = table[k].id => s = k

\* The admitted sources heard after s.
Later(s) == {k \in DOMAIN heard : heard[k] > heard[s]}

(***************************************************************************)
(* The table is the cap's worth of sources most recently heard: the        *)
(* datagrams of a source are one session for as long as it is heard within *)
(* the window and fewer than Cap others were heard after it.               *)
(***************************************************************************)
RowsAreLatestHeard ==
  ~cleared => Keys \ Idle(table) =
              {s \in DOMAIN heard : clock - heard[s] < Window /\ Cardinality(Later(s)) < Cap}

(***************************************************************************)
(* Stop does not wait for the loop, and still leaves at most one row       *)
(* behind: that of the datagram the loop had in hand.                      *)
(***************************************************************************)
StopLeavesAtMostOne == cleared => Cardinality(active) <= 1

(***************************************************************************)
(* The services that are scanned for amplifiers answer a request with no   *)
(* more than it was long.                                                  *)
(***************************************************************************)
Amplifies(p) == loop = "replying" /\ answer.size > p.what.len

QuietServices == {"dns", "snmp", "ntp", "wireguard", "l2tp"}

NoAmplification == \A p \in asked : p.to \in QuietServices => ~Amplifies(p)

(***************************************************************************)
(* Once Stop has run, the loop ends.                                       *)
(***************************************************************************)
LoopEnds == socket = "closed" ~> loop = "gone"

=============================================================================
