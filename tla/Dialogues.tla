----------------------------- MODULE Dialogues -----------------------------
(***************************************************************************)
(* The emulators of the TCP services: what one connection can bring each   *)
(* of them to log, and what the statistics make of it (serviceAgg).        *)
(*                                                                         *)
(* A step is one line, packet or request of the peer, taken apart as far   *)
(* as the emulator's next state and the types of its events depend on it.  *)
(* What it writes back is left out: no peer has to heed it.  A peer that   *)
(* hangs up between two steps is the end of a behaviour.                   *)
(***************************************************************************)
EXTENDS Integers, FiniteSets

CONSTANTS
  Services,     \* services under check, a subset of AllServices
  Words,        \* names and passwords a peer tries
  FakeAuths,    \* fakeAuth configurations: [mode, reject, passwords, users]
  MaxTries,     \* bound: credentials a peer sends
  MaxEvents,    \* bound: commands, and messages, that are counted
  MaxLines      \* bound: lines a telnet peer ends

AllServices ==
  {"ftp", "pop3", "imap", "smtp", "telnet", "ssh", "redis", "mysql", "postgres",
   "mssql", "mongodb", "mqtt", "adb", "ldap", "socks", "squid", "rsync", "vnc",
   "sip-tcp", "http", "clickhouse", "elasticsearch", "docker", "memcached",
   "rdp", "smb", "clickhouse-native", "openvpn-tcp", "pptp", "generic"}

Modes == {"", "always", "random", "random-any", "first-attempt", "never"}

ASSUME DialoguesAssumption ==
  /\ Services \subseteq AllServices
  /\ "" \notin Words
  /\ \A f \in FakeAuths :
       /\ DOMAIN f = {"mode", "reject", "passwords", "users"}
       /\ f.mode \in Modes
       /\ f.reject \cup f.passwords \cup f.users \subseteq Words
  /\ MaxTries \in Nat /\ MaxEvents \in Nat /\ MaxLines \in Nat

VARIABLES
  svc,      \* the service the peer is connected to
  fa,       \* its fakeAuth
  st,       \* the locals of its handler
  agg,      \* how many events of each kind were logged
  tries,    \* how often the peer has tried to get in (history)
  last,     \* the last credentials it tried, and whether they were taken
  cr,       \* telnet: lastCR
  lines     \* telnet: lines the peer has ended (history)

telnetVars == <<cr, lines>>
dlVars == <<svc, fa, st, agg, tries, last, telnetVars>>

Text == Words \cup {""}

\* shouldAccept; what is left to chance may go either way.
ByMode(u) ==
  LET listed == fa.users = {} \/ u \in fa.users
  IN CASE fa.mode \in {"always", "first-attempt"} -> {listed}
       [] fa.mode = "never"       -> {FALSE}
       [] fa.mode = "random-any"  -> BOOLEAN
       [] OTHER                   -> {FALSE, listed}

ListFirst(u, p) ==                     \* mutant: passwords before names
  IF p \in fa.passwords THEN {TRUE}
  ELSE IF u \in fa.reject THEN {FALSE} ELSE ByMode(u)

ShouldAccept(u, p) ==
  IF u \in fa.reject THEN {FALSE}
  ELSE IF p \in fa.passwords THEN {TRUE} ELSE ByMode(u)

-----------------------------------------------------------------------------
\* What Log and computeStats make of the events of a step.

One(b) == IF b THEN 1 ELSE 0

Kinds == {"auth_attempt", "login_attempt", "auth_success", "command",
          "relay_attempt", "mail_relay"}

Log(types) ==
  /\ agg' = [k \in DOMAIN agg |->
               agg[k] + One(IF k = "command" THEN types \cap {"command", "exec"} # {}
                                             ELSE k \in types)]
  /\ \A k \in DOMAIN agg \ {"auth_attempt", "login_attempt", "auth_success"} :
       agg'[k] <= MaxEvents

NaiveAttempts(a) ==                    \* mutant: an SSH success counts twice
  a["auth_attempt"] + a["login_attempt"] + a["auth_success"]

Attempts(a) ==
  a["auth_attempt"] + a["login_attempt"]
    + (IF a["auth_attempt"] = 0 THEN a["auth_success"] ELSE 0)

Rejected(a) ==
  LET n == Attempts(a) - a["auth_success"] IN IF n < 0 THEN 0 ELSE n

-----------------------------------------------------------------------------
\* The steps of a dialogue.

On(service) == svc = service /\ st.stage # "closed"

At(service, stage) == svc = service /\ st.stage = stage

Keep   == st' = st
Hangup == st' = [st EXCEPT !.stage = "closed"]

Saw(types) == Log(types) /\ UNCHANGED <<svc, fa, tries, last>>

\* The peer tries to get in; ok is what shouldAccept says, if it is asked.
Attempt(types, u, p, ok) ==
  /\ tries < MaxTries
  /\ tries' = tries + 1
  /\ Log(types)
  /\ last' = [user |-> u, pass |-> p, ok |-> ok]
  /\ UNCHANGED <<svc, fa>>

\* SSH logs every attempt, and a success on top of it.
Verdict(ok) ==
  CASE svc = "ssh" -> IF ok THEN {"auth_attempt", "auth_success"} ELSE {"auth_attempt"}
    [] OTHER       -> {IF ok THEN "auth_success" ELSE "login_attempt"}

Credentials == Text \X Text

\* A pair that is judged, and what the handler does with the answer.
Judged(types, pairs, Reply(_, _)) ==
  \E c \in pairs : \E ok \in ShouldAccept(c[1], c[2]) :
    Attempt(types \cup Verdict(ok), c[1], c[2], ok) /\ Reply(c[1], ok)

Stay(u, ok) == Keep

\* A pair that is recorded and refused unseen.
Recorded(types, pairs) ==
  \E c \in pairs : Attempt(types \cup {"login_attempt"}, c[1], c[2], FALSE)

GivesSome == Credentials \ {<<"", "">>}
GivesName == Words \X Text

-----------------------------------------------------------------------------
\* Line protocols that take the name in one command and the password in another.

FtpPass(u, ok) == st' = [st EXCEPT !.in = @ \/ ok]

Ftp ==
  /\ On("ftp")
  /\ \/ \E u \in Text : st' = [st EXCEPT !.user = u] /\ Saw({"command"})
     \/ Judged({"command"}, {st.user} \X Text, FtpPass)
     \/ (Keep \/ Hangup) /\ Saw({"command"})

\* An APOP digest is never taken, and leaves what an earlier PASS got.
Pop3Pass(u, ok) == st' = [st EXCEPT !.in = ok]

Pop3 ==
  /\ On("pop3")
  /\ \/ \E u \in Text : st' = [st EXCEPT !.user = u] /\ Saw({"command"})
     \/ Judged({"command"}, {st.user} \X Text, Pop3Pass)
     \/ \E u \in Text :
          st' = [st EXCEPT !.user = u] /\ Recorded({"command"}, {u} \X Text)
     \/ (Keep \/ Hangup) /\ Saw({"command"})

\* LOGIN, or AUTHENTICATE with a payload that may decode to nothing.
ImapFinish(u, ok) == st' = [st EXCEPT !.user = u]

Imap ==
  /\ On("imap")
  /\ \/ Judged({"command"}, Credentials, ImapFinish)
     \/ (Keep \/ Hangup) /\ Saw({"command"})

-----------------------------------------------------------------------------
\* SMTP: a message is relayed once it has a recipient.

SmtpAuth(u, ok) == st' = [st EXCEPT !.user = u, !.in = ok]

Data == st' = IF st.to THEN [st EXCEPT !.stage = "data"] ELSE st

Dot == st' = [st EXCEPT !.stage = "start", !.to = FALSE]

\* AUTH that cannot be parsed is a line like any other.
SmtpLine ==
  /\ At("smtp", "start")
  /\ \/ Judged({"command"}, Credentials, SmtpAuth)
     \/ st' = [st EXCEPT !.to = TRUE] /\ Saw({"command", "relay_attempt"})
     \/ Data /\ Saw({"command"})
     \/ st' = [st EXCEPT !.to = FALSE] /\ Saw({"command"})          \* RSET
     \/ (Keep \/ Hangup) /\ Saw({"command"})

SmtpData ==
  /\ At("smtp", "data")
  /\ \/ Keep /\ Saw({})
     \/ Dot /\ Saw({"mail_relay"})

-----------------------------------------------------------------------------
\* Telnet: characters, and what a line end does at each stage.

\* Characters and erasures until the line holds w.
Type(w) ==
  /\ On("telnet")
  /\ w # st.buf
  /\ st' = [st EXCEPT !.buf = w]
  /\ cr' = FALSE
  /\ UNCHANGED <<svc, fa, agg, tries, last, lines>>

TooMany == st.n + 1 >= 3

TelnetPass(u, ok) ==
  st' = [st EXCEPT !.n = @ + 1, !.buf = "",
                   !.stage = CASE ok -> "shell"
                               [] ~ok /\ TooMany  -> "closed"
                               [] ~ok /\ ~TooMany -> "start"]

Submit ==
  \/ (At("telnet", "start") \/ At("telnet", "shell")) /\ st.buf = "" /\ Keep /\ Saw({})
  \/ /\ At("telnet", "start") /\ st.buf # ""
     /\ st' = [st EXCEPT !.user = st.buf, !.buf = "", !.stage = "pass"]
     /\ Saw({})
  \/ At("telnet", "pass") /\ Judged({}, {<<st.user, st.buf>>}, TelnetPass)
  \/ /\ At("telnet", "shell") /\ st.buf # ""
     /\ \E stage \in {"shell", "closed"} :
          st' = [st EXCEPT !.buf = "", !.stage = stage]
     /\ Saw({"command"})

\* The peer ends a line with LF, CR or CR LF; lines counts it once.
SecondHalf(c) == c = "LF" /\ cr

LineEndEach(c) ==                      \* mutant: CR LF ends two lines
  /\ On("telnet") /\ lines < MaxLines
  /\ cr' = (c = "CR")
  /\ lines' = lines + (IF SecondHalf(c) THEN 0 ELSE 1)
  /\ Submit

LineEnd(c) ==
  /\ On("telnet") /\ lines < MaxLines
  /\ cr' = (c = "CR")
  /\ IF SecondHalf(c)
     THEN UNCHANGED <<svc, fa, st, agg, tries, last, lines>>
     ELSE Submit /\ lines' = lines + 1

\* NUL and other characters that are thrown away.
Ignored ==
  /\ On("telnet") /\ cr
  /\ cr' = FALSE
  /\ UNCHANGED <<svc, fa, st, agg, tries, last, lines>>

-----------------------------------------------------------------------------
\* SSH: the library calls the handlers; a session needs a yes.

SshPass(u, ok) == st' = [st EXCEPT !.user = u, !.stage = IF ok THEN "shell" ELSE @]

SshPassword ==
  /\ At("ssh", "start")
  /\ Judged({}, Credentials, SshPass)

SshPublicKey ==
  /\ At("ssh", "start")
  /\ \E u \in Text : Attempt({"auth_attempt"}, u, "", FALSE)
  /\ Keep

SshSession ==
  /\ At("ssh", "shell")
  /\ \/ Hangup /\ (Saw({"exec"}) \/ Saw({}))
     \/ (Keep \/ Hangup) /\ Saw({"command"})

-----------------------------------------------------------------------------
\* Databases.

Redis ==
  /\ On("redis")
  /\ \/ Judged({}, Credentials, Stay)
     \/ (Keep \/ Hangup) /\ Saw({"command"})

\* What is judged is "<sha1:...>", which no list of passwords holds.
MysqlReply(u, ok) == IF ok THEN Keep ELSE Hangup

Mysql ==
  /\ On("mysql")
  /\ \/ Judged({}, Text \X {"", "<sha1>"}, MysqlReply)
     \/ Hangup /\ Saw({})              \* more than 8192 bytes

Postgres ==
  /\ On("postgres")
  /\ \/ Keep /\ Saw({})                \* SSLRequest, or an incomplete packet
     \/ Hangup /\ Recorded({}, Text \X {""})
     \/ Hangup /\ Saw({})

NextPacket(limit) ==
  st' = [st EXCEPT !.n = @ + 1, !.stage = IF st.n + 1 = limit THEN "closed" ELSE @]

Mssql ==
  /\ On("mssql")
  /\ \/ NextPacket(5) /\ Saw({"prelogin"})
     \/ NextPacket(5) /\ Saw({"payload"})
     \/ Hangup /\ Recorded({}, Credentials)
     \/ Hangup /\ (Saw({"query"}) \/ Saw({}))

\* saslStart has the name, saslContinue the proof: each is a login_attempt.
Mongodb ==
  /\ On("mongodb")
  /\ NextPacket(8) \/ Hangup           \* an opcode without an answer ends it
  /\ \/ Recorded({}, Words \X {""})
     \/ tries > 0 /\ Saw({"login_attempt"})
     \/ Saw({"command"})

-----------------------------------------------------------------------------
\* Directory, devices, messages, files.

\* An anonymous or SASL bind is an auth_attempt.
Ldap ==
  /\ On("ldap")
  /\ \/ Judged({}, Credentials, Stay)
     \/ \E u \in Text : Keep /\ Attempt({"auth_attempt"}, u, "", FALSE)
     \/ (Keep \/ Hangup) /\ (Saw({"query"}) \/ Saw({"payload"}))

Mqtt ==
  /\ On("mqtt")
  /\ \/ NextPacket(64) /\ Recorded({}, Credentials)
     \/ NextPacket(64) /\ Saw({"publish"})
     \/ Hangup /\ Saw({})

\* Whatever key is offered, the device claims to be open.
Adb ==
  /\ On("adb")
  /\ Keep
  /\ \/ Attempt({"auth_attempt"}, "", "", FALSE)
     \/ Saw({"exec"}) \/ Saw({"command"}) \/ Saw({"client_hello"}) \/ Saw({"payload"})

\* One module request per connection; a module that is named is challenged.
Rsync ==
  \/ /\ At("rsync", "start")
     /\ st' = [st EXCEPT !.stage = "hello"] /\ Saw({"client_version"})
  \/ /\ At("rsync", "hello")
     /\ st' = [st EXCEPT !.stage = "challenged"] \/ Hangup
     /\ Saw({"command"})
  \/ At("rsync", "challenged") /\ Hangup /\ Recorded({}, Credentials)

Vnc ==
  \/ /\ At("vnc", "start")
     /\ st' = [st EXCEPT !.stage = "challenged"] \/ Hangup
     /\ Saw({"client_version"})
  \/ At("vnc", "challenged") /\ Hangup /\ Attempt({"auth_attempt"}, "", "", FALSE)

SipTcp ==
  /\ On("sip-tcp")
  /\ \/ Keep /\ Recorded({}, GivesName)                   \* REGISTER
     \/ Keep /\ Saw({"request"})
     \/ Hangup /\ Saw({"payload"})

-----------------------------------------------------------------------------
\* Proxies.

Socks == At("socks", "start") /\ Hangup /\ (Saw({"payload"}) \/ Saw({}))

\* SOCKS 4 has no password; neither version is connected to anything.
Socks4 == At("socks", "start") /\ Hangup /\ Saw({"proxy_connect"})

Socks5Reply(u, ok) == st' = [st EXCEPT !.stage = IF ok THEN "request" ELSE "closed"]

Socks5 ==
  \/ At("socks", "start") /\ Judged({"client_hello"}, Credentials, Socks5Reply)
  \/ /\ At("socks", "start")           \* no password method, or half of one
     /\ st' = [st EXCEPT !.stage = "request"] \/ Hangup
     /\ Saw({"client_hello"})
  \/ At("socks", "request") /\ Hangup /\ (Saw({"proxy_connect"}) \/ Saw({}))

\* Proxy credentials are a login_attempt only with a URL asked for in full
\* (or CONNECT), not with a relative path or an unknown method.
Squid ==
  /\ On("squid")
  /\ \/ Keep /\ Saw({})                \* an empty line
     \/ Hangup /\ Recorded({"proxy_request"}, GivesSome)
     \/ /\ Hangup
        /\ \E c \in GivesSome, type \in {"request", "payload"} :
             Attempt({type}, c[1], c[2], FALSE)
     \/ /\ Hangup
        /\ Saw({"proxy_request"}) \/ Saw({"request"}) \/ Saw({"payload"}) \/ Saw({})

-----------------------------------------------------------------------------
\* HTTP, a request at a time.

\* A login form or an Authorization header with a name in it.
Http ==
  /\ On("http")
  /\ Judged({}, GivesName, Stay) \/ (Keep /\ Saw({"request"}))

ClickHouseHttp ==
  /\ On("clickhouse")
  /\ Keep
  /\ Recorded({}, GivesSome) \/ Saw({"query"}) \/ Saw({"request"})

Elasticsearch ==
  /\ On("elasticsearch")
  /\ Keep
  /\ Recorded({}, GivesSome) \/ Saw({"query"}) \/ Saw({"request"})

\* A request that changes something is a command, credentials or not.
Docker ==
  /\ On("docker")
  /\ Keep
  /\ \/ Recorded({}, GivesSome)
     \/ \E c \in GivesSome : Attempt({"command"}, c[1], c[2], FALSE)
     \/ Saw({"command"}) \/ Saw({"request"})

-----------------------------------------------------------------------------
\* Services that only record.

Memcached ==
  /\ On("memcached")
  /\ \/ Keep /\ (Saw({}) \/ Saw({"command"}) \/ Saw({"command", "payload"}))
     \/ Hangup /\ Saw({"command"})

\* Up to the bytes to capture, or the deadline.
Generic ==
  /\ On("generic")
  /\ \/ (Keep \/ Hangup) /\ Saw({"payload"})
     \/ Hangup /\ (Saw({"connection_closed"}) \/ Saw({}))

Rdp              == On("rdp") /\ Keep /\ Saw({"payload"})
Smb              == On("smb") /\ Hangup /\ Saw({"payload"})
ClickHouseNative == On("clickhouse-native") /\ Hangup /\ Saw({"client_hello"})

\* Packet by packet, until a length is out of range.
OpenVpnTcp ==
  On("openvpn-tcp") /\ ((Keep /\ Saw({"client_hello"})) \/ (Hangup /\ Saw({})))

Pptp == On("pptp") /\ ((Keep /\ Saw({"client_hello"})) \/ (Hangup /\ Saw({})))

-----------------------------------------------------------------------------
DialoguesInit ==
  /\ svc \in Services /\ fa \in FakeAuths
  /\ st = [stage |-> "start", user |-> "", in |-> FALSE, to |-> FALSE, buf |-> "", n |-> 0]
  /\ agg = [k \in Kinds |-> 0]
  /\ tries = 0
  /\ last = [user |-> "", pass |-> "", ok |-> FALSE]
  /\ cr = FALSE /\ lines = 0

Dialogue ==
  \/ Ftp \/ Pop3 \/ Imap \/ SmtpLine \/ SmtpData
  \/ SshPassword \/ SshPublicKey \/ SshSession
  \/ Redis \/ Mysql \/ Postgres \/ Mssql \/ Mongodb
  \/ Ldap \/ Mqtt \/ Adb \/ Rsync \/ Vnc \/ SipTcp
  \/ Socks \/ Socks4 \/ Socks5 \/ Squid
  \/ Http \/ ClickHouseHttp \/ Elasticsearch \/ Docker
  \/ Memcached \/ Generic \/ Rdp \/ Smb \/ ClickHouseNative
  \/ OpenVpnTcp \/ Pptp

DialoguesNext ==
  \/ Dialogue /\ UNCHANGED telnetVars
  \/ \E w \in Text : Type(w)
  \/ \E c \in {"CR", "LF"} : LineEnd(c)
  \/ Ignored

DialoguesSpec == DialoguesInit /\ [][DialoguesNext]_dlVars

-----------------------------------------------------------------------------
(***************************************************************************)
(* The statistics agree with the peer: as many attempts as it made, all    *)
(* but the accepted ones rejected, though SSH logs a success on top of its *)
(* attempt and the other services instead of it.  Not for the four whose   *)
(* events do not tell: LDAP logs both kinds, a MongoDB login counts twice, *)
(* and Docker and Squid log some credentials without an attempt.           *)
(***************************************************************************)
AttemptsAreTries ==
  svc \notin {"ldap", "mongodb", "docker", "squid"} =>
    Attempts(agg) = tries /\ Rejected(agg) = tries - agg["auth_success"]

(***************************************************************************)
(* Whoever has a telnet or SSH shell, or is logged in for SMTP, has that   *)
(* name from the line its password came after; the reject list never lets  *)
(* the name in, and mode "never" only with a listed password.              *)
(***************************************************************************)
HasShell == st.stage = "shell" \/ (svc = "smtp" /\ st.in)

InsidersAreAllowed ==
  HasShell =>
    /\ last.ok /\ last.user = st.user
    /\ st.user \notin fa.reject
    /\ fa.mode = "never" => last.pass \in fa.passwords

(***************************************************************************)
(* telnet.go: "Clients send CR LF; without this the LF submits a second,   *)
(* empty line and (with fake auth on) logs the peer straight in."  A guess *)
(* takes two lines, and the third that fails is the last.                  *)
(***************************************************************************)
TelnetGuesses ==
  svc = "telnet" =>
    /\ 2 * tries <= lines
    /\ agg["login_attempt"] <= 3
    /\ agg["login_attempt"] = 3 => st.stage = "closed" \/ agg["auth_success"] = 1

=============================================================================
