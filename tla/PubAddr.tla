------------------------------ MODULE PubAddr ------------------------------
(***************************************************************************)
(* Where the honeypot is: the tracker that polls the public address of its *)
(* host (internal/pubaddr), the dynamic DNS provider and the beacon it     *)
(* tells, and a dashboard that lost its connection and asks the beacon.    *)
(*                                                                         *)
(* One goroutine polls; between its steps the host may get another address *)
(* and the daemon may crash.  The beacon is enabled.  The dashboard speaks *)
(* to the daemon by address, without a proxy or a relay.                   *)
(***************************************************************************)
EXTENDS Integers, Sequences

CONSTANTS
  Addresses,
  None,        \* no address, no document, no identity
  MaxHistory,  \* changes that are kept (200)
  Topics,      \* identities the beacon can draw
  MaxMoves,    \* bound: changes of the host's address
  MaxFaults    \* bound: everything else that goes wrong

ASSUME PubAddrAssumption ==
  /\ None \notin Addresses \cup Topics
  /\ MaxHistory \in Nat \ {0} /\ MaxMoves \in Nat /\ MaxFaults \in Nat

Change    == [from : Addresses \cup {None}, to : Addresses]

VARIABLES
  actual,      \* the address of the host
  provider,    \* "http", or "none": no update URL, or a wildcard name
  at,          \* the next step of checkOnce
  ip,          \* Tracker.ip
  previous,    \* its value before this check (between two checks: as ip)
  history,     \* Tracker.history
  file,        \* ip-history.json
  dns,         \* the address the registered name resolves to
  recent,      \* Tracker.lastUpdate is less than a minute ago
  topic,       \* the identity of the beacon
  identity,    \* beacon.json
  doc,         \* doc[t]: the address in the document retained at topic t
  host,        \* the address the dashboard connects to
  locator,     \* the topic it reads
  keyed,       \* it holds the auth key of this run
  connected, attempts,
  moves, faults

tracker   == <<provider, at, ip, previous, history, file, recent>>
beacon    == <<topic, identity, doc>>
dashboard == <<host, locator, keyed, connected, attempts>>
bounds    == <<moves, faults>>
pubVars   == <<actual, tracker, dns, beacon, dashboard, bounds>>

LastIP(h) == IF h = <<>> THEN None ELSE h[Len(h)].to

\* A first run, and an operator who connects once it runs.
PubInit ==
  /\ actual \in Addresses
  /\ provider \in {"none", "http"}
  /\ at = "idle" /\ ip = None /\ previous = None
  /\ history = <<>> /\ file = <<>>
  /\ dns = None /\ recent = FALSE
  /\ topic \in Topics /\ identity \in {topic, None}
  /\ doc = [t \in Topics |-> None]
  /\ host = actual /\ locator = topic
  /\ keyed = TRUE /\ connected = TRUE /\ attempts = 0
  /\ moves = 0 /\ faults = 0

Fault == faults < MaxFaults /\ faults' = faults + 1 /\ UNCHANGED moves

-----------------------------------------------------------------------------
\* checkOnce.

\* The first echo service that answers decides; all of them failing is logged
\* and changes nothing.
DetectFirst ==                         \* mutant: the ticker is not read
  /\ at = "idle"
  /\ ip = None
  /\ previous' = ip
  /\ ip' = actual
  /\ at' = "push"
  /\ UNCHANGED <<actual, provider, history, file, recent, dns, beacon,
                 dashboard, bounds>>

Detect ==
  /\ at = "idle"
  /\ previous' = ip
  /\ ip' = actual
  /\ at' = "push"
  /\ UNCHANGED <<actual, provider, history, file, recent, dns, beacon,
                 dashboard, bounds>>

DetectFails ==
  /\ at = "idle"
  /\ Fault
  /\ UNCHANGED <<actual, provider, at, ip, previous, history, file, recent, dns, beacon,
                 dashboard>>

Changed == ip # previous

\* A wildcard name needs no update; without a URL there is none.  A refresh is
\* skipped within a minute of the last "ok", a change never is.
Update(status) ==
  /\ at = "push"
  /\ at' = "publish"
  /\ recent' = (recent \/ status = "ok")
  /\ UNCHANGED <<actual, provider, ip, previous, history, file, beacon, dashboard>>

DueOnChange == Changed                 \* mutant: an unchanged address is not sent
Due         == Changed \/ ~recent

NoUpdate ==
  /\ provider # "http" \/ ~Due
  /\ Update("skipped")
  /\ UNCHANGED <<dns, bounds>>

Accepted ==
  /\ provider = "http"
  /\ Due
  /\ \E status \in {"ok", "nochg"} : Update(status)
  /\ dns' = ip
  /\ UNCHANGED bounds

\* 429, 401, another status, no answer, or a 2xx that says something else.
Refused ==
  /\ provider = "http"
  /\ Due
  /\ Update("refused")
  /\ Fault
  /\ UNCHANGED dns

MinutePasses ==
  /\ recent
  /\ recent' = FALSE
  /\ UNCHANGED <<actual, provider, at, ip, previous, history, file, dns, beacon,
                 dashboard, bounds>>

AfterPublish == IF Changed THEN "record" ELSE "idle"

\* The beacon is told at every check.
PublishChangeOnly ==                   \* mutant: only what changed
  /\ at = "publish"
  /\ at' = AfterPublish
  /\ doc' = IF Changed THEN [doc EXCEPT ![topic] = ip] ELSE doc
  /\ UNCHANGED <<actual, provider, ip, previous, history, file, recent, dns,
                 topic, identity, dashboard, bounds>>

Publish ==
  /\ at = "publish"
  /\ at' = AfterPublish
  /\ doc' = [doc EXCEPT ![topic] = ip]
  /\ UNCHANGED <<actual, provider, ip, previous, history, file, recent, dns,
                 topic, identity, dashboard, bounds>>

PublishFails ==
  /\ at = "publish"
  /\ at' = AfterPublish
  /\ Fault
  /\ UNCHANGED <<actual, provider, ip, previous, history, file, recent, dns,
                 beacon, dashboard>>

\* The retention of the topic (12 h) runs out.
DocumentExpires(t) ==
  /\ doc[t] # None
  /\ doc' = [doc EXCEPT ![t] = None]
  /\ Fault
  /\ UNCHANGED <<actual, tracker, dns, topic, identity, dashboard>>

\* recordChange: append, keep the last MaxHistory, save.
Trim(h) == IF Len(h) > MaxHistory
           THEN SubSeq(h, Len(h) - MaxHistory + 1, Len(h)) ELSE h

Record ==
  /\ at = "record"
  /\ history' = Trim(Append(history, [from |-> previous, to |-> ip]))
  /\ at' = "save"
  /\ UNCHANGED <<actual, provider, ip, previous, file, recent, dns, beacon,
                 dashboard, bounds>>

Save ==
  /\ at = "save"
  /\ at' = "idle" /\ previous' = ip
  /\ file' = history
  /\ UNCHANGED <<actual, provider, ip, history, recent, dns, beacon,
                 dashboard, bounds>>

SaveFails ==
  /\ at = "save"
  /\ at' = "idle" /\ previous' = ip
  /\ Fault
  /\ UNCHANGED <<actual, provider, ip, history, file, recent, dns,
                 beacon, dashboard>>

-----------------------------------------------------------------------------
\* The next run: loadHistory, and the identity of the beacon, saved or new.

ResumeUnknown(h) == None               \* mutant: the last address is not resumed
Resume(h)        == LastIP(h)

Boot(saved) ==
  /\ at' = "idle" /\ recent' = FALSE
  /\ history' = saved /\ file' = saved
  /\ ip' = Resume(saved) /\ previous' = Resume(saved)
  /\ IF identity # None
     THEN UNCHANGED <<topic, identity>>
     ELSE topic' \in Topics /\ identity' \in {topic', None}
  /\ connected' = FALSE
  /\ keyed' = FALSE                    \* the auth key is drawn anew at every start
  /\ UNCHANGED <<actual, provider, dns, doc, host, locator, attempts>>

\* Close waits for the check that runs, and saves.
Restart == at = "idle" /\ Boot(history) /\ UNCHANGED bounds
Crash   == Boot(file) /\ Fault

\* The host gets another address.
Move(a) ==
  /\ moves < MaxMoves
  /\ a # actual
  /\ actual' = a
  /\ connected' = FALSE
  /\ moves' = moves + 1
  /\ UNCHANGED <<tracker, dns, beacon, host, locator, keyed, attempts, faults>>

-----------------------------------------------------------------------------
\* The dashboard: reconnects, from the second attempt on where the beacon says,
\* if it has a document; connected, it learns the locator.

FollowBeacon == IF attempts >= 1 /\ doc[locator] # None THEN doc[locator] ELSE host

Reconnect ==
  /\ ~connected
  /\ host' = FollowBeacon
  /\ connected' = (host' = actual /\ keyed)
  /\ attempts' = IF connected' THEN 0 ELSE IF attempts < 2 THEN attempts + 1 ELSE 2
  /\ locator' = IF connected' THEN topic ELSE locator
  /\ UNCHANGED <<actual, tracker, dns, beacon, keyed, bounds>>

\* The operator types the new auth key.
EnterKey ==
  /\ ~keyed
  /\ keyed' = TRUE
  /\ UNCHANGED <<actual, tracker, dns, beacon, host, locator, connected, attempts,
                 bounds>>

Check == Detect \/ NoUpdate \/ Accepted \/ Publish \/ Record \/ Save

PubNext ==
  \/ Check \/ DetectFails \/ Refused \/ PublishFails \/ SaveFails \/ MinutePasses
  \/ \E t \in Topics : DocumentExpires(t)
  \/ Restart \/ Crash
  \/ \E a \in Addresses : Move(a)
  \/ Reconnect \/ EnterKey

\* The ticker ticks and every HTTP call ends; minutes pass; the dashboard's timer
\* fires.  Moves and faults come to an end by their bounds.
PubFairness ==
  /\ WF_pubVars(Check \/ DetectFails \/ Refused \/ PublishFails \/ SaveFails)
  /\ WF_pubVars(Detect) /\ WF_pubVars(MinutePasses) /\ WF_pubVars(Reconnect)

PubSpec == PubInit /\ [][PubNext]_pubVars /\ PubFairness

-----------------------------------------------------------------------------
Steps == {"idle", "push", "publish", "record", "save"}

\* Types of the variables; the history is bounded.
PubTypeOK ==
  /\ actual \in Addresses /\ provider \in {"none", "http"}
  /\ at \in Steps
  /\ ip \in Addresses \cup {None} /\ previous \in Addresses \cup {None}
  /\ history \in Seq(Change) /\ Len(history) <= MaxHistory
  /\ file \in Seq(Change) /\ Len(file) <= MaxHistory
  /\ dns \in Addresses \cup {None} /\ recent \in BOOLEAN
  /\ topic \in Topics /\ identity \in {topic, None}
  /\ doc \in [Topics -> Addresses \cup {None}]
  /\ host \in Addresses /\ locator \in Topics
  /\ keyed \in BOOLEAN /\ connected \in BOOLEAN /\ attempts \in 0..2
  /\ moves \in 0..MaxMoves /\ faults \in 0..MaxFaults

Chain(h) ==
  /\ \A n \in 1..Len(h) : h[n].from # h[n].to
  /\ \A n \in 1..Len(h) - 1 : h[n + 1].from = h[n].to

\* The recorded changes lead from address to address without a gap and without
\* an entry that changes nothing, in memory and in the file, whatever crashes,
\* failed saves and trimming came between.
HistoryIsChain == Chain(history) /\ Chain(file)

\* The name at the provider ends up at the address of the host, once that stays
\* and the provider accepts updates: a refused update is sent again, unchanged
\* as the address is.
NameFollows == provider = "http" => <>[](dns = actual)

\* A dashboard that reads the topic in use gets to the address of the host,
\* through lost documents, moves and restarts, unless the identity is lost.
DashboardFindsHost == (locator = topic) ~> (host = actual \/ locator # topic)

\* The address the tracker and the end of its history show is the real one, once
\* that stays.
TrackerFollows == <>[](ip = actual) /\ []<>(LastIP(history) = actual)
=============================================================================
