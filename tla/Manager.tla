------------------------------ MODULE Manager ------------------------------
(***************************************************************************)
(* The listener manager of the Go daemon (internal/manager) and the two    *)
(* front doors that change its configuration (update_config on the         *)
(* WebSocket, PUT /v1/config): Set writes the configuration, Get reads it  *)
(* back, and Sync reconciles the listeners with what Get returned.         *)
(*                                                                         *)
(* Sync holds Manager.mu throughout, but ranges over Go maps: the order in *)
(* which it takes the services is a choice.  Of a service's configuration  *)
(* only the port matters here; a service that is disabled, or missing from *)
(* the file, is Off.  All services listen with the same protocol, so that  *)
(* two of them cannot share a port.                                        *)
(***************************************************************************)
EXTENDS Integers, FiniteSets, Functions

CONSTANTS
  Services,   \* names in config.json
  Ports,      \* ports they may be given
  Contested,  \* those of the ports that other programs may hold
  Requests,   \* goroutines that serve a configuration change
  Off

ASSUME ManagerAssumption ==
  /\ IsFiniteSet(Services) /\ IsFiniteSet(Requests)
  /\ Contested \subseteq Ports
  /\ Off \notin Ports

Main   == "main"   \* the goroutine of main: the first Sync, and StopAll
Actors == Requests \cup {Main}

Configs == [Services -> Ports \cup {Off}]
AllOff  == [s \in Services |-> Off]

VARIABLES
  current,   \* config.current
  running,   \* Manager.running: the port each running service is bound to
  status,    \* Manager.status: "stopped", "running" or "error"
  foreign,   \* ports that other programs hold
  at,        \* where each actor is
  arg,       \* the configuration it read
  todo,      \* services the loop of the running Sync has still to visit
  last,      \* the configuration of the last Sync that ended (history)
  failure    \* how starts failed since the last Sync began (history)

managerVars ==
  <<current, running, status, foreign, at, arg, todo, last, failure>>

\* "taken": another listener or program held the port.  "broken": the port
\* was free, and the factory or Start failed nevertheless.
Failures  == {"none", "taken", "broken"}
NoFailure == [s \in Services |-> "none"]

\* "set": config.Set returned.  "got": about to take Manager.mu.
\* "stopping", "starting": in the first, the second loop of Sync.  main is
\* "ended" after its Sync and "down" after StopAll; requests may outlive it.
Places == {"idle", "set", "got", "stopping", "starting", "ended", "down"}

Locked == \E a \in Actors : at[a] \in {"stopping", "starting"}

Up == DOMAIN running

Wanted(cfg) == {s \in Services : cfg[s] # Off}

ManagerInit ==
  /\ current \in Configs
  /\ running = <<>>
  /\ status = [s \in Services |-> "stopped"]
  /\ foreign \in SUBSET Contested
  /\ at = [a \in Actors |-> IF a = Main THEN "got" ELSE "idle"]
  /\ arg = [a \in Actors |-> IF a = Main THEN current ELSE AllOff]
  /\ todo = {}
  /\ last = AllOff
  /\ failure = NoFailure

-----------------------------------------------------------------------------
\* The request: config.Set, then s.sync(config.Get()).

Set(r, cfg) ==                         \* the API starts after main's Sync
  /\ at[r] = "idle"
  /\ at[Main] \in {"ended", "down"}
  /\ current' = cfg
  /\ at' = [at EXCEPT ![r] = "set"]
  /\ UNCHANGED <<running, status, foreign, arg, todo, last, failure>>

Get(r) ==
  /\ at[r] = "set"
  /\ arg' = [arg EXCEPT ![r] = current]
  /\ at' = [at EXCEPT ![r] = "got"]
  /\ UNCHANGED <<current, running, status, foreign, todo, last, failure>>

-----------------------------------------------------------------------------
\* Sync(arg[a]) by actor a.

Lock(a) ==
  /\ at[a] = "got"
  /\ ~Locked
  /\ at' = [at EXCEPT ![a] = "stopping"]
  /\ todo' = Up
  /\ failure' = NoFailure
  /\ UNCHANGED <<current, running, status, foreign, arg, last>>

\* stopLocked.
StopSilently(s) ==                     \* mutant: the status stays
  /\ running' = Restrict(running, Up \ {s})
  /\ UNCHANGED status

Stop(s) ==
  /\ running' = Restrict(running, Up \ {s})
  /\ status' = [status EXCEPT ![s] = "stopped"]

\* startLocked at port p, while the listeners up hold their ports.
Held(p, up) == p \in foreign \cup Range(up)

Bound(s, p, up) ==
  /\ ~Held(p, up)
  /\ running' = [t \in DOMAIN up \cup {s} |-> IF t = s THEN p ELSE up[t]]
  /\ status' = [status EXCEPT ![s] = "running"]
  /\ UNCHANGED failure

\* The factory fails, or Start does: a directory or host key that cannot be
\* made, a port that is invalid, privileged or taken, no file descriptor.
StartFails(s, p, up) ==
  /\ running' = up
  /\ status' = [status EXCEPT ![s] = "error"]
  /\ failure' = [failure EXCEPT ![s] = IF Held(p, up) THEN "taken" ELSE "broken"]

TryStart(s, p, up) == Bound(s, p, up) \/ StartFails(s, p, up)

StopUnwanted(a, s) ==
  /\ at[a] = "stopping"
  /\ s \in todo
  /\ todo' = todo \ {s}
  /\ IF arg[a][s] = Off THEN Stop(s) ELSE UNCHANGED <<running, status>>
  /\ UNCHANGED <<current, foreign, at, arg, last, failure>>

SecondLoop(a) ==
  /\ at[a] = "stopping"
  /\ todo = {}
  /\ at' = [at EXCEPT ![a] = "starting"]
  /\ todo' = Wanted(arg[a])
  /\ UNCHANGED <<current, running, status, foreign, arg, last, failure>>

\* Start what does not run; stop and start what runs on another port.
PortChangeIgnored(a, s) ==             \* mutant: UpdateConfig whatever the port
  /\ at[a] = "starting"
  /\ s \in todo
  /\ todo' = todo \ {s}
  /\ IF s \in Up
     THEN UNCHANGED <<running, status, failure>>
     ELSE TryStart(s, arg[a][s], running)
  /\ UNCHANGED <<current, foreign, at, arg, last>>

FailedForGood(a, s) ==                 \* mutant: an error is not tried again
  /\ at[a] = "starting"
  /\ s \in todo
  /\ todo' = todo \ {s}
  /\ IF status[s] = "error" \/ (s \in Up /\ running[s] = arg[a][s])
     THEN UNCHANGED <<running, status, failure>>
     ELSE TryStart(s, arg[a][s], Restrict(running, Up \ {s}))
  /\ UNCHANGED <<current, foreign, at, arg, last>>

UntilBound(a, s) ==                    \* mutant: a failed bind is retried
  /\ at[a] = "starting"
  /\ s \in todo
  /\ IF s \in Up /\ running[s] = arg[a][s]
     THEN UNCHANGED <<running, status, failure>>
     ELSE TryStart(s, arg[a][s], Restrict(running, Up \ {s}))
  /\ todo' = IF status'[s] = "error" THEN todo ELSE todo \ {s}
  /\ UNCHANGED <<current, foreign, at, arg, last>>

StartWanted(a, s) ==
  /\ at[a] = "starting"
  /\ s \in todo
  /\ todo' = todo \ {s}
  /\ IF s \in Up /\ running[s] = arg[a][s]
     THEN UNCHANGED <<running, status, failure>>
     ELSE TryStart(s, arg[a][s], Restrict(running, Up \ {s}))
  /\ UNCHANGED <<current, foreign, at, arg, last>>

Unlock(a) ==
  /\ at[a] = "starting"
  /\ todo = {}
  /\ at' = [at EXCEPT ![a] = IF a = Main THEN "ended" ELSE "idle"]
  /\ arg' = [arg EXCEPT ![a] = AllOff]
  /\ last' = arg[a]
  /\ UNCHANGED <<current, running, status, foreign, todo, failure>>

\* Manager.StopAll, deferred by main: the first loop, with nothing wanted.
StopAll ==
  /\ at[Main] = "ended"
  /\ ~Locked
  /\ at' = [at EXCEPT ![Main] = "down"]
  /\ running' = <<>>
  /\ status' = [s \in Services |-> IF s \in Up THEN "stopped" ELSE status[s]]
  /\ last' = AllOff
  /\ UNCHANGED <<current, foreign, arg, todo, failure>>

\* Another program takes or releases a port.
ForeignMoves ==
  /\ \E p \in Contested \ Range(running) :
       foreign' = IF p \in foreign THEN foreign \ {p} ELSE foreign \cup {p}
  /\ UNCHANGED <<current, running, status, at, arg, todo, last, failure>>

SyncStep(a) ==
  \/ SecondLoop(a)
  \/ Unlock(a)
  \/ \E s \in Services : StopUnwanted(a, s) \/ StartWanted(a, s)

ManagerNext ==
  \/ \E r \in Requests : Get(r) \/ \E cfg \in Configs : Set(r, cfg)
  \/ \E a \in Actors : Lock(a) \/ SyncStep(a)
  \/ StopAll
  \/ ForeignMoves

ManagerSpec == ManagerInit /\ [][ManagerNext]_managerVars

\* Stop waits for its handlers no longer than their deadline, so a Sync goes
\* on; and a sync.Mutex hands itself to a waiter that was passed by.
FairManager ==
  /\ ManagerSpec
  /\ \A a \in Actors : WF_managerVars(SyncStep(a)) /\ SF_managerVars(Lock(a))
  /\ \A r \in Requests : WF_managerVars(Get(r))

-----------------------------------------------------------------------------
\* Types; at most one Sync runs, and only it has services left to visit.
ManagerTypeOK ==
  /\ current \in Configs
  /\ running \in [Up -> Ports] /\ Up \subseteq Services
  /\ status \in [Services -> {"stopped", "running", "error"}]
  /\ foreign \subseteq Contested
  /\ at \in [Actors -> Places]
  /\ arg \in [Actors -> Configs]
  /\ todo \subseteq Services
  /\ last \in Configs
  /\ failure \in [Services -> Failures]
  /\ Cardinality({a \in Actors : at[a] \in {"stopping", "starting"}}) <= 1
  /\ todo # {} => Locked

(***************************************************************************)
(* The Services tab shows as running what runs, also after a failed        *)
(* restart on another port; and no two listeners, nor a listener and       *)
(* another program, are taken to be bound to the same port.                *)
(***************************************************************************)
StatusIsTrue ==
  /\ \A s \in Services : status[s] = "running" <=> s \in Up
  /\ \A s, t \in Up : running[s] = running[t] => s = t
  /\ Range(running) \cap foreign = {}

(***************************************************************************)
(* When a Sync returns, every listener is one its configuration wants, on  *)
(* the port it wants, and a service that is wanted and does not run failed *)
(* to start in this Sync and is reported with an error.                    *)
(***************************************************************************)
SyncEnforces ==
  [][\A a \in Actors : Unlock(a) =>
       \A s \in Services :
         /\ s \in Up => running[s] = arg[a][s]
         /\ s \in Wanted(arg[a]) \ Up =>
              status[s] = "error" /\ failure[s] # "none"]_managerVars

(***************************************************************************)
(* Requests, lock, loops and map order are nothing but a way to keep what  *)
(* Listeners promises: the manager implements it, with the configuration   *)
(* of the Sync under way as its goal.                                      *)
(***************************************************************************)
Promise == INSTANCE Listeners WITH
  up      <- running,
  refused <- {s \in Services : failure[s] = "taken"},
  broken  <- {s \in Services : failure[s] = "broken"},
  goal    <- {arg[a] : a \in {b \in Actors : at[b] \in {"stopping", "starting"}}}

ListenersPromise == Promise!ListenersSpec

\* No other service wants the port of s.
Unshared(cfg, s) == \A t \in Services : cfg[t] = cfg[s] => t = s

(***************************************************************************)
(* A second Sync of the same configuration settles what the order of the   *)
(* first one broke: whatever wants a port that no other service wants and  *)
(* no other program uses runs, unless its start failed in this very Sync   *)
(* for a cause that has nothing to do with the port.                       *)
(***************************************************************************)
SecondSyncSettles ==
  [][\A a \in Actors : Unlock(a) /\ arg[a] = last =>
       \A s \in Wanted(arg[a]) :
         arg[a][s] \notin Contested /\ Unshared(arg[a], s) =>
           s \in Up \/ failure[s] = "broken"
    ]_managerVars

(***************************************************************************)
(* Every request that changed the configuration gets through its Sync,     *)
(* however many others compete for the manager.                            *)
(***************************************************************************)
RequestsReturn == \A r \in Requests : at[r] = "set" ~> at[r] = "idle"

=============================================================================
