---------------------------- MODULE ManagerProofs ----------------------------
(***************************************************************************)
(* Proofs about the listener manager, for any services, ports and number   *)
(* of concurrent requests: the types, that the reported status is true,    *)
(* that a Sync enforces its configuration, that a second one settles what  *)
(* the order of the first one broke, and that all of it implements the     *)
(* abstract Listeners.                                                     *)
(***************************************************************************)
EXTENDS Manager, FiniteSetTheorems, TLAPS

Types ==
  /\ current \in Configs
  /\ running \in [Up -> Ports] /\ Up \subseteq Services
  /\ status \in [Services -> {"stopped", "running", "error"}]
  /\ foreign \subseteq Contested
  /\ at \in [Actors -> Places]
  /\ arg \in [Actors -> Configs]
  /\ todo \subseteq Services
  /\ last \in Configs
  /\ failure \in [Services -> Failures]

Syncing(a) == at[a] \in {"stopping", "starting"}

OneSync == \A a, b \in Actors : Syncing(a) /\ Syncing(b) => a = b

TodoOfSync == todo # {} => Locked

\* What the loops of Sync have achieved for the services they have visited.
Stopping ==
  \A a \in Actors : at[a] = "stopping" =>
    /\ todo \subseteq Up
    /\ \A s \in Up : s \notin todo => arg[a][s] # Off

Starting ==
  \A a \in Actors : at[a] = "starting" =>
    \A s \in Services :
      /\ s \in Up \/ s \in todo => arg[a][s] # Off
      /\ s \in Up /\ s \notin todo => running[s] = arg[a][s]
      /\ s \notin Up /\ s \notin todo /\ arg[a][s] # Off =>
           status[s] = "error" /\ failure[s] # "none"

\* No start of a service that is still to visit has failed yet.
Untried ==
  \A a \in Actors :
    /\ at[a] = "stopping" => failure = NoFailure
    /\ at[a] = "starting" => \A s \in todo : failure[s] = "none"

IInv ==
  /\ Types /\ OneSync /\ TodoOfSync /\ StatusIsTrue
  /\ Stopping /\ Starting /\ Untried

-----------------------------------------------------------------------------
(***************************************************************************)
(* The empty function is the one with the empty domain.                    *)
(***************************************************************************)
LEMMA NothingRuns == DOMAIN <<>> = {} /\ <<>> \in [{} -> Ports]
  OBVIOUS

(***************************************************************************)
(* Stop takes one listener away and leaves the others alone.               *)
(***************************************************************************)
LEMMA StopEffect ==
  ASSUME Types, StatusIsTrue, NEW s \in Up, Stop(s)
  PROVE  /\ running' \in [Up' -> Ports] /\ Up' = Up \ {s}
         /\ \A t \in Up' : running'[t] = running[t]
         /\ status' \in [Services -> {"stopped", "running", "error"}]
         /\ \A t \in Services : status'[t] = "running" <=> t \in Up'
         /\ \A t \in Services : t # s => status'[t] = status[t]
<1>1. /\ running' = [t \in Up \ {s} |-> running[t]]
      /\ status' = [status EXCEPT ![s] = "stopped"]
  BY DEF Stop, Restrict
<1>2. /\ Up' = Up \ {s}
      /\ \A t \in Up' : running'[t] = running[t]
  BY <1>1 DEF Up
<1>3. running' \in [Up' -> Ports]
  BY <1>1, <1>2 DEF Types
<1>4. /\ status' \in [Services -> {"stopped", "running", "error"}]
      /\ status'[s] = "stopped"
      /\ \A t \in Services : t # s => status'[t] = status[t]
  BY <1>1 DEF Types
<1>5. \A t \in Services : status'[t] = "running" <=> t \in Up'
  BY <1>2, <1>4 DEF StatusIsTrue
<1> QED
  BY <1>2, <1>3, <1>4, <1>5

(***************************************************************************)
(* A start of s at p, with the old listener of s gone, ends with s down,   *)
(* in error and noted as failed - as refused only if something else holds  *)
(* p, as broken only if nothing does - or with s up at p, which nothing    *)
(* else uses.                                                              *)
(***************************************************************************)
LEMMA TryStartEffect ==
  ASSUME Types, StatusIsTrue, NEW s \in Services, NEW p \in Ports,
         TryStart(s, p, Restrict(running, Up \ {s}))
  PROVE  /\ running' \in [Up' -> Ports] /\ Up' \subseteq Services
         /\ \A t \in Services : t # s => (t \in Up' <=> t \in Up)
         /\ \A t \in Up' : t # s => running'[t] = running[t]
         /\ status' \in [Services -> {"stopped", "running", "error"}]
         /\ \A t \in Services : t # s => status'[t] = status[t]
         /\ failure' \in [Services -> Failures]
         /\ \A t \in Services : t # s => failure'[t] = failure[t]
         /\ \/ /\ s \notin Up' /\ status'[s] = "error"
               /\ \/ failure'[s] = "broken"
                  \/ /\ failure'[s] = "taken"
                     /\ p \in foreign \/ \E t \in Up : t # s /\ running[t] = p
            \/ /\ s \in Up' /\ status'[s] = "running" /\ running'[s] = p
               /\ p \notin foreign
               /\ \A t \in Up' : t # s => running[t] # p
<1> DEFINE up == [t \in Up \ {s} |-> running[t]]
<1>1. up = Restrict(running, Up \ {s})
  BY DEF Restrict
<1>2. /\ DOMAIN up = Up \ {s} /\ up \in [Up \ {s} -> Ports]
      /\ \A t \in Up \ {s} : up[t] = running[t]
  BY DEF Types
<1>3. Up \subseteq Services
  BY DEF Types
<1>4. /\ status \in [Services -> {"stopped", "running", "error"}]
      /\ failure \in [Services -> Failures]
  BY DEF Types
<1> HIDE DEF up
<1>5. CASE StartFails(s, p, up)
  <2>1. /\ running' = up /\ status' = [status EXCEPT ![s] = "error"]
        /\ failure' = [failure EXCEPT ![s] = IF Held(p, up) THEN "taken" ELSE "broken"]
    BY <1>5 DEF StartFails
  <2>2. Up' = Up \ {s}
    BY <2>1, <1>2 DEF Up
  <2>3. Held(p, up) => p \in foreign \/ \E t \in Up : t # s /\ running[t] = p
    BY <1>2 DEF Held, Range
  <2>4. /\ status' \in [Services -> {"stopped", "running", "error"}]
        /\ status'[s] = "error"
        /\ \A t \in Services : t # s => status'[t] = status[t]
    BY <1>4, <2>1
  <2>5. /\ failure' \in [Services -> Failures]
        /\ failure'[s] = IF Held(p, up) THEN "taken" ELSE "broken"
        /\ \A t \in Services : t # s => failure'[t] = failure[t]
    BY <1>4, <2>1 DEF Failures
  <2>6. /\ running' \in [Up' -> Ports] /\ Up' \subseteq Services
        /\ \A t \in Services : t # s => (t \in Up' <=> t \in Up)
        /\ \A t \in Up' : t # s => running'[t] = running[t]
    BY <1>2, <1>3, <2>1, <2>2
  <2> QED
    BY <2>2, <2>3, <2>4, <2>5, <2>6
<1>6. CASE Bound(s, p, up)
  <2>1. /\ running' = [t \in (Up \ {s}) \cup {s} |-> IF t = s THEN p ELSE up[t]]
        /\ status' = [status EXCEPT ![s] = "running"] /\ failure' = failure
        /\ p \notin foreign \cup Range(up)
    BY <1>2, <1>6 DEF Bound, Held
  <2>2. Up' = Up \cup {s}
    BY <2>1 DEF Up
  <2>3. /\ running'[s] = p
        /\ \A t \in Up' : t # s => running'[t] = up[t]
        /\ running' \in [Up' -> Ports]
    BY <2>1, <2>2, <1>2
  <2>4. \A t \in Up' : t # s => running[t] # p
    BY <2>1, <2>2, <1>2 DEF Range
  <2>5. /\ status' \in [Services -> {"stopped", "running", "error"}]
        /\ status'[s] = "running"
        /\ \A t \in Services : t # s => status'[t] = status[t]
    BY <2>1, <1>4
  <2> QED
    BY <2>1, <2>2, <2>3, <2>4, <2>5, <1>2, <1>3, <1>4
<1> QED
  BY <1>1, <1>5, <1>6 DEF TryStart
-----------------------------------------------------------------------------
\* The invariant, one action after the other.

(***************************************************************************)
(* Before main's first Sync nothing runs, and no Sync is under way.        *)
(***************************************************************************)
LEMMA InitIInv == ManagerInit => IInv
<1> SUFFICES ASSUME ManagerInit PROVE IInv
  OBVIOUS
<1>1. Up = {} /\ running \in [Up -> Ports]
  BY NothingRuns DEF ManagerInit, Up
<1>2. AllOff \in Configs
  BY DEF AllOff, Configs
<1>3. Types
  BY <1>1, <1>2 DEF ManagerInit, Types, Places, NoFailure, Failures
<1>4. \A a \in Actors : at[a] \in {"got", "idle"}
  BY DEF ManagerInit
<1>5. OneSync /\ TodoOfSync /\ Stopping /\ Starting /\ Untried
  BY <1>4
     DEF OneSync, TodoOfSync, Stopping, Starting, Untried, Syncing, ManagerInit
<1>6. StatusIsTrue
  BY <1>1 DEF ManagerInit, StatusIsTrue, Range, Up
<1> QED
  BY <1>3, <1>5, <1>6 DEF IInv

(***************************************************************************)
(* A step that leaves the listeners, the loops and the arguments of the    *)
(* running Sync alone preserves what they have achieved.                   *)
(***************************************************************************)
LEMMA Elsewhere ==
  ASSUME IInv, UNCHANGED <<running, status, todo, failure>>,
         NEW a \in Actors,
         at'[a] = at[a] \/ ~Syncing(a),
         at'[a] \notin {"stopping", "starting"} \/ at'[a] = at[a],
         \A b \in Actors : b # a => at'[b] = at[b] /\ arg'[b] = arg[b],
         Syncing(a) => arg'[a] = arg[a]
  PROVE  OneSync' /\ TodoOfSync' /\ Stopping' /\ Starting' /\ Untried'
<1>1. \A b \in Actors :
        at'[b] \in {"stopping", "starting"} => at'[b] = at[b] /\ arg'[b] = arg[b]
  BY DEF Syncing
<1>2. \A b \in Actors : Syncing(b) => at'[b] = at[b]
  BY DEF Syncing
<1>3. Up' = Up
  BY DEF Up
<1>4. OneSync'
  BY <1>1 DEF IInv, OneSync, Syncing
<1>5. TodoOfSync'
  BY <1>2 DEF IInv, TodoOfSync, Locked, Syncing
<1>6. Stopping'
  BY <1>1, <1>3 DEF IInv, Stopping
<1>7. Starting' /\ Untried'
  BY <1>1, <1>3 DEF IInv, Starting, Untried
<1> QED
  BY <1>4, <1>5, <1>6, <1>7

(***************************************************************************)
(* The status stays true when listeners, status and the ports of other     *)
(* programs do not move.                                                   *)
(***************************************************************************)
LEMMA SameStatus ==
  ASSUME StatusIsTrue, UNCHANGED <<running, status, foreign>>
  PROVE  StatusIsTrue'
<1>1. Up' = Up /\ Range(running') = Range(running)
  BY DEF Up
<1> QED
  BY <1>1 DEF StatusIsTrue

(***************************************************************************)
(* A request writes the configuration, and reads it back.                  *)
(***************************************************************************)
LEMMA RequestIInv ==
  ASSUME IInv, NEW r \in Requests,
         Get(r) \/ \E cfg \in Configs : Set(r, cfg)
  PROVE  IInv'
<1>1. r \in Actors
  BY DEF Actors
<1>2. Types
  BY DEF IInv
<1>3. CASE Get(r)
  <2>1. Types'
    BY <1>1, <1>2, <1>3 DEF Get, Types, Up, Places
  <2>2. OneSync' /\ TodoOfSync' /\ Stopping' /\ Starting' /\ Untried'
    <3>1. at[r] = "set" /\ at'[r] = "got"
      BY <1>1, <1>2, <1>3 DEF Get, Types
    <3>2. \A b \in Actors : b # r => at'[b] = at[b] /\ arg'[b] = arg[b]
      BY <1>1, <1>2, <1>3 DEF Get, Types
    <3> QED
      BY <1>1, <1>3, <3>1, <3>2, Elsewhere DEF Get, Syncing
  <2>3. StatusIsTrue'
    BY <1>3, SameStatus DEF Get, IInv
  <2> QED
    BY <2>1, <2>2, <2>3 DEF IInv
<1>4. ASSUME NEW cfg \in Configs, Set(r, cfg) PROVE IInv'
  <2>1. Types'
    BY <1>1, <1>2, <1>4 DEF Set, Types, Up, Places
  <2>2. OneSync' /\ TodoOfSync' /\ Stopping' /\ Starting' /\ Untried'
    <3>1. at[r] = "idle" /\ at'[r] = "set"
      BY <1>1, <1>2, <1>4 DEF Set, Types
    <3>2. \A b \in Actors : b # r => at'[b] = at[b] /\ arg'[b] = arg[b]
      BY <1>1, <1>2, <1>4 DEF Set, Types
    <3> QED
      BY <1>1, <1>4, <3>1, <3>2, Elsewhere DEF Set, Syncing
  <2>3. StatusIsTrue'
    BY <1>4, SameStatus DEF Set, IInv
  <2> QED
    BY <2>1, <2>2, <2>3 DEF IInv
<1> QED
  BY <1>3, <1>4

(***************************************************************************)
(* Sync takes the lock and sets out to visit every listener.               *)
(***************************************************************************)
LEMMA LockIInv ==
  ASSUME IInv, NEW a \in Actors, Lock(a)
  PROVE  IInv'
<1>1. Types /\ ~Locked /\ Up \subseteq Services
  BY DEF IInv, Types, Lock
<1>2. \A b \in Actors : ~Syncing(b)
  BY <1>1 DEF Locked, Syncing
<1>3. /\ at'[a] = "stopping"
      /\ \A b \in Actors : b # a => at'[b] = at[b]
      /\ todo' = Up /\ Up' = Up
  BY <1>1 DEF Lock, Types, Up
<1>4. Types'
  BY <1>1 DEF Lock, Types, Up, Places, NoFailure, Failures
<1>5. OneSync' /\ TodoOfSync'
  BY <1>2, <1>3 DEF OneSync, TodoOfSync, Locked, Syncing
<1>6. Stopping'
  BY <1>3 DEF Stopping
<1>7. Starting' /\ Untried'
  BY <1>2, <1>3 DEF Lock, Starting, Untried, Syncing
<1>8. StatusIsTrue'
  BY SameStatus DEF Lock, IInv
<1> QED
  BY <1>4, <1>5, <1>6, <1>7, <1>8 DEF IInv

(***************************************************************************)
(* The first loop stops a listener that the configuration does not want.   *)
(***************************************************************************)
LEMMA StopUnwantedIInv ==
  ASSUME IInv, NEW a \in Actors, NEW s \in Services, StopUnwanted(a, s)
  PROVE  IInv'
<1>1. /\ Types /\ StatusIsTrue
      /\ at[a] = "stopping" /\ s \in todo /\ todo' = todo \ {s}
      /\ UNCHANGED <<current, foreign, at, arg, last, failure>>
  BY DEF IInv, StopUnwanted
<1>2. \A b \in Actors : Syncing(b) => b = a
  BY <1>1 DEF IInv, OneSync, Syncing
<1>3. OneSync' /\ TodoOfSync'
  BY <1>1 DEF IInv, OneSync, TodoOfSync, Locked, Syncing
<1>4. Starting' /\ Untried'
  BY <1>1, <1>2 DEF IInv, Starting, Untried, Syncing
<1>5. CASE arg[a][s] # Off
  <2>1. UNCHANGED <<running, status>> /\ Up' = Up
    BY <1>5 DEF StopUnwanted, Up
  <2>2. Types'
    BY <1>1, <2>1 DEF Types
  <2>3. StatusIsTrue'
    BY <1>1, <2>1, SameStatus
  <2>4. Stopping'
    BY <1>1, <1>2, <1>5, <2>1 DEF IInv, Stopping, Syncing
  <2> QED
    BY <1>3, <1>4, <2>2, <2>3, <2>4 DEF IInv
<1>6. CASE arg[a][s] = Off
  <2>1. s \in Up
    BY <1>1 DEF IInv, Stopping
  <2>2. Stop(s)
    BY <1>6 DEF StopUnwanted
  <2>3. /\ running' \in [Up' -> Ports] /\ Up' = Up \ {s}
        /\ \A t \in Up' : running'[t] = running[t]
        /\ status' \in [Services -> {"stopped", "running", "error"}]
        /\ \A t \in Services : status'[t] = "running" <=> t \in Up'
    BY <1>1, <2>1, <2>2, StopEffect
  <2>4. Types'
    BY <1>1, <2>3 DEF Types
  <2>5. StatusIsTrue'
    BY <1>1, <2>3 DEF StatusIsTrue, Range, Up
  <2>6. Stopping'
    BY <1>1, <1>2, <2>3 DEF IInv, Stopping, Syncing
  <2> QED
    BY <1>3, <1>4, <2>4, <2>5, <2>6 DEF IInv
<1> QED
  BY <1>5, <1>6

(***************************************************************************)
(* Between the loops: what runs is wanted, and what is wanted is to visit. *)
(***************************************************************************)
LEMMA SecondLoopIInv ==
  ASSUME IInv, NEW a \in Actors, SecondLoop(a)
  PROVE  IInv'
<1>1. /\ Types /\ at[a] = "stopping" /\ todo = {}
      /\ todo' = Wanted(arg[a]) /\ at' = [at EXCEPT ![a] = "starting"]
      /\ UNCHANGED <<current, running, status, foreign, arg, last, failure>>
      /\ Up' = Up
  BY DEF IInv, SecondLoop, Up
<1>2. \A b \in Actors : Syncing(b) => b = a
  BY <1>1 DEF IInv, OneSync, Syncing
<1>3. at'[a] = "starting" /\ \A b \in Actors : b # a => at'[b] = at[b]
  BY <1>1 DEF Types
<1>4. Types'
  BY <1>1 DEF Types, Places, Wanted
<1>5. OneSync' /\ TodoOfSync'
  BY <1>2, <1>3 DEF OneSync, TodoOfSync, Locked, Syncing
<1>6. Stopping'
  BY <1>2, <1>3 DEF Stopping, Syncing
<1>7. Starting'
  <2>1. \A s \in Up : arg[a][s] # Off
    BY <1>1 DEF IInv, Stopping
  <2>2. \A s \in Services : s \in todo' <=> arg[a][s] # Off
    BY <1>1 DEF Wanted
  <2> QED
    BY <1>1, <1>2, <1>3, <2>1, <2>2 DEF Starting, Syncing
<1>8. StatusIsTrue'
  BY <1>1, SameStatus DEF IInv
<1>9. Untried'
  BY <1>1, <1>2, <1>3 DEF IInv, Untried, Types, Wanted, NoFailure, Syncing
<1> QED
  BY <1>4, <1>5, <1>6, <1>7, <1>8, <1>9 DEF IInv

(***************************************************************************)
(* The second loop leaves a service up at the port its configuration says, *)
(* or down and in error.                                                   *)
(***************************************************************************)
LEMMA StartWantedIInv ==
  ASSUME IInv, NEW a \in Actors, NEW s \in Services, StartWanted(a, s)
  PROVE  IInv'
<1> DEFINE p == arg[a][s]
<1>1. /\ Types /\ StatusIsTrue
      /\ at[a] = "starting" /\ s \in todo /\ todo' = todo \ {s}
      /\ UNCHANGED <<current, foreign, at, arg, last>>
  BY DEF IInv, StartWanted
<1>2. \A b \in Actors : Syncing(b) => b = a
  BY <1>1 DEF IInv, OneSync, Syncing
<1>3. OneSync' /\ TodoOfSync'
  BY <1>1 DEF IInv, OneSync, TodoOfSync, Locked, Syncing
<1>4. Stopping'
  BY <1>1, <1>2 DEF Stopping, Syncing
<1>5. Untried'
  <2>1. \A t \in Services : t # s => failure'[t] = failure[t]
    <3>1. CASE s \in Up /\ running[s] = p
      BY <3>1 DEF StartWanted
    <3>2. CASE ~(s \in Up /\ running[s] = p)
      BY <1>1, <3>2 DEF StartWanted, TryStart, Bound, StartFails, Types
    <3> QED
      BY <3>1, <3>2
  <2>2. \A t \in todo' : t \in todo /\ t # s /\ t \in Services
    BY <1>1 DEF Types
  <2> QED
    BY <1>1, <1>2, <2>1, <2>2 DEF IInv, Untried, Syncing
<1>6. p \in Ports
  <2>1. p # Off
    BY <1>1 DEF IInv, Starting
  <2> QED
    BY <1>1, <2>1 DEF Types, Configs
<1>7. CASE s \in Up /\ running[s] = p
  <2>1. UNCHANGED <<running, status, failure>> /\ Up' = Up
    BY <1>7 DEF StartWanted, Up
  <2>2. Types'
    BY <1>1, <2>1 DEF Types
  <2>3. StatusIsTrue'
    BY <1>1, <2>1, SameStatus
  <2>4. Starting'
    BY <1>1, <1>2, <1>7, <2>1 DEF IInv, Starting, Syncing
  <2> QED
    BY <1>3, <1>4, <1>5, <2>2, <2>3, <2>4 DEF IInv
<1>8. CASE ~(s \in Up /\ running[s] = p)
  <2>1. TryStart(s, p, Restrict(running, Up \ {s}))
    BY <1>8 DEF StartWanted
  <2>2. /\ running' \in [Up' -> Ports] /\ Up' \subseteq Services
        /\ \A t \in Services : t # s => (t \in Up' <=> t \in Up)
        /\ \A t \in Up' : t # s => running'[t] = running[t]
        /\ status' \in [Services -> {"stopped", "running", "error"}]
        /\ \A t \in Services : t # s => status'[t] = status[t]
        /\ failure' \in [Services -> Failures]
        /\ \A t \in Services : t # s => failure'[t] = failure[t]
        /\ \/ s \notin Up' /\ status'[s] = "error" /\ failure'[s] # "none"
           \/ /\ s \in Up' /\ status'[s] = "running" /\ running'[s] = p
              /\ p \notin foreign
              /\ \A t \in Up' : t # s => running[t] # p
    BY <1>1, <1>6, <2>1, TryStartEffect
  <2>3. Types'
    BY <1>1, <2>2 DEF Types
  <2>4. StatusIsTrue'
    <3>1. \A t \in Services : status'[t] = "running" <=> t \in Up'
      BY <1>1, <2>2 DEF StatusIsTrue
    <3>2. \A t, u \in Up' : running'[t] = running'[u] => t = u
      BY <1>1, <2>2 DEF StatusIsTrue
    <3>3. Range(running') \cap foreign' = {}
      BY <1>1, <2>2 DEF StatusIsTrue, Range, Up
    <3> QED
      BY <3>1, <3>2, <3>3 DEF StatusIsTrue
  <2>5. Starting'
    <3>1. \A t \in Services : t # s =>
            /\ t \in Up' \/ t \in todo' => arg[a][t] # Off
            /\ t \in Up' /\ t \notin todo' => running'[t] = arg[a][t]
            /\ t \notin Up' /\ t \notin todo' /\ arg[a][t] # Off
                 => status'[t] = "error" /\ failure'[t] # "none"
      BY <1>1, <2>2 DEF IInv, Starting
    <3>2. arg[a][s] # Off /\ arg' = arg /\ at' = at
      BY <1>1 DEF IInv, Starting
    <3>3. s \notin todo' /\ (s \in Up' => running'[s] = arg[a][s])
          /\ (s \notin Up' => status'[s] = "error" /\ failure'[s] # "none")
      BY <1>1, <2>2
    <3>4. ASSUME NEW b \in Actors, at'[b] = "starting", NEW t \in Services
          PROVE  /\ t \in Up' \/ t \in todo' => arg'[b][t] # Off
                 /\ t \in Up' /\ t \notin todo' => running'[t] = arg'[b][t]
                 /\ t \notin Up' /\ t \notin todo' /\ arg'[b][t] # Off
                      => status'[t] = "error" /\ failure'[t] # "none"
      <4>1. b = a
        BY <1>2, <3>2, <3>4 DEF Syncing
      <4>2. CASE t = s
        BY <3>2, <3>3, <4>1, <4>2
      <4>3. CASE t # s
        BY <3>1, <3>2, <4>1, <4>3
      <4> QED
        BY <4>2, <4>3
    <3> QED
      BY <3>4 DEF Starting
  <2> QED
    BY <1>3, <1>4, <1>5, <2>3, <2>4, <2>5 DEF IInv
<1> QED
  BY <1>7, <1>8

(***************************************************************************)
(* Sync returns and releases the lock.                                     *)
(***************************************************************************)
LEMMA UnlockIInv ==
  ASSUME IInv, NEW a \in Actors, Unlock(a)
  PROVE  IInv'
<1>1. /\ Types /\ at[a] = "starting" /\ todo = {} /\ todo' = {}
      /\ last' = arg[a] /\ arg' = [arg EXCEPT ![a] = AllOff]
      /\ at' = [at EXCEPT ![a] = IF a = Main THEN "ended" ELSE "idle"]
      /\ UNCHANGED <<current, running, status, foreign, failure>> /\ Up' = Up
  BY DEF IInv, Unlock, Up
<1>2. \A b \in Actors : Syncing(b) => b = a
  BY <1>1 DEF IInv, OneSync, Syncing
<1>3. /\ at'[a] \in {"ended", "idle"}
      /\ \A b \in Actors : b # a => at'[b] = at[b]
  BY <1>1 DEF Types
<1>4. AllOff \in Configs
  BY DEF AllOff, Configs
<1>5. Types'
  BY <1>1, <1>4 DEF Types, Places
<1>6. OneSync' /\ TodoOfSync' /\ Stopping' /\ Starting' /\ Untried'
  BY <1>1, <1>2, <1>3
     DEF OneSync, TodoOfSync, Stopping, Starting, Untried, Syncing
<1>7. StatusIsTrue'
  BY <1>1, SameStatus DEF IInv
<1> QED
  BY <1>5, <1>6, <1>7 DEF IInv

(***************************************************************************)
(* Main stops what still runs.                                             *)
(***************************************************************************)
LEMMA StopAllIInv ==
  ASSUME IInv, StopAll
  PROVE  IInv'
<1>1. /\ Types /\ StatusIsTrue /\ at[Main] = "ended" /\ ~Locked
      /\ at' = [at EXCEPT ![Main] = "down"] /\ running' = <<>>
      /\ status' = [s \in Services |-> IF s \in Up THEN "stopped" ELSE status[s]]
      /\ last' = AllOff /\ UNCHANGED <<current, foreign, arg, todo, failure>>
  BY DEF IInv, StopAll
<1>2. Main \in Actors /\ AllOff \in Configs
  BY DEF Actors, AllOff, Configs
<1>3. \A b \in Actors : ~Syncing(b)
  BY <1>1 DEF Locked, Syncing
<1>4. \A b \in Actors : at'[b] = IF b = Main THEN "down" ELSE at[b]
  BY <1>1, <1>2 DEF Types
<1>5. Up' = {} /\ running' \in [Up' -> Ports]
  BY <1>1, NothingRuns DEF Up
<1>6. Types'
  BY <1>1, <1>2, <1>5 DEF Types, Places
<1>7. OneSync' /\ Stopping' /\ Starting' /\ Untried'
  BY <1>3, <1>4 DEF OneSync, Stopping, Starting, Untried, Syncing
<1>8. TodoOfSync'
  BY <1>1 DEF IInv, TodoOfSync
<1>9. StatusIsTrue'
  BY <1>1, <1>5 DEF StatusIsTrue, Types, Range, Up
<1> QED
  BY <1>6, <1>7, <1>8, <1>9 DEF IInv

(***************************************************************************)
(* Another program takes a port that no listener holds, or gives one back. *)
(***************************************************************************)
LEMMA ForeignIInv ==
  ASSUME IInv, ForeignMoves
  PROVE  IInv'
<1>1. /\ Types /\ StatusIsTrue
      /\ UNCHANGED <<current, running, status, at, arg, todo, last, failure>>
      /\ Up' = Up
  BY DEF IInv, ForeignMoves, Up
<1>2. PICK p \in Contested \ Range(running) :
        foreign' = IF p \in foreign THEN foreign \ {p} ELSE foreign \cup {p}
  BY DEF ForeignMoves
<1>3. Types'
  BY <1>1, <1>2 DEF Types
<1>4. StatusIsTrue'
  BY <1>1, <1>2 DEF StatusIsTrue, Range
<1>5. OneSync' /\ TodoOfSync' /\ Stopping' /\ Starting' /\ Untried'
  BY <1>1
     DEF IInv, OneSync, TodoOfSync, Locked, Stopping, Starting, Untried, Syncing
<1> QED
  BY <1>3, <1>4, <1>5 DEF IInv

(***************************************************************************)
(* Every step preserves the invariant.                                     *)
(***************************************************************************)
LEMMA NextIInv == IInv /\ [ManagerNext]_managerVars => IInv'
<1> SUFFICES ASSUME IInv, [ManagerNext]_managerVars PROVE IInv'
  OBVIOUS
<1>1. ASSUME NEW r \in Requests, Get(r) \/ \E cfg \in Configs : Set(r, cfg)
      PROVE  IInv'
  BY <1>1, RequestIInv
<1>2. ASSUME NEW a \in Actors, Lock(a) PROVE IInv'
  BY <1>2, LockIInv
<1>3. ASSUME NEW a \in Actors, SyncStep(a) PROVE IInv'
  BY <1>3, StopUnwantedIInv, SecondLoopIInv, StartWantedIInv, UnlockIInv
     DEF SyncStep
<1>4. CASE StopAll
  BY <1>4, StopAllIInv
<1>5. CASE ForeignMoves
  BY <1>5, ForeignIInv
<1>6. CASE UNCHANGED managerVars
  <2>1. Up' = Up /\ Types'
    BY <1>6 DEF IInv, Types, Up, managerVars
  <2>2. StatusIsTrue'
    BY <1>6, SameStatus DEF IInv, managerVars
  <2>3. OneSync' /\ TodoOfSync' /\ Stopping' /\ Starting' /\ Untried'
    BY <1>6, <2>1 DEF IInv, OneSync, TodoOfSync, Locked, Stopping, Starting,
                      Untried, Syncing, managerVars
  <2> QED
    BY <2>1, <2>2, <2>3 DEF IInv
<1> QED
  BY <1>1, <1>2, <1>3, <1>4, <1>5, <1>6 DEF ManagerNext

-----------------------------------------------------------------------------
(***************************************************************************)
(* IInv holds in every reachable state.                                    *)
(***************************************************************************)
THEOREM ManagerInvariance == ManagerSpec => []IInv
<1>1. ManagerInit => IInv
  BY InitIInv
<1>2. IInv /\ [ManagerNext]_managerVars => IInv'
  BY NextIInv
<1> QED
  BY <1>1, <1>2, PTL DEF ManagerSpec

(***************************************************************************)
(* The types hold, and Manager.mu lets at most one Sync run, for any       *)
(* number of concurrent requests.                                          *)
(***************************************************************************)
THEOREM ManagerTypeCorrect == ManagerSpec => []ManagerTypeOK
<1>1. IInv => ManagerTypeOK
  <2> SUFFICES ASSUME IInv PROVE ManagerTypeOK
    OBVIOUS
  <2> DEFINE S == {a \in Actors : at[a] \in {"stopping", "starting"}}
  <2>1. S = {} \/ \E a : S = {a}
    BY DEF IInv, OneSync, Syncing
  <2>2. Cardinality(S) \in {0, 1}
    BY <2>1, FS_EmptySet, FS_Singleton
  <2>3. Cardinality(S) <= 1
    BY <2>2
  <2> QED
    BY <2>3 DEF IInv, Types, TodoOfSync, ManagerTypeOK
<1> QED
  BY <1>1, ManagerInvariance, PTL

(***************************************************************************)
(* The status tells what runs, and no two listeners claim one port.        *)
(***************************************************************************)
THEOREM StatusStaysTrue == ManagerSpec => []StatusIsTrue
<1>1. IInv => StatusIsTrue
  BY DEF IInv
<1> QED
  BY <1>1, ManagerInvariance, PTL

(***************************************************************************)
(* Whatever other requests do meanwhile, a Sync that returns has left      *)
(* every listener as its configuration says, tried the rest and reported   *)
(* that they failed.                                                       *)
(***************************************************************************)
THEOREM SyncsEnforce == ManagerSpec => SyncEnforces
<1> DEFINE Enforced ==
      \A a \in Actors : Unlock(a) =>
        \A s \in Services :
          /\ s \in Up => running[s] = arg[a][s]
          /\ s \in Wanted(arg[a]) \ Up =>
               status[s] = "error" /\ failure[s] # "none"
<1>1. IInv => Enforced
  BY DEF IInv, Starting, Unlock, Wanted
<1>2. IInv /\ [ManagerNext]_managerVars => [Enforced]_managerVars
  BY <1>1
<1> QED
  BY <1>2, ManagerInvariance, PTL DEF ManagerSpec, SyncEnforces
-----------------------------------------------------------------------------
(***************************************************************************)
(* What a second Sync of the same configuration finds and keeps: whatever  *)
(* runs is on the port that the last Sync, or the one that is running,     *)
(* gave it; and of the services the second loop has visited, those with a  *)
(* port of their own run, or are broken.                                   *)
(***************************************************************************)
RunsAsSaid ==
  \A s \in Up : \/ running[s] = last[s]
                \/ \E a \in Actors : Syncing(a) /\ running[s] = arg[a][s]

\* A port that the configuration gives to s alone, and no other program takes.
Own(cfg, s) == cfg[s] \notin Contested /\ Unshared(cfg, s)

VisitedRuns ==
  \A a \in Actors : at[a] = "starting" /\ arg[a] = last =>
    \A s \in Wanted(last) \ todo :
      Own(last, s) => s \in Up \/ failure[s] = "broken"

SettleInv == RunsAsSaid /\ VisitedRuns

(***************************************************************************)
(* A Sync of the configuration that was enforced last finds every listener *)
(* on the port it wants.                                                   *)
(***************************************************************************)
LEMMA RerunFindsAll ==
  ASSUME IInv, RunsAsSaid, NEW a \in Actors, Syncing(a), arg[a] = last, NEW s \in Up
  PROVE  running[s] = last[s]
<1>1. \A b \in Actors : Syncing(b) => b = a
  BY DEF IInv, OneSync
<1> QED
  BY <1>1 DEF RunsAsSaid

(***************************************************************************)
(* Requests, the lock and the ports of other programs touch no listener.   *)
(***************************************************************************)
LEMMA KeepsSettled ==
  ASSUME SettleInv, UNCHANGED <<running, last, todo, failure>>,
         \A a \in Actors : Syncing(a) => at'[a] = at[a] /\ arg'[a] = arg[a],
         \A a \in Actors : at'[a] = "starting" => at[a] = "starting"
  PROVE  SettleInv'
<1>1. Up' = Up
  BY DEF Up
<1>2. RunsAsSaid'
  BY <1>1 DEF SettleInv, RunsAsSaid, Syncing
<1>3. VisitedRuns'
  BY <1>1 DEF SettleInv, VisitedRuns, Syncing
<1> QED
  BY <1>2, <1>3 DEF SettleInv

(***************************************************************************)
(* The first loop only takes listeners away, before any start.             *)
(***************************************************************************)
LEMMA StopUnwantedSettles ==
  ASSUME IInv, SettleInv, NEW a \in Actors, NEW s \in Services, StopUnwanted(a, s)
  PROVE  SettleInv'
<1>1. at[a] = "stopping" /\ UNCHANGED <<at, arg, last>>
  BY DEF StopUnwanted
<1>2. Up' \subseteq Up /\ \A t \in Up' : running'[t] = running[t]
  BY DEF StopUnwanted, Stop, Restrict, Up
<1>3. RunsAsSaid'
  BY <1>1, <1>2 DEF SettleInv, RunsAsSaid, Syncing
<1>4. \A b \in Actors : at[b] # "starting"
  BY <1>1 DEF IInv, OneSync, Syncing
<1> QED
  BY <1>1, <1>3, <1>4 DEF SettleInv, VisitedRuns

(***************************************************************************)
(* The second loop starts what it visits, finds the port taken, or finds   *)
(* the service broken; and what it does not visit keeps running.           *)
(***************************************************************************)
LEMMA StartWantedSettles ==
  ASSUME IInv, SettleInv, NEW a \in Actors, NEW s \in Services, StartWanted(a, s)
  PROVE  SettleInv'
<1> DEFINE p == arg[a][s]
<1>1. /\ Types /\ StatusIsTrue
      /\ at[a] = "starting" /\ s \in todo /\ todo' = todo \ {s}
      /\ UNCHANGED <<at, arg, last>>
  BY DEF IInv, StartWanted
<1>2. \A b \in Actors : Syncing(b) => b = a
  BY <1>1 DEF IInv, OneSync, Syncing
<1>3. p \in Ports
  BY <1>1 DEF IInv, Starting, Types, Configs
<1>4. /\ \A t \in Services : t # s => (t \in Up' <=> t \in Up)
      /\ \A t \in Up' : t # s => running'[t] = running[t]
      /\ s \in Up' => running'[s] = p
      /\ s \notin Up' /\ failure'[s] # "broken" =>
           p \in foreign \/ \E t \in Up : t # s /\ running[t] = p
      /\ Up' \subseteq Services
      /\ \A t \in Services : t # s => failure'[t] = failure[t]
  <2>1. CASE s \in Up /\ running[s] = p
    BY <1>1, <2>1 DEF StartWanted, Up, Types
  <2>2. CASE ~(s \in Up /\ running[s] = p)
    <3>1. TryStart(s, p, Restrict(running, Up \ {s}))
      BY <2>2 DEF StartWanted
    <3> HIDE DEF p
    <3> QED
      BY <1>1, <1>3, <3>1, TryStartEffect
  <2> QED
    BY <2>1, <2>2
<1>5. RunsAsSaid'
  <2> SUFFICES ASSUME NEW t \in Up'
               PROVE  \/ running'[t] = last[t]
                      \/ \E b \in Actors : Syncing(b) /\ running'[t] = arg[b][t]
    BY <1>1 DEF RunsAsSaid, Syncing
  <2>1. CASE t = s
    BY <1>1, <1>4, <2>1 DEF Syncing
  <2>2. CASE t # s
    BY <1>4, <2>2 DEF SettleInv, RunsAsSaid
  <2> QED
    BY <2>1, <2>2
<1>6. ASSUME arg[a] = last, NEW t \in Wanted(last) \ todo', Own(last, t)
      PROVE  t \in Up' \/ failure'[t] = "broken"
  <2>1. CASE t # s
    BY <1>1, <1>4, <1>6, <2>1 DEF SettleInv, VisitedRuns, Wanted
  <2>2. CASE t = s
    <3>1. \A u \in Up : running[u] = last[u]
      BY <1>1, <1>6, RerunFindsAll DEF SettleInv, Syncing
    <3>2. p \notin foreign
      BY <1>1, <1>6, <2>2 DEF Own, Types
    <3>3. \A u \in Up : running[u] = p => u = s
      BY <1>1, <1>6, <2>2, <3>1 DEF Own, Unshared, Types
    <3> QED
      BY <1>4, <2>2, <3>2, <3>3
  <2> QED
    BY <2>1, <2>2
<1>7. VisitedRuns'
  BY <1>1, <1>2, <1>6 DEF VisitedRuns, Syncing, Wanted, Own, Unshared
<1> QED
  BY <1>5, <1>7 DEF SettleInv

(***************************************************************************)
(* When a Sync returns, what runs is on the port it gave.                  *)
(***************************************************************************)
LEMMA UnlockSettles ==
  ASSUME IInv, SettleInv, NEW a \in Actors, Unlock(a)
  PROVE  SettleInv'
<1>1. /\ Types /\ at[a] = "starting" /\ todo = {}
      /\ last' = arg[a] /\ running' = running /\ Up' = Up
      /\ at' = [at EXCEPT ![a] = IF a = Main THEN "ended" ELSE "idle"]
  BY DEF IInv, Unlock, Up
<1>2. \A s \in Up : running[s] = arg[a][s]
  BY <1>1 DEF IInv, Starting, Types
<1>3. \A b \in Actors : at'[b] # "starting"
  BY <1>1 DEF IInv, OneSync, Syncing, Types
<1> QED
  BY <1>1, <1>2, <1>3 DEF SettleInv, RunsAsSaid, VisitedRuns

(***************************************************************************)
(* Every step keeps it.                                                    *)
(***************************************************************************)
LEMMA NextSettleInv == IInv /\ SettleInv /\ [ManagerNext]_managerVars => SettleInv'
<1> SUFFICES ASSUME IInv, SettleInv, [ManagerNext]_managerVars PROVE SettleInv'
  OBVIOUS
<1>1. Types /\ Requests \subseteq Actors
  BY DEF IInv, Actors
<1>2. ASSUME NEW r \in Requests, Get(r) \/ \E cfg \in Configs : Set(r, cfg)
      PROVE  SettleInv'
  <2>1. /\ UNCHANGED <<running, last, todo, failure>>
        /\ at[r] \in {"idle", "set"} /\ at'[r] \in {"set", "got"}
        /\ \A b \in Actors : b # r => at'[b] = at[b] /\ arg'[b] = arg[b]
    BY <1>1, <1>2 DEF Get, Set, Types
  <2> QED
    BY <1>1, <2>1, KeepsSettled DEF Syncing
<1>3. ASSUME NEW a \in Actors, Lock(a) PROVE SettleInv'
  <2>1. /\ UNCHANGED <<running, last, arg>> /\ Up' = Up
        /\ at'[a] = "stopping" /\ at[a] = "got"
        /\ \A b \in Actors : b # a => at'[b] = at[b] /\ ~Syncing(b)
    BY <1>1, <1>3 DEF Lock, Types, Locked, Syncing, Up
  <2>2. RunsAsSaid'
    BY <2>1 DEF SettleInv, RunsAsSaid, Syncing
  <2>3. VisitedRuns'
    BY <2>1 DEF VisitedRuns, Syncing
  <2> QED
    BY <2>2, <2>3 DEF SettleInv
<1>4. ASSUME NEW a \in Actors, SecondLoop(a) PROVE SettleInv'
  <2>1. /\ UNCHANGED <<running, last, arg, failure>> /\ Up' = Up
        /\ todo' = Wanted(arg[a])
        /\ at'[a] = "starting" /\ at[a] = "stopping"
        /\ \A b \in Actors : b # a => at'[b] = at[b] /\ ~Syncing(b)
    BY <1>1, <1>4 DEF SecondLoop, Types, IInv, OneSync, Syncing, Up
  <2>2. RunsAsSaid'
    BY <2>1 DEF SettleInv, RunsAsSaid, Syncing
  <2>3. VisitedRuns'
    BY <2>1 DEF VisitedRuns, Syncing, Wanted
  <2> QED
    BY <2>2, <2>3 DEF SettleInv
<1>5. ASSUME NEW a \in Actors, SyncStep(a) PROVE SettleInv'
  BY <1>4, <1>5, StopUnwantedSettles, StartWantedSettles, UnlockSettles DEF SyncStep
<1>6. CASE StopAll
  <2>1. Up' = {} /\ \A b \in Actors : at'[b] # "starting"
    BY <1>1, <1>6, NothingRuns DEF StopAll, Locked, Types, Up
  <2> QED
    BY <2>1 DEF SettleInv, RunsAsSaid, VisitedRuns
<1>7. CASE ForeignMoves \/ UNCHANGED managerVars
  BY <1>7, KeepsSettled DEF ForeignMoves, managerVars
<1> QED
  BY <1>2, <1>3, <1>5, <1>6, <1>7 DEF ManagerNext

(***************************************************************************)
(* A second Sync of the same configuration leaves nothing to luck: what    *)
(* has a port of its own runs, or failed once more for a cause of its own, *)
(* whatever order the maps were walked in and whatever other requests did  *)
(* in between.                                                             *)
(***************************************************************************)
THEOREM SecondSyncsSettle == ManagerSpec => SecondSyncSettles
<1> DEFINE Settled ==
      \A a \in Actors : Unlock(a) /\ arg[a] = last =>
        \A s \in Wanted(arg[a]) :
          arg[a][s] \notin Contested /\ Unshared(arg[a], s) =>
            s \in Up \/ failure[s] = "broken"
<1>1. SettleInv => Settled
  BY DEF SettleInv, VisitedRuns, Unlock, Own
<1>2. ManagerInit => SettleInv
  BY NothingRuns DEF ManagerInit, SettleInv, RunsAsSaid, VisitedRuns, Up, Actors
<1>3. ManagerSpec => []SettleInv
  BY <1>2, NextSettleInv, ManagerInvariance, PTL DEF ManagerSpec
<1>4. SettleInv /\ [ManagerNext]_managerVars => [Settled]_managerVars
  BY <1>1
<1> QED
  BY <1>3, <1>4, PTL DEF ManagerSpec, SecondSyncSettles

-----------------------------------------------------------------------------
(***************************************************************************)
(* The manager implements Listeners.  First, how the two see a state.      *)
(***************************************************************************)
Goals == {arg[a] : a \in {b \in Actors : at[b] \in {"stopping", "starting"}}}

Refused == {s \in Services : failure[s] = "taken"}

Broken == {s \in Services : failure[s] = "broken"}

(***************************************************************************)
(* While a Sync is under way, its configuration is the goal; otherwise     *)
(* there is none.                                                          *)
(***************************************************************************)
LEMMA GoalIs ==
  ASSUME IInv
  PROVE  /\ \A a \in Actors : Syncing(a) => Goals = {arg[a]}
         /\ ~Locked => Goals = {}
<1>1. \A a, b \in Actors : Syncing(a) /\ Syncing(b) => a = b
  BY DEF IInv, OneSync
<1> QED
  BY <1>1 DEF Goals, Syncing, Locked

(***************************************************************************)
(* Steps of requests and of other programs are none of Listeners.          *)
(***************************************************************************)
LEMMA Stutters ==
  ASSUME UNCHANGED <<running, failure>>,
         \A b \in Actors : (Syncing(b)' <=> Syncing(b)) /\ (Syncing(b) => arg'[b] = arg[b])
  PROVE  UNCHANGED Promise!lsVars
<1>1. Goals' = Goals
  BY DEF Goals, Syncing
<1>2. Refused' = Refused /\ Broken' = Broken
  BY DEF Refused, Broken
<1> QED
  BY <1>1, <1>2 DEF Promise!lsVars, Goals, Refused, Broken

(***************************************************************************)
(* Taking the lock begins, with what the actor has read.                   *)
(***************************************************************************)
LEMMA LockBegins ==
  ASSUME IInv, NEW a \in Actors, Lock(a)
  PROVE  Promise!Begin
<1>1. Goals = {}
  BY GoalIs DEF Lock
<1>2. /\ at \in [Actors -> Places] /\ arg[a] \in Configs
      /\ UNCHANGED <<arg, running, status>> /\ failure' = NoFailure
      /\ at' = [at EXCEPT ![a] = "stopping"] /\ ~Locked
  BY DEF IInv, Types, Lock
<1>3. \A b \in Actors : at'[b] \in {"stopping", "starting"} <=> b = a
  BY <1>2 DEF Locked
<1>4. Goals' = {arg[a]}
  BY <1>2, <1>3 DEF Goals
<1>5. Refused' = {} /\ Broken' = {}
  BY <1>2 DEF Refused, Broken, NoFailure
<1> QED
  BY <1>1, <1>2, <1>4, <1>5 DEF Promise!Begin, Goals, Refused, Broken, Configs

(***************************************************************************)
(* A visit of the first loop closes what is not wanted.                    *)
(***************************************************************************)
LEMMA VisitCloses ==
  ASSUME IInv, NEW a \in Actors, NEW s \in Services, StopUnwanted(a, s)
  PROVE  Promise!Close(s) \/ UNCHANGED Promise!lsVars
<1>1. at[a] = "stopping" /\ UNCHANGED <<at, arg>> /\ s \in todo /\ Syncing(a)
  BY DEF StopUnwanted, Syncing
<1>2. CASE arg[a][s] # Off
  <2>1. UNCHANGED <<running, failure>>
    BY <1>2 DEF StopUnwanted
  <2> QED
    BY <1>1, <2>1, Stutters DEF Syncing
<1>3. CASE arg[a][s] = Off
  <2>1. Stop(s) /\ s \in Up
    BY <1>1, <1>3 DEF StopUnwanted, IInv, Stopping
  <2>2. running' = [t \in DOMAIN running \ {s} |-> running[t]]
    BY <2>1 DEF Stop, Restrict, Up
  <2>3. Goals = {arg[a]} /\ Goals' = Goals
    BY <1>1, GoalIs DEF Goals
  <2>4. Refused' = Refused /\ Broken' = Broken
    BY DEF StopUnwanted, Refused, Broken
  <2> QED
    BY <1>3, <2>1, <2>2, <2>3, <2>4
    DEF Promise!Close, Promise!But, Goals, Refused, Broken, Up
<1> QED
  BY <1>2, <1>3

(***************************************************************************)
(* A visit of the second loop leaves alone what is as wanted; it opens     *)
(* anything else, or fails, for a port that somebody else has or not.      *)
(***************************************************************************)
LEMMA VisitOpens ==
  ASSUME IInv, NEW a \in Actors, NEW s \in Services, StartWanted(a, s)
  PROVE  Promise!Open(s) \/ Promise!Fail(s) \/ UNCHANGED Promise!lsVars
<1> DEFINE p == arg[a][s]
           up == [t \in DOMAIN running \ {s} |-> running[t]]
<1>1. at[a] = "starting" /\ UNCHANGED <<at, arg>> /\ s \in todo /\ Syncing(a)
  BY DEF StartWanted, Syncing
<1>2. p # Off
  BY <1>1 DEF IInv, Starting
<1>3. Goals = {arg[a]} /\ Goals' = Goals
  BY <1>1, GoalIs DEF Goals
<1>4. CASE s \in Up /\ running[s] = p
  <2>1. UNCHANGED <<running, failure>>
    BY <1>4 DEF StartWanted
  <2> QED
    BY <1>1, <2>1, Stutters DEF Syncing
<1>5. CASE ~ (s \in Up /\ running[s] = p)
  <2>1. TryStart(s, p, up)
    BY <1>5 DEF StartWanted, Restrict, Up
  <2>2. ~ (s \in DOMAIN running /\ running[s] = p)
    BY <1>5 DEF Up
  <2>3. /\ DOMAIN up = DOMAIN running \ {s}
        /\ \A t \in DOMAIN up : up[t] = running[t]
        /\ \A q : q \in Range(up) <=> \E t \in DOMAIN running \ {s} : running[t] = q
    BY DEF Range
  <2>4. foreign \subseteq Contested /\ failure \in [Services -> Failures]
    BY DEF IInv, Types
  <2>5. CASE StartFails(s, p, up)
    <3>1. /\ running' = up
          /\ failure' = [failure EXCEPT ![s] = IF Held(p, up) THEN "taken" ELSE "broken"]
      BY <2>5 DEF StartFails
    <3>3. CASE Held(p, up)
      <4>1. p \in Contested \/ \E t \in DOMAIN running \ {s} : running[t] = p
        BY <2>3, <2>4, <3>3 DEF Held
      <4>2. Refused' = Refused \cup {s} /\ Broken' = Broken \ {s}
        BY <2>4, <3>1, <3>3 DEF Refused, Broken
      <4>3. s \notin Broken
        BY <1>1 DEF IInv, Untried, Broken
      <4> QED
        BY <1>2, <1>3, <2>2, <3>1, <4>1, <4>2, <4>3
        DEF Promise!Fail, Promise!But, Promise!AsWanted, Promise!MayBeHeld,
            Goals, Refused, Broken
    <3>4. CASE ~Held(p, up)
      <4>1. Broken' = Broken \cup {s} /\ Refused' = Refused \ {s}
        BY <2>4, <3>1, <3>4 DEF Refused, Broken
      <4>2. s \notin Refused
        BY <1>1 DEF IInv, Untried, Refused
      <4> QED
        BY <1>2, <1>3, <2>2, <3>1, <4>1, <4>2
        DEF Promise!Fail, Promise!But, Promise!AsWanted, Promise!MayBeHeld,
            Goals, Refused, Broken
    <3> QED
      BY <3>3, <3>4
  <2>6. CASE Bound(s, p, up)
    <3>1. /\ running' = [t \in DOMAIN up \cup {s} |-> IF t = s THEN p ELSE up[t]]
          /\ failure' = failure /\ p \notin Range(up)
      BY <2>6 DEF Bound, Held
    <3>2. running' = [t \in DOMAIN running \cup {s} |-> IF t = s THEN p ELSE running[t]]
      BY <2>3, <3>1
    <3>3. Refused' = Refused /\ Broken' = Broken
      BY <3>1 DEF Refused, Broken
    <3>4. \A t \in DOMAIN running \ {s} : running[t] # p
      BY <2>3, <3>1
    <3> QED
      BY <1>2, <1>3, <2>2, <3>2, <3>3, <3>4
      DEF Promise!Open, Promise!AsWanted, Goals, Refused, Broken
  <2> QED
    BY <2>1, <2>5, <2>6 DEF TryStart
<1> QED
  BY <1>4, <1>5

(***************************************************************************)
(* A Sync returns when the promise lets its configuration go.              *)
(***************************************************************************)
LEMMA UnlockEnds ==
  ASSUME IInv, NEW a \in Actors, Unlock(a)
  PROVE  Promise!End
<1>1. /\ at[a] = "starting" /\ todo = {} /\ UNCHANGED <<running, failure>> /\ Syncing(a)
      /\ at' = [at EXCEPT ![a] = IF a = Main THEN "ended" ELSE "idle"]
  BY DEF Unlock, Syncing
<1>2. Goals = {arg[a]}
  BY <1>1, GoalIs
<1>3. \A s \in Services :
        IF arg[a][s] = Off THEN s \notin DOMAIN running
        ELSE \/ s \in DOMAIN running /\ running[s] = arg[a][s]
             \/ s \in (Refused \cup Broken) \ DOMAIN running
  BY <1>1 DEF IInv, Starting, Types, Failures, Refused, Broken, Up
<1>4. \A b \in Actors : at'[b] \notin {"stopping", "starting"}
  <2>1. \A b \in Actors : Syncing(b) => b = a
    BY <1>1 DEF IInv, OneSync
  <2>2. at \in [Actors -> Places]
    BY DEF IInv, Types
  <2> QED
    BY <1>1, <2>1, <2>2 DEF Syncing
<1>5. Goals' = {}
  BY <1>4 DEF Goals
<1>6. Refused' = Refused /\ Broken' = Broken
  BY <1>1 DEF Refused, Broken
<1> QED
  BY <1>1, <1>2, <1>3, <1>5, <1>6
  DEF Promise!End, Promise!AsWanted, Goals, Refused, Broken

(***************************************************************************)
(* StopAll closes all, and no service has failed by that.                  *)
(***************************************************************************)
LEMMA StopAllCloses ==
  ASSUME IInv, StopAll
  PROVE  Promise!CloseAll
<1>1. /\ ~Locked /\ at[Main] = "ended" /\ running' = <<>> /\ arg' = arg
      /\ at' = [at EXCEPT ![Main] = "down"]
      /\ failure' = failure
  BY DEF StopAll
<1>2. at \in [Actors -> Places]
  BY DEF IInv, Types
<1>3. \A b \in Actors : at'[b] \notin {"stopping", "starting"}
  BY <1>1, <1>2 DEF Locked
<1>4. Goals = {} /\ Goals' = {}
  BY <1>1, <1>3, GoalIs DEF Goals
<1>5. Refused' = Refused /\ Broken' = Broken
  BY <1>1 DEF Refused, Broken
<1> QED
  BY <1>1, <1>4, <1>5 DEF Promise!CloseAll, Goals, Refused, Broken

(***************************************************************************)
(* Every step of the manager is one of Listeners, or none.                 *)
(***************************************************************************)
LEMMA NextPromises ==
  ASSUME IInv, [ManagerNext]_managerVars
  PROVE  [Promise!ListenersNext]_(Promise!lsVars)
<1>1. at \in [Actors -> Places] /\ Requests \subseteq Actors
  BY DEF IInv, Types, Actors
<1>2. ASSUME NEW r \in Requests, Get(r) \/ \E cfg \in Configs : Set(r, cfg)
      PROVE  UNCHANGED Promise!lsVars
  <2>1. UNCHANGED <<running, failure>>
    BY <1>2 DEF Get, Set
  <2>2. CASE Get(r)
    <3>1. /\ at[r] = "set" /\ at' = [at EXCEPT ![r] = "got"]
          /\ arg' = [arg EXCEPT ![r] = current] /\ arg \in [Actors -> Configs]
      BY <2>2 DEF Get, IInv, Types
    <3>2. \A b \in Actors : (Syncing(b)' <=> Syncing(b)) /\ (Syncing(b) => arg'[b] = arg[b])
      BY <1>1, <3>1 DEF Syncing
    <3> QED
      BY <2>1, <3>2, Stutters
  <2>3. CASE \E cfg \in Configs : Set(r, cfg)
    <3>1. at[r] = "idle" /\ at' = [at EXCEPT ![r] = "set"] /\ arg' = arg
      BY <2>3 DEF Set
    <3>2. \A b \in Actors : (Syncing(b)' <=> Syncing(b)) /\ (Syncing(b) => arg'[b] = arg[b])
      BY <1>1, <3>1 DEF Syncing
    <3> QED
      BY <2>1, <3>2, Stutters
  <2> QED
    BY <1>2, <2>2, <2>3
<1>3. ASSUME NEW a \in Actors, SecondLoop(a)
      PROVE  UNCHANGED Promise!lsVars
  <2>1. /\ UNCHANGED <<running, failure, arg>>
        /\ at[a] = "stopping" /\ at' = [at EXCEPT ![a] = "starting"]
    BY <1>3 DEF SecondLoop
  <2>2. \A b \in Actors : Syncing(b)' <=> Syncing(b)
    BY <1>1, <2>1 DEF Syncing
  <2> QED
    BY <2>1, <2>2, Stutters
<1>4. CASE ForeignMoves \/ UNCHANGED managerVars
  <2>1. UNCHANGED <<running, failure, arg, at>>
    BY <1>4 DEF ForeignMoves, managerVars
  <2> QED
    BY <2>1, Stutters DEF Syncing
<1>5. ASSUME NEW a \in Actors, Lock(a) PROVE Promise!ListenersNext
  BY <1>5, LockBegins DEF Promise!ListenersNext
<1>6. ASSUME NEW a \in Actors, NEW s \in Services, StopUnwanted(a, s) \/ StartWanted(a, s)
      PROVE  [Promise!ListenersNext]_(Promise!lsVars)
  BY <1>6, VisitCloses, VisitOpens DEF Promise!ListenersNext
<1>7. ASSUME NEW a \in Actors, Unlock(a) PROVE Promise!ListenersNext
  BY <1>7, UnlockEnds DEF Promise!ListenersNext
<1>8. CASE StopAll
  BY <1>8, StopAllCloses DEF Promise!ListenersNext
<1> QED
  BY <1>2, <1>3, <1>4, <1>5, <1>6, <1>7, <1>8 DEF ManagerNext, SyncStep

(***************************************************************************)
(* The manager implements Listeners: whatever requests interleave and      *)
(* whatever order the maps are walked in, one configuration at a time is   *)
(* enforced, nothing that is as wanted is touched, and none is let go      *)
(* before every service is as it says or was tried for it and failed.      *)
(***************************************************************************)
THEOREM ManagerImplementsListeners == ManagerSpec => ListenersPromise
<1>1. ManagerInit => Promise!ListenersInit
  BY DEF ManagerInit, NoFailure, Promise!ListenersInit, Main
<1>2. IInv /\ [ManagerNext]_managerVars => [Promise!ListenersNext]_(Promise!lsVars)
  BY NextPromises
<1> QED
  BY <1>1, <1>2, ManagerInvariance, PTL DEF ManagerSpec, ListenersPromise, Promise!ListenersSpec

=============================================================================
