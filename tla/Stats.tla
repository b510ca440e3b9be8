------------------------------- MODULE Stats -------------------------------
(***************************************************************************)
(* What the event store answers from the ring while it is being written:   *)
(* the events a filter asks for, the detail of a session, and the summary  *)
(* (computeStats) behind its cache.  Log is taken apart where it matters   *)
(* here: an event gets its time before the lock that gives it its place.   *)
(*                                                                         *)
(* The clock counts the hours of the timeline.                             *)
(***************************************************************************)
EXTENDS Integers, FiniteSets, FiniteSetsExt, SequencesExt

CONSTANTS
  Writers,    \* goroutines that log
  Bodies,     \* what they log: [svc, type, sid]
  Sids,       \* sessions with a row
  Callers,    \* dashboards that ask for the summary
  MaxRows,    \* Options.MaxEvents
  Limits,     \* limits requests name
  DefaultLimit,  \* events answered to a request that names none (200)
  MaxLimit,   \* events answered at most (20000; the ring holds 25000)
  Hours,      \* buckets of the timeline (24)
  Ttl,        \* Options.StatsCacheMs
  MaxClock,   \* bound: the clock
  MaxLogged   \* bound: events logged

Services == {b.svc : b \in Bodies}

ASSUME StatsAssumption ==
  /\ \A b \in Bodies : DOMAIN b = {"svc", "type", "sid"}
  /\ "" \notin Services                \* every call of Log names its service
  /\ Limits \subseteq Int
  /\ {MaxRows, DefaultLimit, MaxLimit, Hours, MaxLogged} \subseteq Nat \ {0}
  /\ Ttl \in Nat /\ MaxClock \in Nat

VARIABLES
  clock,
  stamped,    \* the event each goroutine has given its time, or None
  ring,       \* Store.events
  since,      \* the counters since the start
  rows,       \* Session.CommandCount of each row
  dropped,    \* sessions of which the ring has dropped an event (history)
  detail,     \* a Session call: the commands its row counts, and it lists
  mutex,      \* the summary that whoever holds statsMu has computed
  cache,      \* statsCache and statsAt
  answer      \* the last summary served (history)

stVars == <<clock, stamped, ring, since, rows, dropped, detail, mutex, cache, answer>>

None == [svc |-> "none"]

-----------------------------------------------------------------------------
\* Log.

OwnBookkeeping(e) ==
  e.svc = "system" \/ e.type \in {"startup", "shutdown", "service_started",
                                  "service_stopped", "service_error", "server_error"}

Stamp(g) ==
  /\ stamped[g] = None
  /\ \E b \in Bodies :
       stamped' = [stamped EXCEPT
         ![g] = [svc |-> b.svc, type |-> b.type, sid |-> b.sid, ts |-> clock]]
  /\ UNCHANGED <<clock, ring, since, rows, dropped, detail, mutex, cache, answer>>

\* Under the lock.
Counted(e) ==
  [events  |-> since.events + 1,
   traffic |-> IF OwnBookkeeping(e) THEN since.traffic ELSE since.traffic + 1,
   first   |-> IF since.first = -1 /\ ~OwnBookkeeping(e) THEN e.ts ELSE since.first,
   svc     |-> [since.svc EXCEPT ![e.svc] =
                  [events |-> @.events + 1,
                   first  |-> IF @.first = -1 THEN e.ts ELSE @.first]]]

Commit(g) ==
  LET e == stamped[g]
      all == Append(ring, e)
  IN /\ e # None
     /\ since.events < MaxLogged
     /\ since' = Counted(e)
     /\ IF Len(all) > MaxRows
        THEN ring' = Tail(all) /\ dropped' = dropped \cup {Head(all).sid}
        ELSE ring' = all /\ UNCHANGED dropped
     /\ rows' = [s \in Sids |-> IF s = e.sid /\ e.type = "command" THEN rows[s] + 1 ELSE rows[s]]
     /\ stamped' = [stamped EXCEPT ![g] = None]
     /\ UNCHANGED <<clock, detail, mutex, cache, answer>>

-----------------------------------------------------------------------------
\* Events: from the newest back, as many as asked for, within bounds.

Matches(e, f) ==
  /\ f.svc = "" \/ e.svc = f.svc
  /\ f.since > 0 => e.ts >= f.since
  /\ f.until > 0 => e.ts <= f.until

Filters == [svc : Services \cup {""}, since : 0..MaxClock, until : 0..MaxClock,
            limit : Limits]

Limit(f) == IF f.limit <= 0 THEN DefaultLimit
            ELSE IF f.limit > MaxLimit THEN MaxLimit ELSE f.limit

\* The walk, newest first: of the newest i events, those it has collected.
Walk(f) ==
  LET out[i \in 0..Len(ring)] ==
        IF i = 0 THEN <<>>
        ELSE LET e == ring[Len(ring) + 1 - i]
             IN IF Matches(e, f) /\ Len(out[i - 1]) < Limit(f)
                THEN <<e>> \o out[i - 1] ELSE out[i - 1]
  IN out

StopAtOlder(f) ==                      \* mutant: as if times were in order
  LET older == {i \in DOMAIN ring : ring[i].ts < f.since}
  IN Walk(f)[IF older = {} THEN Len(ring) ELSE Len(ring) - Max(older)]

Events(f) == Walk(f)[Len(ring)]

-----------------------------------------------------------------------------
\* Session: the row under one lock, its events under the next.

NoDetail == [pc |-> "idle", sid |-> "", cmds |-> 0, listed |-> 0]

\* Of the events, how many commands they list.
Listed(s) == Cardinality({i \in DOMAIN ring : ring[i].sid = s /\ ring[i].type = "command"})

EventsThenRow(s) ==                    \* mutant
  \/ /\ detail.pc = "idle"
     /\ detail' = [NoDetail EXCEPT !.pc = "row", !.sid = s, !.listed = Listed(s)]
  \/ /\ detail.pc = "row" /\ detail.sid = s
     /\ detail' = [detail EXCEPT !.pc = "done", !.cmds = rows[s]]

RowThenEvents(s) ==
  \/ /\ detail.pc = "idle"
     /\ detail' = [NoDetail EXCEPT !.pc = "row", !.sid = s, !.cmds = rows[s]]
  \/ /\ detail.pc = "row" /\ detail.sid = s
     /\ detail' = [detail EXCEPT !.pc = "done", !.listed = Listed(s)]

Session(s) ==
  /\ RowThenEvents(s)
  /\ UNCHANGED <<clock, stamped, ring, since, rows, dropped, mutex, cache, answer>>

DetailServed ==
  /\ detail.pc = "done"
  /\ detail' = NoDetail
  /\ UNCHANGED <<clock, stamped, ring, since, rows, dropped, mutex, cache, answer>>

-----------------------------------------------------------------------------
\* The summary.

Count(P(_)) == Cardinality({i \in DOMAIN ring : P(ring[i])})

IsAttempt(e) == e.type \in {"auth_attempt", "login_attempt"}
IsSuccess(e) == e.type = "auth_success"

\* The hour in progress is the last bucket.
EarlierHour == clock - Hours           \* mutant
FirstHour == clock - (Hours - 1)

Timeline ==
  [h \in 0..(Hours - 1) |->
     LET In(e) == e.ts - FirstHour = h
         Tries(e) == In(e) /\ (IsAttempt(e) \/ IsSuccess(e))
         Taken(e) == In(e) /\ IsSuccess(e)
     IN [count |-> Count(In), attempts |-> Count(Tries), accepted |-> Count(Taken)]]

ServiceStat(s) ==
  LET Of(e)  == e.svc = s
      Typed(types) == LET In(e) == Of(e) /\ e.type \in types IN Count(In)
      auth   == Typed({"auth_attempt"})
      times  == {ring[i].ts : i \in {j \in DOMAIN ring : Of(ring[j])}}
  IN [events   |-> Count(Of),
      attempts |-> auth + Typed({"login_attempt"})
                     + (IF auth = 0 THEN Typed({"auth_success"}) ELSE 0),
      accepted |-> Typed({"auth_success"}),
      commands |-> Typed({"command", "exec"}),
      first    |-> Min(times), last |-> Max(times),
      since    |-> since.svc[s]]

Named == {ring[i].svc : i \in DOMAIN ring} \ {""}

Summary ==
  LET services == [s \in Named |-> ServiceStat(s)]
      Total(field) == MapThenSumSet(LAMBDA s : services[s][field], DOMAIN services)
      rejected == Total("attempts") - Count(IsSuccess)
  IN [total    |-> Len(ring),
      services |-> services,
      timeline |-> Timeline,
      attempts |-> Total("attempts"),
      accepted |-> Count(IsSuccess),
      rejected |-> IF rejected < 0 THEN 0 ELSE rejected,
      events   |-> since.events,
      traffic  |-> since.traffic,
      first    |-> since.first]

\* Stats: statsMu is held from the look at the cache to the new cache.
\* Of a summary, what shows its age is kept: the events since the start.
NoSummary == -1

Fresh == cache.at >= 0 /\ clock - cache.at < Ttl

ServeCached(c) ==
  /\ \A d \in Callers : mutex[d] = NoSummary
  /\ Fresh
  /\ answer' = cache.summary
  /\ UNCHANGED <<clock, stamped, ring, since, rows, dropped, detail, mutex, cache>>

ComputeTogether(c) ==                  \* mutant: without statsMu
  /\ mutex[c] = NoSummary
  /\ ~Fresh
  /\ mutex' = [mutex EXCEPT ![c] = Summary.events]
  /\ UNCHANGED <<clock, stamped, ring, since, rows, dropped, detail, cache, answer>>

Compute(c) ==
  /\ \A d \in Callers : mutex[d] = NoSummary
  /\ ~Fresh
  /\ mutex' = [mutex EXCEPT ![c] = Summary.events]
  /\ UNCHANGED <<clock, stamped, ring, since, rows, dropped, detail, cache, answer>>

Serve(c) ==
  /\ mutex[c] # NoSummary
  /\ cache' = [summary |-> mutex[c], at |-> clock]
  /\ answer' = mutex[c]
  /\ mutex' = [mutex EXCEPT ![c] = NoSummary]
  /\ UNCHANGED <<clock, stamped, ring, since, rows, dropped, detail>>

-----------------------------------------------------------------------------
Tick ==
  /\ clock < MaxClock
  /\ clock' = clock + 1
  /\ UNCHANGED <<stamped, ring, since, rows, dropped, detail, mutex, cache, answer>>

\* The start may have replayed an event of the run before.
Replayed == {<<>>} \cup {<<[svc |-> b.svc, type |-> b.type, sid |-> "", ts |-> 0]>> : b \in Bodies}

StatsInit ==
  /\ clock = 1
  /\ stamped = [g \in Writers |-> None]
  /\ ring \in Replayed
  /\ since = [events |-> 0, traffic |-> 0, first |-> -1,
              svc |-> [s \in Services |-> [events |-> 0, first |-> -1]]]
  /\ rows = [s \in Sids |-> 0]
  /\ dropped = {}
  /\ detail = NoDetail
  /\ mutex = [c \in Callers |-> NoSummary]
  /\ cache = [summary |-> NoSummary, at |-> -1]
  /\ answer = NoSummary

StatsNext ==
  \/ \E g \in Writers : Stamp(g) \/ Commit(g)
  \/ (\E s \in Sids : Session(s)) \/ DetailServed
  \/ \E c \in Callers : ServeCached(c) \/ Compute(c) \/ Serve(c)
  \/ Tick

StatsSpec == StatsInit /\ [][StatsNext]_stVars

-----------------------------------------------------------------------------
(***************************************************************************)
(* The events page and the REST answer miss nothing they were asked for,   *)
(* short of the limit (200 when none is named, never above 20,000, however *)
(* many are asked for and kept), though two goroutines may log in the      *)
(* opposite order of their times; what the limit leaves out was logged     *)
(* before what it shows.                                                   *)
(***************************************************************************)
EventsFindAll ==
  \A f \in Filters :
    LET asked == {i \in DOMAIN ring : Matches(ring[i], f)}
        found == Events(f)
    IN /\ Len(found) = (IF Cardinality(asked) < Limit(f) THEN Cardinality(asked) ELSE Limit(f))
       /\ \A i \in asked :
            Cardinality({j \in asked : j >= i}) <= Limit(f) => ring[i] \in Range(found)

(***************************************************************************)
(* The detail of a session lists every command its row counts, although    *)
(* row and events are read under two locks with Log running in between,    *)
(* unless the ring has dropped events of the session.                      *)
(***************************************************************************)
DetailCoversRow ==
  detail.pc = "done" /\ detail.sid \notin dropped => detail.cmds <= detail.listed

(***************************************************************************)
(* The summary served never goes back to fewer events since the start than *)
(* an earlier one showed, whoever computes it and whoever gets the cache.  *)
(***************************************************************************)
SummaryNeverGoesBack == [][answer' >= answer]_stVars

(***************************************************************************)
(* A summary adds up at any moment: services to the total, the total to    *)
(* what was replayed and logged, the timeline to the events of its hours.  *)
(***************************************************************************)
SummaryAddsUp ==
  LET s == Summary
      Recent(e) == e.ts > clock - Hours
  IN /\ MapThenSumSet(LAMBDA x : s.services[x].events, DOMAIN s.services) = s.total
     /\ s.total < MaxRows => since.events <= s.total /\ s.total <= since.events + 1
     /\ MapThenSumSet(LAMBDA h : s.timeline[h].count, DOMAIN s.timeline) = Count(Recent)
     /\ s.first = -1 <=> s.traffic = 0

=============================================================================
