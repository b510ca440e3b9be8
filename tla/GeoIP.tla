------------------------------- MODULE GeoIP -------------------------------
(***************************************************************************)
(* The country resolver (internal/geoip).  Log, Stats and the API ask the  *)
(* cache and never wait: a miss is queued for one worker, which asks the   *)
(* provider at a bounded rate.  The cache is saved by a flusher every two  *)
(* minutes and by Close.                                                   *)
(*                                                                         *)
(* The cache has one lock, the set of pending addresses another, and the   *)
(* queue is a channel: a caller looks at them one after the other.  Time   *)
(* is a flag: an entry is fresh until Expire, an hour after a failure, 30  *)
(* days after an answer.                                                   *)
(***************************************************************************)
EXTENDS Integers, Sequences, FiniteSets, Functions

CONSTANTS
  IPs,         \* addresses seen
  Private,     \* those of them no provider knows
  Callers,     \* goroutines that log an event or serve a request
  QueueCap,    \* capacity of the channel (4096)
  CacheCap,    \* maxCacheEntries (200000)
  MaxCrashes   \* bound: crashes in a behaviour

ASSUME GeoAssumption ==
  /\ IsFiniteSet(IPs) /\ Private \subseteq IPs
  /\ QueueCap \in Nat \ {0} /\ CacheCap \in Nat /\ MaxCrashes \in Nat

Location == [failed : BOOLEAN, fresh : BOOLEAN]
Caches   == UNION {[S -> Location] : S \in SUBSET IPs}

VARIABLES
  cache,    \* Resolver.cache
  pending,  \* Resolver.pending
  queue,    \* Resolver.queue
  at, ip,   \* where each caller is, and the address it has in hand, in a set
  worker,   \* where the worker is
  job,      \* the address it works on, in a set
  late,     \* addresses stored while a caller had seen the cache without (history)
  dirty,    \* Resolver.dirty
  saver,    \* where saveCache is: the flusher's, after it Close's
  snap,     \* the snapshot it writes
  file,     \* geoip-cache.json
  run,      \* "up", "closing", "saving" (the last time), "down"
  crashes

asking == <<pending, queue, at, ip, worker, job, late>>
disk   == <<saver, snap, file>>
life   == <<run, crashes>>
geoVars == <<cache, asking, dirty, disk, life>>

Nowhere == [i \in {} |-> {}]
Fresh   == {i \in DOMAIN cache : cache[i].fresh}

GeoInit ==
  /\ cache = Nowhere
  /\ pending = {} /\ queue = <<>>
  /\ at = [c \in Callers |-> "idle"] /\ ip = [c \in Callers |-> {}]
  /\ worker = "idle" /\ job = {} /\ late = {}
  /\ dirty = FALSE
  /\ saver = "idle" /\ snap = Nowhere /\ file = Nowhere
  /\ run = "up" /\ crashes = 0

-----------------------------------------------------------------------------
\* Lookup and Queue, by caller c for address i.

\* Misses, and what is cached but no longer fresh, go on to the queue.
AskRegardless(c, i) ==                 \* mutant: the cache is not consulted
  /\ at[c] = "idle"
  /\ i \notin Private
  /\ at' = [at EXCEPT ![c] = "missed"]
  /\ ip' = [ip EXCEPT ![c] = {i}]
  /\ UNCHANGED <<cache, pending, queue, worker, job, late, dirty, disk, life>>

Lookup(c, i) ==
  /\ at[c] = "idle"
  /\ i \notin Private \cup Fresh
  /\ at' = [at EXCEPT ![c] = "missed"]
  /\ ip' = [ip EXCEPT ![c] = {i}]
  /\ UNCHANGED <<cache, pending, queue, worker, job, late, dirty, disk, life>>

Leave(c) ==
  /\ at' = [at EXCEPT ![c] = "idle"]
  /\ ip' = [ip EXCEPT ![c] = {}]

ClaimAgain(c) ==                       \* mutant: no look at what is pending
  /\ at[c] = "missed"
  /\ pending' = pending \cup ip[c]
  /\ at' = [at EXCEPT ![c] = "claimed"]
  /\ UNCHANGED <<cache, queue, ip, worker, job, late, dirty, disk, life>>

Claim(c) ==
  /\ at[c] = "missed"
  /\ IF ip[c] \subseteq pending
     THEN Leave(c) /\ UNCHANGED pending
     ELSE at' = [at EXCEPT ![c] = "claimed"] /\ pending' = pending \cup ip[c] /\ UNCHANGED ip
  /\ UNCHANGED <<cache, queue, worker, job, late, dirty, disk, life>>

\* A full channel is not waited for.
Send(c) ==
  /\ at[c] = "claimed"
  /\ IF Len(queue) < QueueCap
     THEN \E i \in ip[c] : queue' = Append(queue, i) /\ Leave(c)
     ELSE at' = [at EXCEPT ![c] = "refused"] /\ UNCHANGED <<queue, ip>>
  /\ UNCHANGED <<cache, pending, worker, job, late, dirty, disk, life>>

KeepClaim(c) ==                        \* mutant: what the queue refuses stays pending
  /\ at[c] = "refused"
  /\ Leave(c)
  /\ UNCHANGED <<cache, pending, queue, worker, job, late, dirty, disk, life>>

Unclaim(c) ==
  /\ at[c] = "refused"
  /\ pending' = pending \ ip[c]
  /\ Leave(c)
  /\ UNCHANGED <<cache, queue, worker, job, late, dirty, disk, life>>

-----------------------------------------------------------------------------
\* The worker.

Receive ==
  /\ worker = "idle"
  /\ queue # <<>>
  /\ job' = {Head(queue)}
  /\ queue' = Tail(queue)
  /\ worker' = "waiting"
  /\ UNCHANGED <<cache, pending, at, ip, late, dirty, disk, life>>

Fetch ==                               \* after the ticker's tick
  /\ worker = "waiting"
  /\ worker' = "asking"
  /\ UNCHANGED <<cache, pending, queue, at, ip, job, late, dirty, disk, life>>

\* What the provider may do, and what is an answer: no transport error, status
\* 200, JSON, and a country code of two letters (a longer one is dropped).
Replies == {"code", "name", "no country", "not JSON", "status", "unreachable"}
Failed(reply) == reply # "code"

\* A full cache takes nothing, the renewal of an entry it has neither.
Room == Cardinality(DOMAIN cache) < CacheCap

Store(reply) ==
  /\ worker = "asking"
  /\ IF Room
     THEN /\ cache' = [i \in DOMAIN cache \cup job |->
                         IF i \in job THEN [failed |-> Failed(reply), fresh |-> TRUE]
                                      ELSE cache[i]]
          /\ dirty' = TRUE
          /\ late' = (late \ job) \cup {i \in job : \E c \in Callers :
                                          at[c] = "missed" /\ ip[c] = {i}}
     ELSE UNCHANGED <<cache, dirty, late>>
  /\ worker' = "stored"
  /\ UNCHANGED <<pending, queue, at, ip, job, saver, snap, file, life>>

Release ==
  /\ worker = "stored"
  /\ pending' = pending \ job
  /\ job' = {}
  /\ worker' = "idle"
  /\ UNCHANGED <<cache, queue, at, ip, late, dirty, disk, life>>

\* An entry and its copies outlive their time to live.
Expire(i) ==
  /\ i \in Fresh
  /\ LET Aged(c) == [j \in DOMAIN c |-> IF j = i THEN [c[j] EXCEPT !.fresh = FALSE]
                                                 ELSE c[j]]
     IN /\ cache' = Aged(cache) /\ snap' = Aged(snap) /\ file' = Aged(file)
  /\ UNCHANGED <<asking, dirty, saver, life>>

-----------------------------------------------------------------------------
\* saveCache, by the flusher, or by Close when worker and flusher have ended.

Snapshot ==
  /\ saver = "idle"
  /\ run \in {"up", "closing"}
  /\ dirty
  /\ snap' = cache
  /\ saver' = "write"
  /\ UNCHANGED <<cache, asking, dirty, file, life>>

Replace ==                             \* temporary file and rename
  /\ saver = "write"
  /\ file' = snap
  /\ snap' = Nowhere
  /\ saver' = "clear"
  /\ UNCHANGED <<cache, asking, dirty, life>>

\* saveCache returns, to the flusher or from Close.
Returns ==
  /\ saver' = "idle"
  /\ run' = IF run = "saving" THEN "down" ELSE run
  /\ UNCHANGED <<cache, asking, file, crashes>>

SaveFails ==
  /\ saver = "write"
  /\ snap' = Nowhere
  /\ UNCHANGED dirty
  /\ Returns

ClearDirty ==
  /\ saver = "clear"
  /\ dirty' = FALSE
  /\ UNCHANGED snap
  /\ Returns

-----------------------------------------------------------------------------
\* Close: the worker leaves from either select, not from a fetch.

Close ==
  /\ run = "up"
  /\ run' = "closing"
  /\ UNCHANGED <<cache, asking, dirty, disk, crashes>>

WorkerEnds ==
  /\ run = "closing"
  /\ worker \in {"idle", "waiting"}
  /\ worker' = "gone"
  /\ UNCHANGED <<cache, pending, queue, at, ip, job, late, dirty, disk, life>>

LastSave ==
  /\ run = "closing"
  /\ worker = "gone" /\ saver = "idle"
  /\ IF dirty THEN run' = "saving" /\ snap' = cache /\ saver' = "write"
              ELSE run' = "down" /\ UNCHANGED <<snap, saver>>
  /\ UNCHANGED <<cache, asking, dirty, file, crashes>>

\* The next run, after Close or a crash.
Restart ==
  /\ \/ run = "down" /\ UNCHANGED crashes
     \/ crashes < MaxCrashes /\ crashes' = crashes + 1
  /\ cache' = file
  /\ pending' = {} /\ queue' = <<>>
  /\ at' = [c \in Callers |-> "idle"] /\ ip' = [c \in Callers |-> {}]
  /\ worker' = "idle" /\ job' = {} /\ late' = {}
  /\ dirty' = FALSE
  /\ saver' = "idle" /\ snap' = Nowhere
  /\ run' = "up"
  /\ UNCHANGED file

Call(c) == Claim(c) \/ Send(c) \/ Unclaim(c)
Work    == Receive \/ Fetch \/ (\E reply \in Replies : Store(reply)) \/ Release

GeoNext ==
  \/ \E c \in Callers : Call(c) \/ \E i \in IPs : Lookup(c, i)
  \/ Work
  \/ \E i \in IPs : Expire(i)
  \/ Snapshot \/ Replace \/ SaveFails \/ ClearDirty
  \/ Close \/ WorkerEnds \/ LastSave \/ Restart

\* Callers and worker run on; ticker and provider's time-out always end a wait.
GeoFairness == WF_geoVars(Work) /\ \A c \in Callers : WF_geoVars(Call(c))

GeoSpec == GeoInit /\ [][GeoNext]_geoVars /\ GeoFairness

-----------------------------------------------------------------------------
\* Types of the variables, with the bounds of the channel and of the cache.
GeoTypeOK ==
  /\ cache \in Caches /\ Cardinality(DOMAIN cache) <= CacheCap
  /\ pending \subseteq IPs \ Private
  /\ queue \in Seq(IPs) /\ Len(queue) <= QueueCap
  /\ at \in [Callers -> {"idle", "missed", "claimed", "refused"}]
  /\ ip \in [Callers -> SUBSET IPs]
  /\ worker \in {"idle", "waiting", "asking", "stored", "gone"}
  /\ job \subseteq IPs
  /\ late \subseteq IPs
  /\ dirty \in BOOLEAN
  /\ saver \in {"idle", "write", "clear"}
  /\ snap \in Caches /\ file \in Caches
  /\ run \in {"up", "closing", "saving", "down"} /\ crashes \in 0..MaxCrashes

Claimed  == {c \in Callers : at[c] \in {"claimed", "refused"}}
Queued   == Range(queue)

\* Every pending address is in exactly one pair of hands (a caller about to send
\* it or to give it up, the channel, the worker), and whoever has an address in
\* hand has it pending: none is stuck as pending for good, which would keep it
\* from ever being asked for again, and none is queued twice.
PendingIsOwned ==
  /\ pending = {i \in IPs : i \in Queued \cup job \/ \E c \in Claimed : i \in ip[c]}
  /\ \A c, d \in Claimed : ip[c] = ip[d] => c = d
  /\ \A m, n \in DOMAIN queue : queue[m] = queue[n] => m = n
  /\ \A c \in Claimed : ip[c] \cap (Queued \cup job) = {}
  /\ Queued \cap job = {}

\* The resolver runs its errands as Errands promises.
Errand(i) == CASE i \in job -> "doing"
               [] i \in pending \ job -> "asked"
               [] OTHER -> "idle"

E == INSTANCE Errands WITH Addresses <- IPs, state <- [i \in IPs |-> Errand(i)]

ErrandsPromise == E!ErrandsSpec

\* The provider is asked again for an address whose answer is fresh only when
\* a caller had looked at the cache before that answer came, and claimed the
\* address after the worker let it go.
AskedAgainForCause ==
  [][Fetch => \A i \in job : i \in Fresh => i \in late]_geoVars

\* A pending address does not stay so: its claimant, the channel and the worker
\* pass it on until the worker releases it.
PendingIsReleased ==
  \A i \in IPs : i \in pending ~> (i \notin pending \/ run # "up")
=============================================================================
