----------------------------- MODULE GeoIPProofs -----------------------------
(***************************************************************************)
(* Proofs about the country resolver, for any addresses, callers and sizes *)
(* of queue and cache: the types and bounds, that every pending address is *)
(* in exactly one pair of hands, and that the resolver implements Errands. *)
(***************************************************************************)
EXTENDS GeoIP, SequenceTheorems, FiniteSetTheorems, TLAPS

\* A cache that is saved, or read back, is no larger than the one it was.
CopiesBounded ==
  Cardinality(DOMAIN snap) <= CacheCap /\ Cardinality(DOMAIN file) <= CacheCap

\* Who is under way has one address in hand.
Hands ==
  /\ \A c \in Callers : at[c] = "idle" => ip[c] = {}
  /\ \A c \in Callers : at[c] # "idle" => \E i \in IPs \ Private : ip[c] = {i}
  /\ worker = "idle" => job = {}
  /\ worker \in {"waiting", "asking", "stored"} => \E i \in IPs : job = {i}

IInv == GeoTypeOK /\ CopiesBounded /\ Hands /\ PendingIsOwned

\* The first part of PendingIsOwned, which the steps below rebuild.
Owned == pending = {i \in IPs : i \in Queued \cup job \/ \E c \in Claimed : i \in ip[c]}

Distinct(q) == \A m, n \in DOMAIN q : q[m] = q[n] => m = n

-----------------------------------------------------------------------------
(***************************************************************************)
(* What the channel does to the set of queued addresses.                   *)
(***************************************************************************)
LEMMA AppendQueued ==
  ASSUME NEW q \in Seq(IPs), NEW i \in IPs, i \notin Range(q), Distinct(q)
  PROVE  /\ Append(q, i) \in Seq(IPs) /\ Len(Append(q, i)) = Len(q) + 1
         /\ Range(Append(q, i)) = Range(q) \cup {i}
         /\ Distinct(Append(q, i))
<1> DEFINE a == Append(q, i)
<1>1. /\ a \in Seq(IPs) /\ Len(a) = Len(q) + 1 /\ Len(q) \in Nat
      /\ \A n \in 1..Len(q) : a[n] = q[n]
      /\ a[Len(q) + 1] = i
      /\ DOMAIN q = 1..Len(q) /\ DOMAIN a = 1..Len(a)
  BY AppendProperties, LenProperties
<1> HIDE DEF a
<1>2. 1..Len(a) = 1..Len(q) \cup {Len(q) + 1}
  BY <1>1
<1>3. Range(a) = Range(q) \cup {i}
  BY <1>1, <1>2 DEF Range
<1>4. Distinct(a)
  BY <1>1, <1>2 DEF Distinct, Range
<1> QED BY <1>1, <1>3, <1>4 DEF a

LEMMA TailQueued ==
  ASSUME NEW q \in Seq(IPs), q # <<>>, Distinct(q)
  PROVE  /\ Tail(q) \in Seq(IPs) /\ Len(Tail(q)) = Len(q) - 1
         /\ Head(q) \in IPs /\ Head(q) \notin Range(Tail(q))
         /\ Range(q) = Range(Tail(q)) \cup {Head(q)}
         /\ Distinct(Tail(q))
<1> DEFINE t == Tail(q)
<1>1. /\ t \in Seq(IPs) /\ Len(t) = Len(q) - 1 /\ Len(q) \in Nat /\ Len(q) # 0
      /\ \A n \in 1..Len(t) : t[n] = q[n + 1]
      /\ Head(q) \in IPs /\ Head(q) = q[1]
      /\ DOMAIN q = 1..Len(q) /\ DOMAIN t = 1..Len(t)
  BY HeadTailProperties, LenProperties, EmptySeq
<1> HIDE DEF t
<1>2. \A n \in 1..Len(t) : n + 1 \in 1..Len(q) /\ n + 1 # 1
  BY <1>1
<1>3. \A n \in 1..Len(q) : n = 1 \/ (n - 1 \in 1..Len(t) /\ (n - 1) + 1 = n)
  BY <1>1
<1>4. Range(q) = Range(t) \cup {Head(q)}
  <2>1. 1 \in 1..Len(q)
    BY <1>1
  <2>2. \A x \in Range(t) \cup {Head(q)} : x \in Range(q)
    BY <1>1, <1>2, <2>1 DEF Range
  <2>3. ASSUME NEW n \in 1..Len(q) PROVE q[n] \in Range(t) \cup {Head(q)}
    <3>1. CASE n = 1
      BY <3>1, <1>1
    <3>2. CASE n # 1
      <4>1. n - 1 \in 1..Len(t) /\ t[n - 1] = q[n]
        BY <3>2, <1>1, <1>3
      <4> QED BY <4>1, <1>1 DEF Range
    <3> QED BY <3>1, <3>2
  <2>4. \A x \in Range(q) : \E n \in 1..Len(q) : x = q[n]
    BY <1>1 DEF Range
  <2> QED BY <2>2, <2>3, <2>4
<1>5. Head(q) \notin Range(t)
  <2>1. ASSUME NEW n \in 1..Len(t) PROVE t[n] # Head(q)
    <3>1. t[n] = q[n + 1] /\ n + 1 \in 1..Len(q) /\ n + 1 # 1 /\ 1 \in 1..Len(q)
      BY <1>1, <1>2
    <3> QED BY <3>1, <1>1 DEF Distinct
  <2> QED BY <2>1, <1>1 DEF Range
<1>6. Distinct(t)
  <2>1. ASSUME NEW m \in 1..Len(t), NEW n \in 1..Len(t), t[m] = t[n] PROVE m = n
    <3>1. q[m + 1] = q[n + 1] /\ m + 1 \in 1..Len(q) /\ n + 1 \in 1..Len(q)
      BY <2>1, <1>1, <1>2
    <3>2. m + 1 = n + 1
      BY <3>1, <1>1 DEF Distinct
    <3> QED BY <3>2
  <2> QED BY <2>1, <1>1 DEF Distinct
<1> QED BY <1>1, <1>4, <1>5, <1>6 DEF t

(***************************************************************************)
(* A cache that had room is within its cap with one address more.          *)
(***************************************************************************)
LEMMA RoomForOne ==
  ASSUME NEW S \in SUBSET IPs, NEW i \in IPs, Cardinality(S) < CacheCap
  PROVE  Cardinality(S \cup {i}) <= CacheCap
<1>1. IsFiniteSet(S)
  BY GeoAssumption, FS_Subset
<1>2. Cardinality(S) \in Nat /\ CacheCap \in Nat
  BY <1>1, FS_CardinalityType, GeoAssumption
<1>3. Cardinality(S \cup {i}) = IF i \in S THEN Cardinality(S) ELSE Cardinality(S) + 1
  BY <1>1, FS_AddElement
<1> QED BY <1>2, <1>3

(***************************************************************************)
(* Ageing an entry changes no domain.                                      *)
(***************************************************************************)
LEMMA AgedCache ==
  ASSUME NEW c \in Caches, NEW i \in IPs, NEW d,
         d = [j \in DOMAIN c |-> IF j = i THEN [c[j] EXCEPT !.fresh = FALSE] ELSE c[j]]
  PROVE  d \in Caches /\ DOMAIN d = DOMAIN c
<1>1. DOMAIN c \subseteq IPs /\ \A j \in DOMAIN c : c[j] \in Location
  BY DEF Caches
<1>2. \A j \in DOMAIN c : [c[j] EXCEPT !.fresh = FALSE] \in Location
  BY <1>1 DEF Location
<1>3. d \in [DOMAIN c -> Location]
  BY <1>1, <1>2
<1> QED BY <1>1, <1>3 DEF Caches

LEMMA EmptyCache ==
  Nowhere \in Caches /\ Cardinality(DOMAIN Nowhere) = 0
<1>1. Nowhere \in [{} -> Location] /\ DOMAIN Nowhere = {}
  BY DEF Nowhere
<1> QED BY <1>1, FS_EmptySet DEF Caches

-----------------------------------------------------------------------------
LEMMA InitIInv == GeoInit => IInv
<1> SUFFICES ASSUME GeoInit PROVE IInv
  OBVIOUS
<1> USE DEF GeoInit
<1>1. queue \in Seq(IPs) /\ Len(queue) = 0 /\ DOMAIN queue = {} /\ Range(queue) = {}
  BY EmptySeq DEF Range
<1>2. 0 <= CacheCap /\ 0 <= QueueCap /\ 0 \in 0..MaxCrashes
  BY GeoAssumption
<1>3. GeoTypeOK
  BY <1>1, <1>2, EmptyCache DEF GeoTypeOK
<1>4. CopiesBounded
  BY <1>2, EmptyCache DEF CopiesBounded
<1>5. Hands
  BY DEF Hands
<1>6. PendingIsOwned
  BY <1>1 DEF PendingIsOwned, Claimed, Queued
<1> QED BY <1>3, <1>4, <1>5, <1>6 DEF IInv

(***************************************************************************)
(* What leaves callers, channel, pending set and job alone keeps the       *)
(* invariant of the hands.                                                 *)
(***************************************************************************)
LEMMA HandsAlone ==
  ASSUME IInv, UNCHANGED <<pending, queue, at, ip, job>>,
         worker' = worker \/ worker' \in {"asking", "stored", "gone"},
         worker \in {"idle", "gone"} => worker' \in {worker, "gone"}
  PROVE  Hands' /\ PendingIsOwned'
<1>1. PendingIsOwned'
  BY DEF IInv, PendingIsOwned, Claimed, Queued
<1>2. (\A c \in Callers : at[c] = "idle" => ip[c] = {})'
  BY DEF IInv, Hands
<1>3. (\A c \in Callers : at[c] # "idle" => \E i \in IPs \ Private : ip[c] = {i})'
  BY DEF IInv, Hands
<1>4. (worker = "idle" => job = {})'
  BY DEF IInv, Hands
<1>5. (worker \in {"waiting", "asking", "stored"} => \E i \in IPs : job = {i})'
  <2> SUFFICES ASSUME worker' \in {"waiting", "asking", "stored"}
               PROVE  \E i \in IPs : job' = {i}
    OBVIOUS
  <2>1. worker \in {"waiting", "asking", "stored"}
    BY DEF IInv, GeoTypeOK
  <2> QED BY <2>1 DEF IInv, Hands
<1> QED BY <1>1, <1>2, <1>3, <1>4, <1>5 DEF Hands

(***************************************************************************)
(* The steps of a caller.                                                  *)
(***************************************************************************)
LEMMA LookupIInv ==
  ASSUME IInv, NEW c \in Callers, NEW i \in IPs, Lookup(c, i)
  PROVE  IInv'
<1> USE DEF IInv
<1>1. /\ at[c] = "idle" /\ i \in IPs \ Private
      /\ at' = [at EXCEPT ![c] = "missed"] /\ ip' = [ip EXCEPT ![c] = {i}]
      /\ UNCHANGED <<cache, pending, queue, worker, job, late, dirty, disk, life>>
  BY DEF Lookup
<1>2. GeoTypeOK'
  BY <1>1 DEF GeoTypeOK, disk, life
<1>3. Hands'
  BY <1>1 DEF Hands, GeoTypeOK
<1>4. Claimed' = Claimed /\ \A d \in Claimed : ip'[d] = ip[d]
  BY <1>1 DEF Claimed, GeoTypeOK
<1>5. PendingIsOwned'
  <2>1. Queued' = Queued /\ pending' = pending /\ job' = job /\ queue' = queue
    BY <1>1 DEF Queued
  <2>2. Owned'
    BY <2>1, <1>4 DEF PendingIsOwned, Owned
  <2> QED BY <2>1, <2>2, <1>4 DEF PendingIsOwned, Owned
<1>6. CopiesBounded'
  BY <1>1 DEF CopiesBounded, disk
<1> QED BY <1>2, <1>3, <1>5, <1>6

LEMMA ClaimIInv ==
  ASSUME IInv, NEW c \in Callers, Claim(c)
  PROVE  IInv'
<1> USE DEF IInv
<1>1. at[c] = "missed" /\ UNCHANGED <<cache, queue, worker, job, late, dirty, disk, life>>
  BY DEF Claim
<1>2. PICK i \in IPs \ Private : ip[c] = {i}
  BY <1>1 DEF Hands
<1>3. c \notin Claimed
  BY <1>1 DEF Claimed
<1>4. CopiesBounded'
  BY <1>1 DEF CopiesBounded, disk
<1>5. CASE i \in pending
  <2>1. at' = [at EXCEPT ![c] = "idle"] /\ ip' = [ip EXCEPT ![c] = {}] /\ pending' = pending
    BY <1>2, <1>5 DEF Claim, Leave
  <2>2. GeoTypeOK' /\ Hands'
    BY <2>1, <1>1 DEF GeoTypeOK, Hands, disk, life
  <2>3. Claimed' = Claimed /\ \A d \in Claimed : ip'[d] = ip[d]
    BY <2>1, <1>3 DEF Claimed, GeoTypeOK
  <2>4. PendingIsOwned'
    BY <2>1, <2>3, <1>1 DEF PendingIsOwned, Queued
  <2> QED BY <2>2, <2>4, <1>4
<1>6. CASE i \notin pending
  <2>1. at' = [at EXCEPT ![c] = "claimed"] /\ pending' = pending \cup {i} /\ ip' = ip
    BY <1>2, <1>6 DEF Claim
  <2>2. GeoTypeOK' /\ Hands'
    BY <2>1, <1>1, <1>2 DEF GeoTypeOK, Hands, disk, life
  <2>3. Claimed' = Claimed \cup {c}
    BY <2>1 DEF Claimed, GeoTypeOK
  <2>4. \A d \in Claimed : i \notin ip[d]
    BY <1>6 DEF PendingIsOwned
  <2>5. i \notin Queued \cup job
    BY <1>6 DEF PendingIsOwned
  <2>6. Owned'
    BY <2>1, <2>3, <1>1, <1>2 DEF PendingIsOwned, Owned, Queued
  <2>7. PendingIsOwned'
    BY <2>1, <2>3, <2>4, <2>5, <2>6, <1>1, <1>2 DEF PendingIsOwned, Owned, Queued
  <2> QED BY <2>2, <2>7, <1>4
<1> QED BY <1>5, <1>6

LEMMA SendIInv ==
  ASSUME IInv, NEW c \in Callers, Send(c)
  PROVE  IInv'
<1> USE DEF IInv
<1>1. at[c] = "claimed" /\ UNCHANGED <<cache, pending, worker, job, late, dirty, disk, life>>
  BY DEF Send
<1>2. PICK i \in IPs \ Private : ip[c] = {i}
  BY <1>1 DEF Hands
<1>3. c \in Claimed
  BY <1>1 DEF Claimed
<1>4. CopiesBounded'
  BY <1>1 DEF CopiesBounded, disk
<1>5. CASE Len(queue) < QueueCap
  <2>1. /\ queue' = Append(queue, i)
        /\ at' = [at EXCEPT ![c] = "idle"] /\ ip' = [ip EXCEPT ![c] = {}]
    BY <1>2, <1>5 DEF Send, Leave
  <2>2. i \notin Queued /\ i \notin job /\ \A d \in Claimed : d # c => i \notin ip[d]
    <3>1. i \notin Queued /\ i \notin job
      BY <1>2, <1>3 DEF PendingIsOwned
    <3>2. ASSUME NEW d \in Claimed, i \in ip[d] PROVE d = c
      <4>1. \E j \in IPs : ip[d] = {j}
        BY DEF Hands, Claimed
      <4> QED BY <4>1, <3>2, <1>2, <1>3 DEF PendingIsOwned
    <3> QED BY <3>1, <3>2
  <2>3. /\ queue \in Seq(IPs) /\ Distinct(queue)
        /\ Len(queue) \in Nat /\ QueueCap \in Nat
    BY GeoAssumption, LenProperties DEF GeoTypeOK, PendingIsOwned, Distinct
  <2>4. /\ queue' \in Seq(IPs) /\ Len(queue') = Len(queue) + 1
        /\ Queued' = Queued \cup {i} /\ Distinct(queue')
    BY <2>1, <2>2, <2>3, AppendQueued DEF Queued
  <2>5. Len(queue') <= QueueCap
    BY <2>3, <2>4, <1>5
  <2>6. GeoTypeOK' /\ Hands'
    BY <2>1, <2>4, <2>5, <1>1 DEF GeoTypeOK, Hands, disk, life
  <2>7. Claimed' = Claimed \ {c} /\ \A d \in Claimed' : ip'[d] = ip[d]
    BY <2>1 DEF Claimed, GeoTypeOK
  <2>8. Owned'
    <3>1. \A x \in IPs : (\E d \in Claimed : x \in ip[d]) <=> x = i \/ \E d \in Claimed' : x \in ip'[d]
      BY <2>7, <1>2, <1>3
    <3>2. pending = {x \in IPs : x \in Queued \cup job \/ \E d \in Claimed : x \in ip[d]}
      BY DEF PendingIsOwned
    <3>3. pending' = pending /\ job' = job /\ Queued' = Queued \cup {i}
      BY <2>4, <1>1
    <3>4. pending' = {x \in IPs : x \in Queued' \cup job'
                                  \/ \E d \in Claimed' : x \in ip'[d]}
      BY <3>1, <3>2, <3>3
    <3> QED BY <3>4 DEF Owned
  <2>9. \A d \in Claimed' : ip'[d] \cap (Queued' \cup job') = {}
    BY <2>2, <2>4, <2>7, <1>1 DEF PendingIsOwned
  <2>10. PendingIsOwned'
    BY <2>2, <2>4, <2>7, <2>8, <2>9, <1>1 DEF PendingIsOwned, Owned, Distinct
  <2> QED BY <2>6, <2>10, <1>4
<1>6. CASE ~(Len(queue) < QueueCap)
  <2>1. at' = [at EXCEPT ![c] = "refused"] /\ UNCHANGED <<queue, ip>>
    BY <1>6 DEF Send
  <2>2. GeoTypeOK' /\ Hands'
    BY <2>1, <1>1 DEF GeoTypeOK, Hands, disk, life
  <2>3. Claimed' = Claimed
    BY <2>1, <1>3 DEF Claimed, GeoTypeOK
  <2>4. PendingIsOwned'
    BY <2>1, <2>3, <1>1 DEF PendingIsOwned, Queued
  <2> QED BY <2>2, <2>4, <1>4
<1> QED BY <1>5, <1>6

LEMMA UnclaimIInv ==
  ASSUME IInv, NEW c \in Callers, Unclaim(c)
  PROVE  IInv'
<1> USE DEF IInv
<1>1. /\ at[c] = "refused" /\ pending' = pending \ ip[c]
      /\ at' = [at EXCEPT ![c] = "idle"] /\ ip' = [ip EXCEPT ![c] = {}]
      /\ UNCHANGED <<cache, queue, worker, job, late, dirty, disk, life>>
  BY DEF Unclaim, Leave
<1>2. c \in Claimed /\ Claimed' = Claimed \ {c} /\ \A d \in Claimed' : ip'[d] = ip[d]
  BY <1>1 DEF Claimed, GeoTypeOK
<1>3. GeoTypeOK' /\ Hands'
  BY <1>1 DEF GeoTypeOK, Hands, disk, life
<1>4. \A d \in Claimed' : ip[d] \cap ip[c] = {}
  <2> SUFFICES ASSUME NEW d \in Claimed' PROVE ip[d] \cap ip[c] = {}
    OBVIOUS
  <2>1. d \in Claimed /\ d # c
    BY <1>2
  <2>2. PICK i \in IPs : ip[c] = {i}
    BY <1>1 DEF Hands
  <2>3. PICK j \in IPs : ip[d] = {j}
    BY <2>1 DEF Hands, Claimed
  <2>4. ip[d] # ip[c]
    BY <2>1, <1>2 DEF PendingIsOwned
  <2> QED BY <2>2, <2>3, <2>4
<1>5. Owned'
  <2>1. \A x \in IPs : (\E d \in Claimed : x \in ip[d])
                <=> x \in ip[c] \/ \E d \in Claimed' : x \in ip'[d]
    BY <1>2
  <2>2. \A x \in ip[c] : ~ \E d \in Claimed' : x \in ip'[d]
    BY <1>2, <1>4
  <2>3. \A x \in ip[c] : x \notin Queued /\ x \notin job
    BY <1>2 DEF PendingIsOwned
  <2>4. Queued' = Queued /\ job' = job
    BY <1>1 DEF Queued
  <2>5. pending = {x \in IPs : x \in Queued \cup job \/ \E d \in Claimed : x \in ip[d]}
    BY DEF PendingIsOwned
  <2>6. pending' = {x \in IPs : x \in Queued' \cup job' \/ \E d \in Claimed' : x \in ip'[d]}
    BY <2>1, <2>2, <2>3, <2>4, <2>5, <1>1
  <2> QED BY <2>6 DEF Owned
<1>6. PendingIsOwned'
  BY <1>1, <1>2, <1>5 DEF PendingIsOwned, Owned, Queued
<1>7. CopiesBounded'
  BY <1>1 DEF CopiesBounded, disk
<1> QED BY <1>3, <1>6, <1>7

(***************************************************************************)
(* The steps of the worker that move an address.                           *)
(***************************************************************************)
LEMMA ReceiveIInv ==
  ASSUME IInv, Receive
  PROVE  IInv'
<1> USE DEF IInv
<1>1. /\ worker = "idle" /\ queue # <<>> /\ job' = {Head(queue)}
      /\ queue' = Tail(queue) /\ worker' = "waiting"
      /\ UNCHANGED <<cache, pending, at, ip, late, dirty, disk, life>>
  BY DEF Receive
<1>2. queue \in Seq(IPs) /\ Distinct(queue) /\ job = {} /\ Len(queue) <= QueueCap
  BY <1>1 DEF GeoTypeOK, PendingIsOwned, Distinct, Hands
<1>3. /\ queue' \in Seq(IPs) /\ Len(queue') = Len(queue) - 1
      /\ Head(queue) \in IPs /\ Head(queue) \notin Queued'
      /\ Queued = Queued' \cup {Head(queue)} /\ Distinct(queue')
  BY <1>1, <1>2, TailQueued DEF Queued
<1>4. Len(queue') <= QueueCap
  BY <1>2, <1>3, GeoAssumption, LenProperties
<1>5. GeoTypeOK' /\ Hands'
  BY <1>1, <1>3, <1>4 DEF GeoTypeOK, Hands, disk, life
<1>6. Claimed' = Claimed
  BY <1>1 DEF Claimed
<1>7. Owned'
  BY <1>1, <1>2, <1>3, <1>6 DEF PendingIsOwned, Owned
<1>8. PendingIsOwned'
  BY <1>1, <1>2, <1>3, <1>6, <1>7 DEF PendingIsOwned, Owned, Distinct
<1>9. CopiesBounded'
  BY <1>1 DEF CopiesBounded, disk
<1> QED BY <1>5, <1>8, <1>9

LEMMA StoreIInv ==
  ASSUME IInv, NEW reply \in Replies, Store(reply)
  PROVE  IInv'
<1> USE DEF IInv
<1>1. /\ worker = "asking" /\ worker' = "stored"
      /\ UNCHANGED <<pending, queue, at, ip, job, saver, snap, file, life>>
  BY DEF Store
<1>2. PICK i \in IPs : job = {i}
  BY <1>1 DEF Hands
<1>3. /\ cache' \in Caches /\ Cardinality(DOMAIN cache') <= CacheCap
      /\ dirty' \in BOOLEAN /\ late' \subseteq IPs
  <2>1. CASE ~Room
    BY <2>1 DEF Store, GeoTypeOK
  <2>2. CASE Room
    <3>1. /\ cache' = [j \in DOMAIN cache \cup {i} |->
                        IF j \in {i} THEN [failed |-> Failed(reply), fresh |-> TRUE]
                                     ELSE cache[j]]
          /\ dirty' = TRUE
      BY <2>2, <1>2 DEF Store
    <3>2. DOMAIN cache \subseteq IPs /\ \A j \in DOMAIN cache : cache[j] \in Location
      BY DEF GeoTypeOK, Caches
    <3>3. [failed |-> Failed(reply), fresh |-> TRUE] \in Location
      BY DEF Location, Failed
    <3>4. cache' \in [DOMAIN cache \cup {i} -> Location]
      BY <3>1, <3>2, <3>3
    <3>5. cache' \in Caches /\ DOMAIN cache' = DOMAIN cache \cup {i}
      BY <3>2, <3>4 DEF Caches
    <3>6. Cardinality(DOMAIN cache') <= CacheCap
      BY <2>2, <3>2, <3>5, RoomForOne DEF Room
    <3>7. late' \subseteq IPs
      BY <2>2, <1>2 DEF Store, GeoTypeOK
    <3> QED BY <3>1, <3>5, <3>6, <3>7
  <2> QED BY <2>1, <2>2
<1>4. Hands' /\ PendingIsOwned'
  BY <1>1, HandsAlone
<1>5. GeoTypeOK'
  BY <1>1, <1>3 DEF GeoTypeOK, life
<1>6. CopiesBounded'
  BY <1>1 DEF CopiesBounded
<1> QED BY <1>4, <1>5, <1>6

LEMMA ReleaseIInv ==
  ASSUME IInv, Release
  PROVE  IInv'
<1> USE DEF IInv
<1>1. /\ worker = "stored" /\ pending' = pending \ job /\ job' = {} /\ worker' = "idle"
      /\ UNCHANGED <<cache, queue, at, ip, late, dirty, disk, life>>
  BY DEF Release
<1>2. Claimed' = Claimed /\ Queued' = Queued
  BY <1>1 DEF Claimed, Queued
<1>3. GeoTypeOK' /\ Hands'
  BY <1>1 DEF GeoTypeOK, Hands, disk, life
<1>4. Owned'
  <2>1. \A x \in job : x \notin Queued /\ ~ \E d \in Claimed : x \in ip[d]
    BY DEF PendingIsOwned
  <2>2. pending = {x \in IPs : x \in Queued \cup job \/ \E d \in Claimed : x \in ip[d]}
    BY DEF PendingIsOwned
  <2>3. pending' = {x \in IPs : x \in Queued' \cup job' \/ \E d \in Claimed' : x \in ip'[d]}
    BY <2>1, <2>2, <1>1, <1>2
  <2> QED BY <2>3 DEF Owned
<1>5. PendingIsOwned'
  BY <1>1, <1>2, <1>4 DEF PendingIsOwned, Owned
<1>6. CopiesBounded'
  BY <1>1 DEF CopiesBounded, disk
<1> QED BY <1>3, <1>5, <1>6

(***************************************************************************)
(* A start has nothing pending and the cache of the file.                  *)
(***************************************************************************)
LEMMA RestartIInv ==
  ASSUME IInv, Restart
  PROVE  IInv'
<1> USE DEF IInv
<1>1. /\ cache' = file /\ pending' = {} /\ queue' = <<>>
      /\ at' = [c \in Callers |-> "idle"] /\ ip' = [c \in Callers |-> {}]
      /\ worker' = "idle" /\ job' = {} /\ late' = {} /\ dirty' = FALSE
      /\ saver' = "idle" /\ snap' = Nowhere /\ run' = "up" /\ file' = file
  BY DEF Restart
<1>2. crashes' \in 0..MaxCrashes
  BY GeoAssumption DEF Restart, GeoTypeOK
<1>3. queue' \in Seq(IPs) /\ Len(queue') = 0 /\ DOMAIN queue' = {} /\ Queued' = {}
  BY <1>1, EmptySeq DEF Queued, Range
<1>4. 0 <= CacheCap /\ 0 <= QueueCap
  BY GeoAssumption
<1>5. GeoTypeOK'
  BY <1>1, <1>2, <1>3, <1>4, EmptyCache DEF GeoTypeOK, CopiesBounded
<1>6. CopiesBounded'
  BY <1>1, <1>4, EmptyCache DEF CopiesBounded
<1>7. Hands'
  BY <1>1 DEF Hands
<1>8. PendingIsOwned'
  BY <1>1, <1>3 DEF PendingIsOwned, Claimed
<1> QED BY <1>5, <1>6, <1>7, <1>8

(***************************************************************************)
(* The other steps change caches, saver and worker only.                   *)
(***************************************************************************)
LEMMA NextIInv == IInv /\ [GeoNext]_geoVars => IInv'
<1> SUFFICES ASSUME IInv, [GeoNext]_geoVars PROVE IInv'
  OBVIOUS
<1> USE DEF IInv
<1>0. 0 <= CacheCap
  BY GeoAssumption
<1>a. ASSUME GeoTypeOK', CopiesBounded', UNCHANGED asking PROVE IInv'
  BY <1>a, HandsAlone DEF asking
<1>1. CASE UNCHANGED geoVars
  BY <1>1, <1>a DEF geoVars, asking, disk, life, GeoTypeOK, CopiesBounded
<1>2. ASSUME NEW c \in Callers, Call(c) PROVE IInv'
  BY <1>2, ClaimIInv, SendIInv, UnclaimIInv DEF Call
<1>3. ASSUME NEW c \in Callers, NEW i \in IPs, Lookup(c, i) PROVE IInv'
  BY <1>3, LookupIInv
<1>4. CASE Work
  <2>1. CASE Fetch
    BY <2>1, HandsAlone DEF Fetch, GeoTypeOK, CopiesBounded, disk, life
  <2> QED BY <1>4, <2>1, ReceiveIInv, StoreIInv, ReleaseIInv DEF Work
<1>5. ASSUME NEW i \in IPs, Expire(i) PROVE IInv'
  <2> DEFINE Aged(c) == [j \in DOMAIN c |-> IF j = i THEN [c[j] EXCEPT !.fresh = FALSE]
                                                   ELSE c[j]]
  <2>1. /\ cache' = Aged(cache) /\ snap' = Aged(snap) /\ file' = Aged(file)
        /\ UNCHANGED <<asking, dirty, saver, life>>
    BY <1>5 DEF Expire
  <2>2. cache \in Caches /\ snap \in Caches /\ file \in Caches
    BY DEF GeoTypeOK
  <2>3. /\ cache' \in Caches /\ DOMAIN cache' = DOMAIN cache
        /\ snap' \in Caches /\ DOMAIN snap' = DOMAIN snap
        /\ file' \in Caches /\ DOMAIN file' = DOMAIN file
    BY <2>1, <2>2, AgedCache
  <2> HIDE DEF Aged
  <2> QED BY <2>1, <2>3, <1>a DEF GeoTypeOK, CopiesBounded, asking, life
<1>6. CASE Snapshot
  BY <1>6, <1>a DEF Snapshot, GeoTypeOK, CopiesBounded, asking, life
<1>7. CASE Replace
  BY <1>7, <1>0, <1>a, EmptyCache DEF Replace, GeoTypeOK, CopiesBounded, asking, life
<1>8. CASE SaveFails
  BY <1>8, <1>0, <1>a, EmptyCache DEF SaveFails, Returns, GeoTypeOK, CopiesBounded, asking
<1>9. CASE ClearDirty
  BY <1>9, <1>a DEF ClearDirty, Returns, GeoTypeOK, CopiesBounded, asking
<1>10. CASE Close
  BY <1>10, <1>a DEF Close, GeoTypeOK, CopiesBounded, asking, disk
<1>11. CASE WorkerEnds
  BY <1>11, HandsAlone DEF WorkerEnds, GeoTypeOK, CopiesBounded, disk, life
<1>12. CASE LastSave
  BY <1>12, <1>a DEF LastSave, GeoTypeOK, CopiesBounded, asking
<1> QED
  BY <1>1, <1>2, <1>3, <1>4, <1>5, <1>6, <1>7, <1>8, <1>9, <1>10, <1>11, <1>12,
     RestartIInv DEF GeoNext

-----------------------------------------------------------------------------
(***************************************************************************)
(* The strengthened invariant holds in every behaviour of the resolver.    *)
(***************************************************************************)
THEOREM GeoInvariance == GeoSpec => []IInv
BY InitIInv, NextIInv, PTL DEF GeoSpec

(***************************************************************************)
(* Types; the channel holds no more than its capacity and the cache no     *)
(* more than maxCacheEntries (geoip.go, Queue and store).                  *)
(***************************************************************************)
THEOREM GeoTypeCorrect == GeoSpec => []GeoTypeOK
<1>1. IInv => GeoTypeOK
  BY DEF IInv
<1> QED BY <1>1, GeoInvariance, PTL

(***************************************************************************)
(* Each pending address is in one pair of hands, though pending, channel   *)
(* and cache are looked at one after the other (geoip.go, Queue).          *)
(***************************************************************************)
THEOREM PendingStaysOwned == GeoSpec => []PendingIsOwned
<1>1. IInv => PendingIsOwned
  BY DEF IInv
<1> QED BY <1>1, GeoInvariance, PTL

-----------------------------------------------------------------------------
\* The state of Errands the resolver stands for.
Errands == [i \in IPs |-> Errand(i)]

LEMMA ErrandsStart == GeoInit => E!ErrandsInit
BY DEF GeoInit, Errand, E!ErrandsInit

(***************************************************************************)
(* A step that moves one address is one of Errands'; one that changes      *)
(* neither pending nor job is none.                                        *)
(***************************************************************************)
LEMMA MovesOne ==
  ASSUME NEW a \in IPs, NEW from, NEW to, Errand(a) = from, Errand(a)' = to,
         \A i \in IPs : i # a => Errand(i)' = Errand(i)
  PROVE  E!Moves(a, from, to)
BY DEF E!Moves

LEMMA MovesNone ==
  ASSUME UNCHANGED <<pending, job>>
  PROVE  UNCHANGED Errands
BY DEF Errands, Errand

LEMMA ClaimAsks ==
  ASSUME IInv, NEW c \in Callers, Claim(c)
  PROVE  [E!ErrandsNext]_Errands
<1> USE DEF IInv
<1>1. at[c] = "missed" /\ job' = job
  BY DEF Claim
<1>2. PICK i \in IPs \ Private : ip[c] = {i}
  BY <1>1 DEF Hands
<1>3. CASE i \in pending
  BY <1>1, <1>2, <1>3, MovesNone DEF Claim
<1>4. CASE i \notin pending
  <2>1. pending' = pending \cup {i}
    BY <1>2, <1>4 DEF Claim
  <2>2. i \notin job
    BY <1>4 DEF PendingIsOwned
  <2>3. Errand(i) = "idle" /\ Errand(i)' = "asked"
    BY <2>1, <2>2, <1>1, <1>4 DEF Errand
  <2>4. \A j \in IPs : j # i => Errand(j)' = Errand(j)
    BY <2>1, <1>1 DEF Errand
  <2>5. E!Ask(i)
    BY <2>3, <2>4, MovesOne DEF E!Ask
  <2> QED BY <2>5 DEF E!ErrandsNext
<1> QED BY <1>3, <1>4

LEMMA UnclaimDrops ==
  ASSUME IInv, NEW c \in Callers, Unclaim(c)
  PROVE  [E!ErrandsNext]_Errands
<1> USE DEF IInv
<1>1. at[c] = "refused" /\ job' = job /\ pending' = pending \ ip[c]
  BY DEF Unclaim
<1>2. PICK i \in IPs \ Private : ip[c] = {i}
  BY <1>1 DEF Hands
<1>3. c \in Claimed
  BY <1>1 DEF Claimed
<1>4. i \in pending /\ i \notin job
  BY <1>2, <1>3 DEF PendingIsOwned
<1>5. Errand(i) = "asked" /\ Errand(i)' = "idle"
  BY <1>1, <1>2, <1>4 DEF Errand
<1>6. \A j \in IPs : j # i => Errand(j)' = Errand(j)
  BY <1>1, <1>2 DEF Errand
<1>7. E!Drop(i)
  BY <1>5, <1>6, MovesOne DEF E!Drop
<1> QED BY <1>7 DEF E!ErrandsNext

LEMMA ReceiveBegins ==
  ASSUME IInv, Receive
  PROVE  [E!ErrandsNext]_Errands
<1> USE DEF IInv
<1>1. /\ worker = "idle" /\ queue # <<>> /\ job' = {Head(queue)}
      /\ pending' = pending
  BY DEF Receive
<1>2. queue \in Seq(IPs) /\ Distinct(queue) /\ job = {}
  BY <1>1 DEF GeoTypeOK, PendingIsOwned, Distinct, Hands
<1>3. PICK i \in IPs : i = Head(queue) /\ i \in Queued
  BY <1>1, <1>2, TailQueued DEF Queued
<1>4. i \in pending
  BY <1>3 DEF PendingIsOwned
<1>5. Errand(i) = "asked" /\ Errand(i)' = "doing"
  BY <1>1, <1>2, <1>3, <1>4 DEF Errand
<1>6. \A j \in IPs : j # i => Errand(j)' = Errand(j)
  BY <1>1, <1>2, <1>3 DEF Errand
<1>7. \A j \in IPs : Errands[j] # "doing"
  BY <1>2 DEF Errands, Errand
<1>8. E!Begin(i)
  BY <1>5, <1>6, <1>7, MovesOne DEF E!Begin, Errands
<1> QED BY <1>8 DEF E!ErrandsNext

LEMMA ReleaseEnds ==
  ASSUME IInv, Release
  PROVE  [E!ErrandsNext]_Errands
<1> USE DEF IInv
<1>1. worker = "stored" /\ pending' = pending \ job /\ job' = {}
  BY DEF Release
<1>2. PICK i \in IPs : job = {i}
  BY <1>1 DEF Hands
<1>3. Errand(i) = "doing" /\ Errand(i)' = "idle"
  BY <1>1, <1>2 DEF Errand
<1>4. \A j \in IPs : j # i => Errand(j)' = Errand(j)
  BY <1>1, <1>2 DEF Errand
<1>5. E!End(i)
  BY <1>3, <1>4, MovesOne DEF E!End
<1> QED BY <1>5 DEF E!ErrandsNext

LEMMA RestartLoses ==
  ASSUME Restart
  PROVE  [E!ErrandsNext]_Errands
<1>1. pending' = {} /\ job' = {}
  BY DEF Restart
<1>2. \A i \in IPs : Errand(i)' = "idle"
  BY <1>1 DEF Errand
<1>3. E!Lose
  BY <1>2 DEF E!Lose
<1> QED BY <1>3 DEF E!ErrandsNext

LEMMA StepIsErrand ==
  ASSUME IInv, [GeoNext]_geoVars
  PROVE  [E!ErrandsNext]_Errands
<1>1. CASE UNCHANGED geoVars
  BY <1>1, MovesNone DEF geoVars, asking
<1>2. ASSUME NEW c \in Callers, Call(c) PROVE [E!ErrandsNext]_Errands
  BY <1>2, ClaimAsks, UnclaimDrops, MovesNone DEF Call, Send
<1>3. ASSUME NEW c \in Callers, NEW i \in IPs, Lookup(c, i)
      PROVE  [E!ErrandsNext]_Errands
  BY <1>3, MovesNone DEF Lookup
<1>4. CASE Work
  BY <1>4, ReceiveBegins, ReleaseEnds, MovesNone DEF Work, Fetch, Store
<1>5. ASSUME NEW i \in IPs, Expire(i) PROVE [E!ErrandsNext]_Errands
  BY <1>5, MovesNone DEF Expire, asking
<1>6. CASE Snapshot \/ Replace \/ SaveFails \/ ClearDirty
  BY <1>6, MovesNone DEF Snapshot, Replace, SaveFails, ClearDirty, Returns, asking
<1>7. CASE Close \/ WorkerEnds \/ LastSave
  BY <1>7, MovesNone DEF Close, WorkerEnds, LastSave, asking
<1> QED
  BY <1>1, <1>2, <1>3, <1>4, <1>5, <1>6, <1>7, RestartLoses DEF GeoNext

(***************************************************************************)
(* The resolver implements Errands: asked for at most once at a time, one  *)
(* address at a time with the provider, whatever callers, worker, saver    *)
(* and crashes do (geoip.go, Queue and worker).                            *)
(***************************************************************************)
THEOREM GeoImplementsErrands == GeoSpec => ErrandsPromise
<1>1. GeoInit => E!ErrandsInit
  BY ErrandsStart
<1>2. IInv /\ [GeoNext]_geoVars => [E!ErrandsNext]_Errands
  BY StepIsErrand
<1> QED BY <1>1, <1>2, GeoInvariance, PTL DEF GeoSpec, ErrandsPromise, E!ErrandsSpec, Errands

-----------------------------------------------------------------------------
(***************************************************************************)
(* Why an address may be asked for while its answer is fresh: a caller saw *)
(* the cache without it, and the answer came before that caller's claim.   *)
(***************************************************************************)
CauseInv ==
  /\ \A c \in Callers : at[c] = "missed" => ip[c] \cap Fresh \subseteq late
  /\ \A i \in pending : i \in Fresh => i \in late \/ (worker = "stored" /\ i \in job)

LEMMA InitCause == GeoInit => CauseInv
BY DEF GeoInit, CauseInv

\* No step but Store makes an entry fresh or forgets that it came late.
LEMMA CauseKept ==
  ASSUME CauseInv, Fresh' \subseteq Fresh, late' = late, worker' = worker, job' = job,
         UNCHANGED <<at, ip, pending>>
  PROVE  CauseInv'
BY DEF CauseInv

LEMMA StoreCause ==
  ASSUME IInv, CauseInv, NEW reply \in Replies, Store(reply)
  PROVE  CauseInv'
<1>1. worker = "asking" /\ worker' = "stored" /\ UNCHANGED <<at, ip, pending, job>>
  BY DEF Store
<1>2. PICK i \in IPs : job = {i}
  BY <1>1 DEF IInv, Hands
<1>3. CASE ~Room
  <2>1. Fresh' = Fresh /\ late' = late
    BY <1>3 DEF Store, Fresh
  <2> QED BY <2>1, <1>1 DEF CauseInv
<1>4. CASE Room
  <2>1. /\ cache' = [j \in DOMAIN cache \cup {i} |->
                       IF j \in {i} THEN [failed |-> Failed(reply), fresh |-> TRUE]
                                    ELSE cache[j]]
        /\ late' = (late \ {i}) \cup {j \in {i} : \E c \in Callers :
                                              at[c] = "missed" /\ ip[c] = {j}}
    BY <1>2, <1>4 DEF Store
  <2>2. \A j \in Fresh' : j = i \/ j \in Fresh
    BY <2>1 DEF Fresh
  <2>3. \A j : j # i /\ j \in late => j \in late'
    BY <2>1
  <2>4. ASSUME NEW c \in Callers, at'[c] = "missed", NEW j \in ip'[c], j \in Fresh'
        PROVE  j \in late'
    <3>1. at[c] = "missed" /\ ip[c] = {j}
      BY <1>1, <2>4 DEF IInv, Hands
    <3>2. CASE j = i
      BY <3>1, <3>2, <2>1
    <3>3. CASE j # i
      BY <3>1, <3>3, <2>2, <2>3, <2>4 DEF CauseInv
    <3> QED BY <3>2, <3>3
  <2>5. ASSUME NEW j \in pending', j \in Fresh', j # i PROVE j \in late'
    BY <2>2, <2>3, <2>5, <1>1, <1>2 DEF CauseInv
  <2> QED BY <2>4, <2>5, <1>1, <1>2 DEF CauseInv
<1> QED BY <1>3, <1>4

LEMMA CallCause ==
  ASSUME IInv, CauseInv, NEW c \in Callers, Call(c) \/ \E i \in IPs : Lookup(c, i)
  PROVE  CauseInv'
<1>1. UNCHANGED <<cache, worker, job, late>> /\ Fresh' = Fresh
  BY DEF Call, Claim, Send, Unclaim, Lookup, Leave, Fresh
<1>2. \A d \in Callers : d # c => at'[d] = at[d] /\ ip'[d] = ip[d]
  BY DEF Call, Claim, Send, Unclaim, Lookup, Leave, IInv, GeoTypeOK
<1>3. at'[c] = "missed" => ip'[c] \cap Fresh = {}
  BY DEF Call, Claim, Send, Unclaim, Lookup, Leave, IInv, GeoTypeOK
<1>4. \A i \in pending' : i \in pending \/ (at[c] = "missed" /\ i \in ip[c])
  BY DEF Call, Claim, Send, Unclaim, Lookup
<1> QED BY <1>1, <1>2, <1>3, <1>4 DEF CauseInv

LEMMA NextCause == IInv /\ CauseInv /\ [GeoNext]_geoVars => CauseInv'
<1> SUFFICES ASSUME IInv, CauseInv, [GeoNext]_geoVars PROVE CauseInv'
  OBVIOUS
<1>1. CASE UNCHANGED geoVars
  BY <1>1, CauseKept DEF geoVars, asking, Fresh
<1>2. CASE \E c \in Callers : Call(c) \/ \E i \in IPs : Lookup(c, i)
  BY <1>2, CallCause
<1>3. CASE Work
  <2>1. CASE Receive \/ Fetch
    BY <2>1 DEF Receive, Fetch, CauseInv, Fresh
  <2>2. CASE Release
    BY <2>2 DEF Release, CauseInv, Fresh
  <2> QED BY <1>3, <2>1, <2>2, StoreCause DEF Work
<1>4. ASSUME NEW i \in IPs, Expire(i) PROVE CauseInv'
  <2>1. cache' = [j \in DOMAIN cache |->
                   IF j = i THEN [cache[j] EXCEPT !.fresh = FALSE] ELSE cache[j]]
    BY <1>4 DEF Expire
  <2>2. \A j \in DOMAIN cache : cache[j] \in Location
    BY DEF IInv, GeoTypeOK, Caches
  <2>3. ASSUME NEW j \in Fresh' PROVE j \in Fresh
    <3>1. j \in DOMAIN cache /\ cache'[j].fresh
      BY <2>1 DEF Fresh
    <3>2. CASE j = i
      BY <3>1, <3>2, <2>1, <2>2 DEF Location
    <3>3. CASE j # i
      BY <3>1, <3>3, <2>1 DEF Fresh
    <3> QED BY <3>2, <3>3
  <2> QED BY <2>3, <1>4, CauseKept DEF Expire, asking
<1>5. CASE Snapshot \/ Replace \/ SaveFails \/ ClearDirty
  BY <1>5, CauseKept DEF Snapshot, Replace, SaveFails, ClearDirty, Returns, asking, Fresh
<1>6. CASE Close \/ LastSave
  BY <1>6, CauseKept DEF Close, LastSave, asking, Fresh
<1>7. CASE WorkerEnds
  BY <1>7 DEF WorkerEnds, CauseInv, Fresh
<1>8. CASE Restart
  BY <1>8 DEF Restart, CauseInv
<1> QED
  BY <1>1, <1>2, <1>3, <1>4, <1>5, <1>6, <1>7, <1>8 DEF GeoNext

(***************************************************************************)
(* The provider is asked again for a fresh address only when a caller had  *)
(* looked before the answer came (geoip.go, Lookup, Queue and worker).     *)
(***************************************************************************)
THEOREM AskedAgainOnlyForCause == GeoSpec => AskedAgainForCause
<1>1. IInv /\ CauseInv /\ Fetch => \A i \in job : i \in Fresh => i \in late
  <2> SUFFICES ASSUME IInv, CauseInv, Fetch, NEW i \in job, i \in Fresh PROVE i \in late
    OBVIOUS
  <2>1. i \in pending /\ worker # "stored"
    BY DEF IInv, PendingIsOwned, GeoTypeOK, Fetch
  <2> QED BY <2>1 DEF CauseInv
<1>2. IInv /\ CauseInv => [Fetch => \A i \in job : i \in Fresh => i \in late]_geoVars
  BY <1>1
<1> QED
  BY <1>2, GeoInvariance, InitCause, NextCause, PTL DEF GeoSpec, AskedAgainForCause
=============================================================================
