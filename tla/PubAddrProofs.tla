---------------------------- MODULE PubAddrProofs ----------------------------
(***************************************************************************)
(* Proofs about the tracker of the public address, for any addresses,      *)
(* topics and length of the history: the types, and that the recorded      *)
(* changes form a chain in memory and on disk.                             *)
(***************************************************************************)
EXTENDS PubAddr, SequenceTheorems, TLAPS

\* Between two checks the tracker's address is the last one recorded.  During a
\* check the previous one is, until the change is.
Recorded ==
  /\ at = "idle" => ip = previous
  /\ at \in {"idle", "save"} => ip = LastIP(history)
  /\ at \in {"push", "publish", "record"} => previous = LastIP(history)
  /\ at \in {"push", "publish", "record", "save"} => ip \in Addresses
  /\ at = "record" => Changed

IInv == PubTypeOK /\ HistoryIsChain /\ Recorded

-----------------------------------------------------------------------------
(***************************************************************************)
(* The last address of a history is an address, or None in an empty one.   *)
(***************************************************************************)
LEMMA LastIPType ==
  ASSUME NEW h \in Seq(Change)
  PROVE  LastIP(h) \in Addresses \cup {None}
<1>1. CASE h = <<>>
  BY <1>1 DEF LastIP
<1>2. CASE h # <<>>
  <2>1. Len(h) \in 1..Len(h)
    BY <1>2, EmptySeq, LenProperties
  <2>2. h[Len(h)] \in Change
    BY <2>1, ElementOfSeq
  <2> QED BY <1>2, <2>2 DEF LastIP, Change
<1> QED BY <1>1, <1>2

(***************************************************************************)
(* recordChange: a change that starts where the history ends extends the   *)
(* chain, and dropping the oldest changes keeps it one.                    *)
(***************************************************************************)
LEMMA RecordKeepsChain ==
  ASSUME NEW h \in Seq(Change), NEW x \in Change, Chain(h),
         x.from = LastIP(h), x.from # x.to,
         NEW a, a = Append(h, x), NEW t, t = Trim(a)
  PROVE  /\ t \in Seq(Change) /\ Len(t) <= MaxHistory
         /\ Chain(t)
         /\ LastIP(t) = x.to
<1>0. MaxHistory \in Nat /\ MaxHistory >= 1
  BY PubAddrAssumption
<1>1. /\ a \in Seq(Change) /\ Len(a) = Len(h) + 1 /\ Len(h) \in Nat /\ Len(a) \in Nat
      /\ \A n \in 1..Len(h) : a[n] = h[n]
      /\ a[Len(h) + 1] = x
  BY AppendProperties, LenProperties
<1>2. Chain(a)
  <2>1. ASSUME NEW n \in 1..Len(a) PROVE a[n].from # a[n].to
    BY <1>1 DEF Chain
  <2>2. ASSUME NEW n \in 1..Len(a) - 1 PROVE a[n + 1].from = a[n].to
    <3>1. CASE n = Len(h)
      <4>1. h # <<>>
        BY <3>1, <1>1, EmptySeq
      <4> QED BY <3>1, <4>1, <1>1 DEF LastIP
    <3>2. CASE n # Len(h)
      BY <3>2, <1>1 DEF Chain
    <3> QED BY <3>1, <3>2
  <2> QED BY <2>1, <2>2 DEF Chain
<1>3. CASE Len(a) <= MaxHistory
  <2>1. t = a
    BY <1>3, <1>1, <1>0 DEF Trim
  <2>2. a # <<>>
    BY <1>1, EmptySeq
  <2> QED BY <2>1, <2>2, <1>1, <1>2, <1>3 DEF LastIP
<1>4. CASE Len(a) > MaxHistory
  <2>0. PICK k \in Nat : /\ k = Len(a) - MaxHistory /\ Len(a) = k + MaxHistory
                        /\ k + 1 \in 1..Len(a)
    <3>1. Len(a) - MaxHistory \in Nat
      BY <1>0, <1>1, <1>4
    <3>2. Len(a) - MaxHistory + 1 \in 1..Len(a)
      BY <1>0, <1>1, <1>4
    <3>3. Len(a) = (Len(a) - MaxHistory) + MaxHistory
      BY <1>0, <1>1
    <3> WITNESS Len(a) - MaxHistory \in Nat
    <3> QED BY <3>2, <3>3
  <2>1. t = SubSeq(a, k + 1, Len(a))
    <3>1. t = SubSeq(a, Len(a) - MaxHistory + 1, Len(a))
      BY <1>4, <1>1, <1>0 DEF Trim
    <3> QED BY <2>0, <3>1
  <2>2. /\ t \in Seq(Change) /\ Len(t) = MaxHistory
        /\ \A n \in 1..MaxHistory : t[n] = a[k + n]
    <3>1. \A i \in k + 1 .. Len(a) : a[i] \in Change
      BY <1>1, <2>0, ElementOfSeq
    <3>2. /\ t \in Seq(Change)
          /\ Len(t) = IF k + 1 <= Len(a) THEN Len(a) - (k + 1) + 1 ELSE 0
          /\ \A i \in 1 .. Len(a) - (k + 1) + 1 : t[i] = a[(k + 1) + i - 1]
      <4>1. k + 1 \in Int /\ Len(a) \in Int
        BY <1>1
      <4>2. /\ SubSeq(a, k + 1, Len(a)) \in Seq(Change)
            /\ Len(SubSeq(a, k + 1, Len(a)))
                 = IF k + 1 <= Len(a) THEN Len(a) - (k + 1) + 1 ELSE 0
            /\ \A i \in 1 .. Len(a) - (k + 1) + 1 :
                 SubSeq(a, k + 1, Len(a))[i] = a[(k + 1) + i - 1]
        BY <3>1, <4>1, SubSeqProperties
      <4> QED BY <2>1, <4>2
    <3>3. Len(t) = MaxHistory /\ Len(a) - (k + 1) + 1 = MaxHistory
      BY <3>2, <2>0, <1>0, <1>1
    <3>4. ASSUME NEW n \in 1..MaxHistory PROVE t[n] = a[k + n]
      <4>1. t[n] = a[(k + 1) + n - 1] /\ (k + 1) + n - 1 = k + n
        <5>1. n \in 1 .. Len(a) - (k + 1) + 1
          BY <3>3
        <5>2. (k + 1) + n - 1 = k + n
          BY <1>0
        <5> QED BY <3>2, <5>1, <5>2
      <4> QED BY <4>1
    <3> QED BY <3>2, <3>3, <3>4
  <2>3. Chain(t)
    <3>1. ASSUME NEW n \in 1..Len(t) PROVE t[n].from # t[n].to
      <4>1. k + n \in 1..Len(a)
        BY <2>0, <2>2, <1>1, <1>0
      <4> QED BY <4>1, <2>2, <1>2 DEF Chain
    <3>2. ASSUME NEW n \in 1..Len(t) - 1 PROVE t[n + 1].from = t[n].to
      <4>1. k + n \in 1..Len(a) - 1 /\ n + 1 \in 1..MaxHistory /\ n \in 1..MaxHistory
        BY <2>0, <2>2, <1>1, <1>0
      <4>2. t[n] = a[k + n] /\ t[n + 1] = a[(k + n) + 1]
        <5>1. t[n] = a[k + n] /\ t[n + 1] = a[k + (n + 1)] /\ k + (n + 1) = (k + n) + 1
          BY <4>1, <2>2
        <5> QED BY <5>1
      <4>3. a[(k + n) + 1].from = a[k + n].to
        BY <4>1, <1>2 DEF Chain
      <4> QED BY <4>2, <4>3
    <3> QED BY <3>1, <3>2 DEF Chain
  <2>4. t # <<>> /\ t[Len(t)] = x
    <3>1. t[MaxHistory] = a[k + MaxHistory] /\ Len(t) # 0
      <4>1. MaxHistory \in 1..MaxHistory
        BY <1>0
      <4>2. t[MaxHistory] = a[k + MaxHistory]
        BY <4>1, <2>2
      <4>3. Len(t) # 0
        BY <2>2, <1>0
      <4> QED BY <4>2, <4>3
    <3> QED BY <3>1, <2>2, <2>0, <1>1, EmptySeq
  <2> QED BY <2>2, <2>3, <2>4 DEF LastIP
<1> QED BY <1>0, <1>1, <1>3, <1>4

(***************************************************************************)
(* What leaves the tracker alone keeps its part of the invariant.          *)
(***************************************************************************)
LEMMA TrackerAlone ==
  ASSUME IInv, UNCHANGED <<at, ip, previous, history, file>>
  PROVE  HistoryIsChain' /\ Recorded'
BY DEF IInv, HistoryIsChain, Recorded, Changed, Chain, LastIP

LEMMA InitIInv == PubInit => IInv
<1> SUFFICES ASSUME PubInit PROVE IInv
  OBVIOUS
<1> USE DEF PubInit
<1>1. history \in Seq(Change) /\ Len(history) = 0
  BY EmptySeq
<1>2. PubTypeOK
  <2>1. /\ actual \in Addresses /\ provider \in {"none", "http"} /\ at \in Steps
        /\ ip \in Addresses \cup {None} /\ previous \in Addresses \cup {None}
        /\ dns \in Addresses \cup {None} /\ recent \in BOOLEAN
    BY DEF Steps
  <2>2. /\ topic \in Topics /\ identity \in {topic, None}
        /\ doc \in [Topics -> Addresses \cup {None}]
        /\ host \in Addresses /\ locator \in Topics
        /\ keyed \in BOOLEAN /\ connected \in BOOLEAN
    OBVIOUS
  <2>3. /\ history \in Seq(Change) /\ Len(history) <= MaxHistory
        /\ file \in Seq(Change) /\ Len(file) <= MaxHistory
    <3>1. history = file /\ 0 <= MaxHistory
      BY PubAddrAssumption
    <3> QED BY <1>1, <3>1
  <2>4. attempts \in 0..2 /\ moves \in 0..MaxMoves /\ faults \in 0..MaxFaults
    <3>1. 0 \in 0..MaxMoves /\ 0 \in 0..MaxFaults
      BY PubAddrAssumption
    <3> QED BY <3>1
  <2> QED BY <2>1, <2>2, <2>3, <2>4 DEF PubTypeOK
<1>3. HistoryIsChain
  BY <1>1 DEF HistoryIsChain, Chain
<1>4. Recorded
  BY DEF Recorded, LastIP
<1> QED BY <1>2, <1>3, <1>4 DEF IInv

(***************************************************************************)
(* A start resumes from what it finds: a chain, at most as long as the     *)
(* history may be.                                                         *)
(***************************************************************************)
LEMMA BootIInv ==
  ASSUME IInv, NEW saved \in {history, file}, Boot(saved),
         moves' = moves, faults' \in 0..MaxFaults
  PROVE  IInv'
<1>1. saved \in Seq(Change) /\ Len(saved) <= MaxHistory /\ Chain(saved)
  BY DEF IInv, PubTypeOK, HistoryIsChain
<1>2. LastIP(saved) \in Addresses \cup {None}
  BY <1>1, LastIPType
<1>3. /\ at' = "idle" /\ history' = saved /\ file' = saved
      /\ ip' = LastIP(saved) /\ previous' = LastIP(saved)
  BY DEF Boot, Resume
<1>4. topic' \in Topics /\ identity' \in {topic', None}
  BY DEF Boot, IInv, PubTypeOK
<1>5. PubTypeOK'
  BY <1>1, <1>2, <1>3, <1>4 DEF Boot, IInv, PubTypeOK, Steps
<1>6. HistoryIsChain'
  BY <1>1, <1>3 DEF HistoryIsChain, Chain
<1>7. Recorded'
  BY <1>3 DEF Recorded, LastIP
<1> QED BY <1>5, <1>6, <1>7 DEF IInv

LEMMA NextIInv == IInv /\ [PubNext]_pubVars => IInv'
<1> SUFFICES ASSUME IInv, [PubNext]_pubVars PROVE IInv'
  OBVIOUS
<1> USE DEF IInv
<1>0. /\ PubTypeOK /\ HistoryIsChain /\ Recorded
      /\ MaxFaults \in Nat /\ MaxMoves \in Nat
  BY PubAddrAssumption
<1> DEFINE Alone == UNCHANGED <<at, ip, previous, history, file>>
<1>a. ASSUME PubTypeOK', Alone PROVE IInv'
  BY <1>a, TrackerAlone
\* The chain does not change either, so only the steps matter.
<1>b. ASSUME PubTypeOK', UNCHANGED <<history, file>>, Recorded' PROVE IInv'
  BY <1>b, <1>0 DEF HistoryIsChain, Chain
<1>1. CASE UNCHANGED pubVars
  BY <1>1, <1>a, <1>0 DEF pubVars, tracker, beacon, dashboard, bounds, PubTypeOK
<1>2. CASE Detect
  <2>1. PubTypeOK'
    BY <1>2, <1>0 DEF Detect, PubTypeOK, Steps, beacon, dashboard, bounds
  <2>2. Recorded'
    BY <1>2, <1>0 DEF Detect, Recorded, PubTypeOK, LastIP
  <2> QED BY <1>2, <2>1, <2>2, <1>b DEF Detect
<1>3. CASE NoUpdate \/ Accepted \/ Refused
  <2>1. at = "push" /\ at' = "publish"
        /\ UNCHANGED <<actual, provider, ip, previous, history, file, beacon, dashboard>>
        /\ recent' \in BOOLEAN
    BY <1>3, <1>0 DEF NoUpdate, Accepted, Refused, Update, PubTypeOK
  <2>2. dns' \in {dns, ip} /\ moves' = moves /\ faults' \in 0..MaxFaults
    BY <1>3, <1>0 DEF NoUpdate, Accepted, Refused, Fault, bounds, PubTypeOK
  <2>3. PubTypeOK'
    BY <2>1, <2>2, <1>0 DEF PubTypeOK, Steps, beacon, dashboard
  <2>4. Recorded'
    BY <2>1, <1>0 DEF Recorded, LastIP
  <2> QED BY <2>1, <2>3, <2>4, <1>b
<1>4. CASE Publish \/ PublishFails
  <2>1. at = "publish" /\ at' = AfterPublish
        /\ UNCHANGED <<actual, provider, ip, previous, history, file, recent, dns,
                       topic, identity, dashboard>>
    BY <1>4 DEF Publish, PublishFails, beacon
  <2>2. doc' \in [Topics -> Addresses \cup {None}] /\ moves' = moves
        /\ faults' \in 0..MaxFaults
    BY <1>4, <1>0 DEF Publish, PublishFails, Fault, beacon, bounds, PubTypeOK
  <2>3. PubTypeOK'
    BY <2>1, <2>2, <1>0 DEF PubTypeOK, Steps, dashboard, AfterPublish
  <2>4. Recorded'
    BY <2>1, <1>0 DEF Recorded, AfterPublish, Changed, LastIP
  <2> QED BY <2>1, <2>3, <2>4, <1>b
<1>5. CASE Record
  <2> DEFINE x == [from |-> previous, to |-> ip]
  <2>1. x \in Change /\ x.from = LastIP(history) /\ x.from # x.to /\ x.to = ip
    BY <1>5, <1>0 DEF Record, Recorded, PubTypeOK, Change, Changed
  <2>2. history' = Trim(Append(history, x))
    BY <1>5 DEF Record
  <2>3. history \in Seq(Change) /\ Chain(history)
    BY <1>0 DEF PubTypeOK, HistoryIsChain
  <2> HIDE DEF x
  <2>4. /\ history' \in Seq(Change) /\ Len(history') <= MaxHistory
        /\ Chain(history') /\ LastIP(history') = x.to
    BY <2>1, <2>2, <2>3, RecordKeepsChain
  <2>5. PubTypeOK'
    BY <1>5, <1>0, <2>4 DEF Record, PubTypeOK, Steps, beacon, dashboard, bounds
  <2>6. HistoryIsChain'
    BY <1>5, <1>0, <2>4 DEF Record, HistoryIsChain, Chain
  <2>7. Recorded'
    BY <1>5, <1>0, <2>1, <2>4 DEF Record, Recorded, LastIP
  <2> QED BY <2>5, <2>6, <2>7
<1>6. CASE Save \/ SaveFails
  <2>1. at = "save" /\ at' = "idle" /\ previous' = ip /\ file' \in {file, history}
        /\ UNCHANGED <<actual, provider, ip, history, recent, dns, beacon, dashboard>>
    BY <1>6 DEF Save, SaveFails
  <2>2. moves' = moves /\ faults' \in 0..MaxFaults
    BY <1>6, <1>0 DEF Save, SaveFails, Fault, bounds, PubTypeOK
  <2>3. PubTypeOK'
    BY <2>1, <2>2, <1>0 DEF PubTypeOK, Steps, beacon, dashboard
  <2>4. HistoryIsChain'
    BY <2>1, <1>0 DEF HistoryIsChain, Chain
  <2>5. Recorded'
    BY <2>1, <1>0 DEF Recorded, LastIP
  <2> QED BY <2>3, <2>4, <2>5
<1>7. CASE DetectFails
  BY <1>7, <1>0, <1>a DEF DetectFails, Fault, PubTypeOK, beacon, dashboard
<1>8. CASE MinutePasses
  BY <1>8, <1>0, <1>a DEF MinutePasses, PubTypeOK, beacon, dashboard, bounds
<1>9. ASSUME NEW t \in Topics, DocumentExpires(t) PROVE IInv'
  BY <1>9, <1>0, <1>a DEF DocumentExpires, Fault, PubTypeOK, tracker, dashboard
<1>10. CASE Restart
  BY <1>10, <1>0, BootIInv DEF Restart, bounds, PubTypeOK
<1>11. CASE Crash
  BY <1>11, <1>0, BootIInv DEF Crash, Fault, PubTypeOK
<1>12. ASSUME NEW a \in Addresses, Move(a) PROVE IInv'
  <2>1. moves' \in 0..MaxMoves
    BY <1>12, <1>0 DEF Move, PubTypeOK
  <2>2. /\ actual' \in Addresses /\ connected' \in BOOLEAN
        /\ UNCHANGED <<tracker, dns, beacon, host, locator, keyed, attempts, faults>>
    BY <1>12 DEF Move
  <2> QED BY <2>1, <2>2, <1>0, <1>a DEF PubTypeOK, tracker, beacon
<1>13. CASE Reconnect
  <2>1. host' \in Addresses /\ locator' \in Topics
    BY <1>13, <1>0 DEF Reconnect, FollowBeacon, PubTypeOK
  <2>2. connected' \in BOOLEAN /\ attempts' \in 0..2
    BY <1>13, <1>0 DEF Reconnect, PubTypeOK
  <2> QED BY <1>13, <2>1, <2>2, <1>0, <1>a DEF Reconnect, PubTypeOK, tracker, beacon, bounds
<1>14. CASE EnterKey
  BY <1>14, <1>0, <1>a DEF EnterKey, PubTypeOK, tracker, beacon, bounds
<1> QED
  BY <1>1, <1>2, <1>3, <1>4, <1>5, <1>6, <1>7, <1>8, <1>9, <1>10, <1>11, <1>12,
     <1>13, <1>14 DEF PubNext, Check

-----------------------------------------------------------------------------
(***************************************************************************)
(* The strengthened invariant holds in every behaviour of the tracker.     *)
(***************************************************************************)
THEOREM PubInvariance == PubSpec => []IInv
BY InitIInv, NextIInv, PTL DEF PubSpec

(***************************************************************************)
(* Types, and a history of at most MaxHistory changes, in memory and on    *)
(* disk (pubaddr.go, recordChange and loadHistory).                        *)
(***************************************************************************)
THEOREM PubTypeCorrect == PubSpec => []PubTypeOK
<1>1. IInv => PubTypeOK
  BY DEF IInv
<1> QED BY <1>1, PubInvariance, PTL

(***************************************************************************)
(* The recorded changes lead from address to address without a gap,        *)
(* whatever crashes, failed saves and trimming came between.               *)
(***************************************************************************)
THEOREM HistoryStaysChain == PubSpec => []HistoryIsChain
<1>1. IInv => HistoryIsChain
  BY DEF IInv
<1> QED BY <1>1, PubInvariance, PTL
=============================================================================
