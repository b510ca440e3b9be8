------------------------- MODULE EmulatorsProofs -------------------------
(***************************************************************************)
(* Proofs about the emulators, in two parts.                               *)
(*                                                                         *)
(* The UDP listener, for any sources, emulators, cap and window: its table *)
(* stays within the cap, the rows that are active are those of the table,  *)
(* Stop leaves at most one behind, the services that are scanned for       *)
(* amplifiers send no more than they got, and the table is always the      *)
(* sources heard last.                                                     *)
(*                                                                         *)
(* The dialogues of the TCP emulators, for any services, words, fakeAuth   *)
(* configurations and bounds: attempts are counted once, who has a shell   *)
(* was let in, and a telnet guess takes two lines.                         *)
(***************************************************************************)
EXTENDS Datagrams, Dialogues, FiniteSetTheorems, WellFoundedInduction, TLAPS

-----------------------------------------------------------------------------
(***************************************************************************)
(* Of any naturals one is least.                                           *)
(***************************************************************************)
LEMMA LeastNatural ==
  ASSUME NEW T \in SUBSET Nat, T # {}
  PROVE  \E x \in T : \A y \in T : x <= y
<1> DEFINE R == OpToRel(<, Nat)
<1>1. IsWellFoundedOn(R, Nat)
  BY NatLessThanWellFounded, Zenon
<1>2. \A x, y \in Nat : y < x => <<y, x>> \in R
  BY DEF OpToRel
<1> HIDE DEF R
<1>3. PICK x \in T : \A y \in T : ~ (<<y, x>> \in R)
  BY <1>1, WFMin
<1>4. ASSUME NEW y \in T PROVE x <= y
  <2>1. x \in Nat /\ y \in Nat
    OBVIOUS
  <2>2. ~ (y < x)
    BY <2>1, <1>2, <1>3
  <2> QED BY <2>1, <2>2
<1> QED BY <1>4

-----------------------------------------------------------------------------
(***************************************************************************)
(* The table of sessionFor: Evict leaves at most Cap rows.                 *)
(***************************************************************************)
LEMMA EvictLeavesCap ==
  ASSUME NEW t, IsFiniteSet(DOMAIN t), Cardinality(DOMAIN t) <= Cap + 1,
         \A s \in DOMAIN t : t[s].seen \in Nat
  PROVE  Cardinality(DOMAIN t \ Evict(t)) <= Cap
<1> DEFINE fresh == DOMAIN t \ Idle(t)
           stay  == DOMAIN t \ Evict(t)
<1>1. Cap \in Nat
  BY DatagramsAssumption
<1>2. /\ IsFiniteSet(fresh) /\ Cardinality(fresh) <= Cardinality(DOMAIN t)
      /\ Cardinality(fresh) \in Nat /\ Cardinality(DOMAIN t) \in Nat
  <2>1. fresh \in SUBSET DOMAIN t
    OBVIOUS
  <2> HIDE DEF fresh
  <2> QED BY <2>1, FS_Subset, FS_CardinalityType
<1>3. stay \in SUBSET fresh
  BY DEF Evict
<1>4. CASE Cardinality(fresh) <= Cap
  <2> HIDE DEF fresh, stay
  <2>1. Cardinality(stay) <= Cardinality(fresh) /\ Cardinality(stay) \in Nat
    BY <1>2, <1>3, FS_Subset, FS_CardinalityType
  <2>2. Cardinality(stay) <= Cap
    BY <2>1, <1>1, <1>2, <1>4
  <2> QED BY <2>2 DEF stay
<1>5. CASE Cardinality(fresh) > Cap
  <2> DEFINE T == {t[k].seen : k \in fresh}
  <2>1. fresh # {}
    <3> SUFFICES ASSUME fresh = {} PROVE FALSE
      OBVIOUS
    <3>1. Cardinality(fresh) = 0
      BY FS_EmptySet
    <3> HIDE DEF fresh
    <3> QED BY <3>1, <1>1, <1>5
  <2>2. T \in SUBSET Nat /\ T # {}
    BY <2>1
  <2>3. PICK x \in T : \A y \in T : x <= y
    <3> HIDE DEF T
    <3> QED BY <2>2, LeastNatural
  <2>4. PICK s \in fresh : \A k \in fresh : t[s].seen <= t[k].seen
    BY <2>3
  <2>5. stay \in SUBSET (fresh \ {s})
    BY <1>5, <2>4 DEF Evict
  <2> HIDE DEF fresh, stay
  <2>6. /\ IsFiniteSet(fresh \ {s})
        /\ Cardinality(fresh \ {s}) = Cardinality(fresh) - 1
    BY <1>2, FS_RemoveElement
  <2>7. Cardinality(stay) <= Cardinality(fresh \ {s}) /\ Cardinality(stay) \in Nat
    BY <2>5, <2>6, FS_Subset, FS_CardinalityType
  <2>8. Cardinality(stay) <= Cap
    BY <2>6, <2>7, <1>1, <1>2
  <2> QED BY <2>8 DEF stay
<1> QED BY <1>1, <1>2, <1>4, <1>5

(***************************************************************************)
(* The datagrams have a length, and so have the answers.                   *)
(***************************************************************************)
LEMMA LengthsAreNaturals ==
  ASSUME NEW p \in AllProtocols, NEW d \in Datagram[p]
  PROVE  d.len \in Nat
<1>1. CASE p = "dns"
  BY <1>1 DEF Datagram, D
<1>2. CASE p = "snmp"
  BY <1>2 DEF Datagram, D
<1>3. CASE p = "ntp"
  BY <1>3 DEF Datagram, D
<1>4. CASE p = "tftp"
  BY <1>4 DEF Datagram, D
<1>5. CASE p = "sip"
  BY <1>5 DEF Datagram, D
<1>6. CASE p = "openvpn"
  BY <1>6 DEF Datagram, D
<1>7. CASE p = "ike"
  BY <1>7 DEF Datagram, D
<1>8. CASE p = "wireguard"
  BY <1>8 DEF Datagram, D
<1>9. CASE p = "l2tp"
  BY <1>9 DEF Datagram, D
<1>10. CASE p = "generic"
  BY <1>10 DEF Datagram, D
<1> QED
  BY <1>1, <1>2, <1>3, <1>4, <1>5, <1>6, <1>7, <1>8, <1>9, <1>10 DEF AllProtocols

LEMMA AnswersAreNaturals ==
  ASSUME NEW p \in AllProtocols, NEW d \in Datagram[p]
  PROVE  Answer(p, d).size \in Nat
<1>1. d.len \in Nat
  BY LengthsAreNaturals
<1>2. CASE p = "dns"
  BY <1>1, <1>2 DEF Answer, Dns, NXDomain, Logged
<1>3. CASE p = "snmp"
  BY <1>1, <1>3 DEF Answer, Snmp, SnmpResponse, Logged
<1>4. CASE p = "ntp"
  BY <1>1, <1>4 DEF Answer, Ntp, NtpServerReply, Logged, Nothing
<1>5. CASE p = "tftp"
  BY <1>1, <1>5 DEF Answer, Tftp, TftpError, Logged
<1>6. CASE p = "sip"
  BY <1>1, <1>6 DEF Answer, Sip, SipUnauthorized, Logged
<1>7. CASE p = "openvpn"
  BY <1>1, <1>7 DEF Answer, OpenVpn, ServerReset, Logged, Nothing
<1>8. CASE p = "ike"
  BY <1>1, <1>8 DEF Answer, Ike, Notify, Logged
<1>9. CASE p = "wireguard"
  BY <1>1, <1>9 DEF Answer, Wireguard, Logged
<1>10. CASE p = "l2tp"
  BY <1>1, <1>10 DEF Answer, L2tp, Logged
<1>11. CASE p = "generic"
  BY <1>1, <1>11 DEF Answer, GenericUdp, Banner, Logged
<1> QED
  BY <1>2, <1>3, <1>4, <1>5, <1>6, <1>7, <1>8, <1>9, <1>10, <1>11 DEF AllProtocols

\* An NTP request that is answered is 48 bytes or longer; the others that are
\* are answered with their own length.
LEMMA QuietAnswers ==
  ASSUME NEW p \in QuietServices, NEW d \in Datagram[p]
  PROVE  Answer(p, d).size <= d.len
<1>1. d.len \in Nat
  BY LengthsAreNaturals DEF AllProtocols, QuietServices
<1>2. CASE p = "dns"
  BY <1>1, <1>2 DEF Answer, Dns, NXDomain, Logged
<1>3. CASE p = "snmp"
  BY <1>1, <1>3 DEF Answer, Snmp, SnmpResponse, Logged
<1>4. CASE p = "ntp"
  BY <1>1, <1>4 DEF Answer, Ntp, NtpServerReply, Logged, Nothing
<1>5. CASE p = "wireguard"
  BY <1>1, <1>5 DEF Answer, Wireguard, Logged
<1>6. CASE p = "l2tp"
  BY <1>1, <1>6 DEF Answer, L2tp, Logged
<1> QED BY <1>2, <1>3, <1>4, <1>5, <1>6 DEF QuietServices

-----------------------------------------------------------------------------
(***************************************************************************)
(* Stop does not wait for the loop, so a datagram in hand may still open a *)
(* row.  It is the only one: the loop then finds its context cancelled.    *)
(***************************************************************************)
Stopping ==
  /\ cleared => cancelled
  /\ cleared /\ loop \in {"reading", "read", "admitted"} => Keys = {}
  /\ cleared => \A s, k \in Keys : s = k

DInv == DatagramsTypeOK /\ ActiveRowsAreTabled /\ Stopping /\ NoAmplification

LEMMA InitDInv == DatagramsInit => DInv
<1> SUFFICES ASSUME DatagramsInit PROVE DInv
  OBVIOUS
<1>1. Keys = {} /\ Cardinality(Keys) = 0 /\ Cap \in Nat
  BY FS_EmptySet, DatagramsAssumption DEF DatagramsInit, Keys
<1>2. DatagramsTypeOK
  <2>1. answer.size = 0
    BY DEF DatagramsInit, Nothing, Logged
  <2>2. Keys \subseteq Sources /\ Cardinality(Keys) <= Cap
    BY <1>1
  <2>3. \A s \in Keys : table[s] \in [id : 1..nextId-1, seen : 0..clock]
    BY <1>1
  <2>4. /\ loop = "top" /\ pkt = {} /\ asked = {} /\ socket = "open"
        /\ nextId = 1 /\ blocked = {} /\ clock = 0
    BY DEF DatagramsInit
  <2>5. cancelled \in BOOLEAN /\ cleared \in BOOLEAN
    BY DEF DatagramsInit
  <2> QED BY <2>1, <2>2, <2>3, <2>4, <2>5 DEF DatagramsTypeOK
<1>3. ActiveRowsAreTabled
  BY <1>1 DEF DatagramsInit, ActiveRowsAreTabled, Ids
<1>4. Stopping /\ NoAmplification
  BY DEF DatagramsInit, Stopping, NoAmplification
<1> QED BY <1>2, <1>3, <1>4 DEF DInv

(***************************************************************************)
(* A step of the loop or of Stop that leaves the rows and the answer       *)
(* alone.                                                                  *)
(***************************************************************************)
LEMMA RowsAlone ==
  ASSUME DatagramsTypeOK, ActiveRowsAreTabled, UNCHANGED rows
  PROVE  /\ ActiveRowsAreTabled' /\ nextId' \in Nat \ {0}
         /\ Keys' = Keys /\ Keys' \subseteq Sources /\ Cardinality(Keys') <= Cap
         /\ \A s \in Keys' : table'[s] \in [id : 1..nextId'-1, seen : 0..clock]
<1>1. table' = table /\ active' = active /\ nextId' = nextId
  BY DEF rows
<1>2. ActiveRowsAreTabled'
  BY <1>1 DEF ActiveRowsAreTabled, Ids, Keys
<1>3. Keys' = Keys
  BY <1>1 DEF Keys
<1> QED BY <1>1, <1>2, <1>3 DEF DatagramsTypeOK

LEMMA LoopDInv ==
  ASSUME DInv, UNCHANGED <<rows, socket, cancelled, cleared, blocked, clock>>,
         loop' \in {"top", "reading", "read", "admitted", "gone"},
         pkt' \subseteq Sources,
         asked' = asked \/ asked' = {}, answer' = answer \/ answer' = Nothing,
         cleared /\ loop' \in {"reading", "read", "admitted"}
           => loop \in {"reading", "read", "admitted"}
  PROVE  DInv'
<1>1. /\ ActiveRowsAreTabled' /\ nextId' \in Nat \ {0}
      /\ Keys' = Keys /\ Keys' \subseteq Sources /\ Cardinality(Keys') <= Cap
      /\ \A s \in Keys' : table'[s] \in [id : 1..nextId'-1, seen : 0..clock]
  BY RowsAlone DEF DInv
<1>2. DatagramsTypeOK'
  <2>1. answer'.size \in Nat
    <3>1. Nothing.size = 0
      BY DEF Nothing, Logged
    <3> QED BY <3>1 DEF DInv, DatagramsTypeOK
  <2>2. \A p \in asked' : p.to \in Protocols /\ p.what \in Datagram[p.to]
    BY DEF DInv, DatagramsTypeOK
  <2> QED BY <1>1, <2>1, <2>2 DEF DInv, DatagramsTypeOK
<1>3. Stopping'
  BY <1>1 DEF DInv, Stopping
<1>4. NoAmplification'
  BY DEF NoAmplification, Amplifies
<1> QED BY <1>1, <1>2, <1>3, <1>4 DEF DInv

LEMMA RefreshDInv ==
  ASSUME DInv, NEW s \in pkt, loop = "admitted", Refresh(s), clock' = clock + 1,
         loop' = "handling", UNCHANGED <<pkt, asked, answer, listener, blocked>>
  PROVE  DInv'
<1> USE DEF DInv
<1>1. /\ s \in Keys /\ table' = [table EXCEPT ![s].seen = clock]
      /\ active' = active /\ nextId' = nextId /\ clock \in Nat
  BY DEF Refresh, DatagramsTypeOK
<1>2. /\ Keys' = Keys
      /\ \A k \in Keys : table'[k].id = table[k].id
      /\ \A k \in Keys : table'[k] \in [id : 1..nextId-1, seen : 0..clock]
  <2>1. Keys' = Keys
    BY <1>1 DEF Keys
  <2>2. ASSUME NEW k \in Keys
        PROVE  table'[k].id = table[k].id /\ table'[k] \in [id : 1..nextId-1, seen : 0..clock]
    <3>1. table[k] \in [id : 1..nextId-1, seen : 0..clock]
      BY DEF DatagramsTypeOK
    <3>2. CASE k = s
      <4>1. table'[k] = [table[k] EXCEPT !.seen = clock]
        BY <1>1, <3>2 DEF Keys
      <4>2. clock \in 0..clock
        BY <1>1
      <4> QED BY <4>1, <4>2, <3>1
    <3>3. CASE k # s
      BY <1>1, <3>1, <3>3 DEF Keys
    <3> QED BY <3>2, <3>3
  <2> QED BY <2>1, <2>2
<1>3. DatagramsTypeOK'
  <2>1. \A k \in Keys' : table'[k] \in [id : 1..nextId'-1, seen : 0..clock']
    BY <1>1, <1>2 DEF DatagramsTypeOK
  <2> QED BY <2>1, <1>1, <1>2 DEF DatagramsTypeOK, listener
<1>4. ActiveRowsAreTabled'
  <2>1. Ids(table)' = Ids(table)
    BY <1>2 DEF Ids, Keys
  <2> QED BY <2>1, <1>1, <1>2 DEF ActiveRowsAreTabled
<1>5. Stopping'
  BY <1>1, <1>2 DEF Stopping, listener
<1>6. NoAmplification'
  BY DEF NoAmplification, Amplifies
<1> QED BY <1>3, <1>4, <1>5, <1>6

LEMMA OpenRowDInv ==
  ASSUME DInv, NEW s \in pkt, loop = "admitted", OpenRow(s), clock' = clock + 1,
         loop' = "handling", UNCHANGED <<pkt, asked, answer, listener, blocked>>
  PROVE  DInv'
<1> USE DEF DInv
<1> DEFINE u == [k \in Keys \cup {s} |->
                   IF k = s THEN [id |-> nextId, seen |-> clock] ELSE table[k]]
<1>1. /\ s \in Sources /\ nextId \in Nat \ {0} /\ clock \in Nat /\ nextId' = nextId + 1
      /\ table' = Restrict(u, DOMAIN u \ Evict(u)) /\ active' = StillActive(table')
  BY DEF OpenRow, DatagramsTypeOK
<1>2. /\ DOMAIN u = Keys \cup {s}
      /\ \A k \in Keys \cup {s} : u[k] \in [id : 1..nextId, seen : 0..clock]
      /\ \A k \in Keys \cup {s} : u[k].seen \in Nat
      /\ \A j, k \in Keys \cup {s} : u[j].id = u[k].id => j = k
  <2>1. \A k \in Keys : table[k] \in [id : 1..nextId-1, seen : 0..clock]
    BY DEF DatagramsTypeOK
  <2>2. \A j, k \in Keys : table[j].id = table[k].id => j = k
    BY DEF ActiveRowsAreTabled
  <2>3. u[s] = [id |-> nextId, seen |-> clock] /\ u[s] \in [id : 1..nextId, seen : 0..clock]
    <3>1. nextId \in 1..nextId /\ clock \in 0..clock
      BY <1>1
    <3> QED BY <3>1
  <2>4. ASSUME NEW k \in Keys, k # s
        PROVE  /\ u[k] = table[k] /\ u[k] \in [id : 1..nextId, seen : 0..clock]
               /\ u[k].id # nextId
    BY <2>1, <2>4, <1>1
  <2>5. \A k \in Keys \cup {s} : u[k] \in [id : 1..nextId, seen : 0..clock]
    BY <2>3, <2>4
  <2>6. \A j, k \in Keys \cup {s} : u[j].id = u[k].id => j = k
    BY <2>2, <2>3, <2>4
  <2>7. DOMAIN u = Keys \cup {s}
    OBVIOUS
  <2> HIDE DEF u
  <2>8. \A k \in Keys \cup {s} : u[k].seen \in Nat
    BY <2>5
  <2> QED BY <2>5, <2>6, <2>7, <2>8
<1> HIDE DEF u
<1>3. /\ Keys' = DOMAIN u \ Evict(u) /\ Keys' \subseteq Keys \cup {s}
      /\ \A k \in Keys' : table'[k] = u[k]
  BY <1>1, <1>2 DEF Keys, Restrict
<1>4. Cardinality(Keys') <= Cap
  <2>1. IsFiniteSet(Keys) /\ Cardinality(Keys) \in Nat
    <3>1. Keys \in SUBSET Sources
      BY DEF DatagramsTypeOK
    <3> QED BY <3>1, DatagramsAssumption, FS_Subset, FS_CardinalityType
  <2>2. IsFiniteSet(DOMAIN u) /\ Cardinality(DOMAIN u) <= Cardinality(Keys) + 1
    <3>1. Cardinality(Keys) <= Cardinality(Keys) + 1
      BY <2>1
    <3>2. /\ IsFiniteSet(Keys \cup {s})
          /\ Cardinality(Keys \cup {s}) = IF s \in Keys THEN Cardinality(Keys)
                                                     ELSE Cardinality(Keys) + 1
      BY <2>1, FS_AddElement
    <3>3. Cardinality(Keys \cup {s}) <= Cardinality(Keys) + 1
      BY <2>1, <3>1, <3>2
    <3> QED BY <3>2, <3>3, <1>2
  <2>3. Cardinality(Keys) <= Cap /\ Cap \in Nat
    BY DatagramsAssumption DEF DatagramsTypeOK
  <2>4. Cardinality(DOMAIN u) \in Nat
    BY <2>2, FS_CardinalityType
  <2>5. Cardinality(DOMAIN u) <= Cap + 1
    BY <2>1, <2>2, <2>3, <2>4
  <2>6. Cardinality(DOMAIN u \ Evict(u)) <= Cap
    BY <2>2, <2>5, <1>2, EvictLeavesCap
  <2> QED BY <2>6, <1>3
<1>5. DatagramsTypeOK'
  <2>1. 1..nextId'-1 = 1..nextId /\ nextId' \in Nat \ {0} /\ clock' \in Nat
    BY <1>1
  <2>2. \A k \in Keys' : table'[k] \in [id : 1..nextId, seen : 0..clock]
    BY <1>2, <1>3
  <2>3. \A k \in Keys' : table'[k] \in [id : 1..nextId'-1, seen : 0..clock']
    <3>1. \A n \in 0..clock : n \in 0..clock'
      BY <1>1
    <3> QED BY <2>1, <2>2, <3>1
  <2>4. Keys' \subseteq Sources
    BY <1>1, <1>3 DEF DatagramsTypeOK
  <2> QED BY <2>1, <2>3, <2>4, <1>4 DEF DatagramsTypeOK, listener
<1>6. ActiveRowsAreTabled'
  <2>1. \A j, k \in Keys' : table'[j].id = table'[k].id => j = k
    BY <1>2, <1>3
  <2>2. active' = (Ids(table) \cup Ids(table')) \ (Ids(table) \ Ids(table'))
    BY <1>1 DEF StillActive, ActiveRowsAreTabled
  <2>3. active' = Ids(table')
    BY <2>2
  <2> QED BY <2>1, <2>3 DEF ActiveRowsAreTabled, Ids
<1>7. Stopping'
  BY <1>3 DEF Stopping, listener
<1>8. NoAmplification'
  BY DEF NoAmplification, Amplifies
<1> QED BY <1>5, <1>6, <1>7, <1>8

LEMMA HandleDInv ==
  ASSUME DInv, NEW to \in Protocols, NEW d \in Datagram[to],
         Handle([to |-> to, what |-> d])
  PROVE  DInv'
<1> DEFINE p == [to |-> to, what |-> d]
<1> USE DEF DInv
<1>1. /\ asked' = {p} /\ loop' = "replying"
      /\ UNCHANGED <<pkt, listener, rows, blocked, clock, heard>>
      /\ answer' = Answer(to, d) \/ answer' = Logged("handler_error", 0)
  BY DEF Handle, Respond, Panic
<1>2. p.to = to /\ p.what = d
  OBVIOUS
<1>3. to \in AllProtocols /\ d.len \in Nat
  BY DatagramsAssumption, LengthsAreNaturals
<1>4. answer'.size \in Nat /\ (to \in QuietServices => answer'.size <= d.len)
  <2>1. CASE answer' = Answer(to, d)
    BY <2>1, <1>3, AnswersAreNaturals, QuietAnswers
  <2>2. CASE answer' = Logged("handler_error", 0)
    <3>1. answer'.size = 0
      BY <2>2 DEF Logged
    <3> QED BY <3>1, <1>3
  <2> QED BY <1>1, <2>1, <2>2
<1> HIDE DEF p
<1>5. /\ ActiveRowsAreTabled' /\ nextId' \in Nat \ {0}
      /\ Keys' = Keys /\ Keys' \subseteq Sources /\ Cardinality(Keys') <= Cap
      /\ \A s \in Keys' : table'[s] \in [id : 1..nextId'-1, seen : 0..clock]
  BY <1>1, RowsAlone
<1>6. DatagramsTypeOK'
  <2>1. \A q \in asked' : q.to \in Protocols /\ q.what \in Datagram[q.to]
    BY <1>1, <1>2
  <2> QED BY <2>1, <1>1, <1>4, <1>5 DEF DatagramsTypeOK, listener
<1>7. Stopping'
  BY <1>1, <1>5 DEF Stopping, listener
<1>8. NoAmplification'
  BY <1>1, <1>2, <1>3, <1>4 DEF NoAmplification, Amplifies
<1> QED BY <1>5, <1>6, <1>7, <1>8

(***************************************************************************)
(* Every step keeps the strengthened invariant.                            *)
(***************************************************************************)
LEMMA NextDInv == DInv /\ [DatagramsNext]_dgVars => DInv'
<1> SUFFICES ASSUME DInv, [DatagramsNext]_dgVars PROVE DInv'
  OBVIOUS
<1> USE DEF DInv
<1>a. ASSUME UNCHANGED rows, clock' \in Nat, clock' >= clock
      PROVE  /\ ActiveRowsAreTabled' /\ nextId' \in Nat \ {0}
             /\ Keys' = Keys /\ Keys' \subseteq Sources /\ Cardinality(Keys') <= Cap
             /\ \A s \in Keys' : table'[s] \in [id : 1..nextId'-1, seen : 0..clock']
  <2>1. /\ ActiveRowsAreTabled' /\ nextId' \in Nat \ {0}
        /\ Keys' = Keys /\ Keys' \subseteq Sources /\ Cardinality(Keys') <= Cap
        /\ \A s \in Keys' : table'[s] \in [id : 1..nextId'-1, seen : 0..clock]
    BY <1>a, RowsAlone
  <2>2. \A n \in 0..clock : n \in 0..clock'
    BY <1>a DEF DatagramsTypeOK
  <2> QED BY <2>1, <2>2
<1>0. clock \in Nat
  BY DEF DatagramsTypeOK
<1>1. CASE UNCHANGED dgVars
  <2>1. UNCHANGED rows /\ clock' = clock
    BY <1>1 DEF dgVars, rows
  <2>2. DatagramsTypeOK'
    BY <2>1, <1>0, <1>1, <1>a DEF dgVars, listener, DatagramsTypeOK
  <2> QED BY <2>1, <2>2, <1>0, <1>1, <1>a
          DEF dgVars, listener, Stopping, NoAmplification, Amplifies
<1>2. CASE Top \/ ReadFails
  BY <1>2, LoopDInv DEF Top, ReadFails, listener, DatagramsTypeOK, Stopping
<1>3. ASSUME NEW s \in Sources, Read(s) PROVE DInv'
  BY <1>3, LoopDInv DEF Read, listener
<1>4. ASSUME NEW s \in pkt, Admit(s) PROVE DInv'
  BY <1>4, LoopDInv DEF Admit, Drop, Take, listener, DatagramsTypeOK
<1>5. ASSUME NEW s \in pkt, SessionFor(s) PROVE DInv'
  BY <1>5, RefreshDInv, OpenRowDInv DEF SessionFor
<1>6. ASSUME NEW s \in pkt, Reply(s) PROVE DInv'
  BY <1>6, LoopDInv DEF Reply, listener
<1>7. ASSUME NEW p \in Protocols, NEW d \in Datagram[p], Handle([to |-> p, what |-> d])
      PROVE  DInv'
  BY <1>7, HandleDInv
<1>8. CASE LoopStep
  BY <1>8, <1>2, <1>4, <1>5, <1>6, <1>7 DEF LoopStep
<1>9. CASE Cancel
  <2>1. /\ UNCHANGED <<rows, blocked, loop, pkt, asked, answer, socket, cleared>>
        /\ clock' = clock /\ cancelled' = TRUE
    BY <1>9 DEF Cancel
  <2>2. DatagramsTypeOK'
    BY <2>1, <1>0, <1>a DEF DatagramsTypeOK
  <2>3. Stopping'
    BY <2>1, <1>0, <1>a DEF Stopping
  <2> QED BY <2>1, <2>2, <2>3, <1>0, <1>a DEF NoAmplification, Amplifies
<1>10. CASE CloseSessions
  <2>1. /\ UNCHANGED <<blocked, loop, pkt, asked, answer, socket, cancelled, nextId>>
        /\ clock' = clock /\ cleared' = TRUE /\ cancelled = TRUE
        /\ active' = active \ Ids(table) /\ table' = [s \in {} |-> {}]
    BY <1>10 DEF CloseSessions, DatagramsTypeOK
  <2>2. Keys' = {} /\ Cardinality(Keys') = 0 /\ 0 <= Cap
    BY <2>1, FS_EmptySet, DatagramsAssumption DEF Keys
  <2>3. active' = {} /\ Ids(table)' = {}
    BY <2>1, <2>2 DEF ActiveRowsAreTabled, Ids, Keys
  <2>4. DatagramsTypeOK'
    BY <2>1, <2>2 DEF DatagramsTypeOK
  <2>5. ActiveRowsAreTabled' /\ Stopping'
    BY <2>1, <2>2, <2>3 DEF ActiveRowsAreTabled, Stopping
  <2> QED BY <2>1, <2>4, <2>5 DEF NoAmplification, Amplifies
<1>11. CASE CloseSocket
  <2>1. /\ UNCHANGED <<rows, blocked, loop, pkt, asked, answer, cancelled, cleared>>
        /\ clock' = clock /\ socket' = "closed"
    BY <1>11 DEF CloseSocket
  <2>2. DatagramsTypeOK'
    BY <2>1, <1>0, <1>a DEF DatagramsTypeOK
  <2> QED BY <2>1, <2>2, <1>0, <1>a DEF Stopping, NoAmplification, Amplifies
<1>12. ASSUME NEW s \in Suspects, Block(s) PROVE DInv'
  <2>1. /\ UNCHANGED <<rows, loop, pkt, asked, answer, socket, cancelled, cleared>>
        /\ clock' = clock /\ blocked' = blocked \cup {s}
    BY <1>12 DEF Block, listener
  <2>2. DatagramsTypeOK'
    BY <2>1, <1>0, <1>a DEF DatagramsTypeOK
  <2> QED BY <2>1, <2>2, <1>0, <1>a DEF Stopping, NoAmplification, Amplifies
<1>13. CASE Tick
  <2>1. /\ UNCHANGED <<rows, blocked, loop, pkt, asked, answer, socket, cancelled, cleared>>
        /\ clock' = clock + 1
    BY <1>13 DEF Tick, listener
  <2>2. clock' \in Nat /\ clock' >= clock
    BY <2>1, <1>0
  <2>3. DatagramsTypeOK'
    BY <2>1, <2>2, <1>a DEF DatagramsTypeOK
  <2> QED BY <2>1, <2>2, <2>3, <1>a DEF Stopping, NoAmplification, Amplifies
<1> QED
  BY <1>1, <1>3, <1>8, <1>9, <1>10, <1>11, <1>12, <1>13 DEF DatagramsNext

-----------------------------------------------------------------------------
(***************************************************************************)
(* The strengthened invariant holds in every behaviour of the listener.    *)
(***************************************************************************)
THEOREM DatagramsInvariance == DatagramsSpec => []DInv
BY InitDInv, NextDInv, PTL DEF DatagramsSpec

(***************************************************************************)
(* Types, and at most Cap rows in the table whatever sources send          *)
(* (generic.go, sessionFor).                                               *)
(***************************************************************************)
THEOREM DatagramsTypeCorrect == DatagramsSpec => []DatagramsTypeOK
<1>1. DInv => DatagramsTypeOK
  BY DEF DInv
<1> QED BY <1>1, DatagramsInvariance, PTL

(***************************************************************************)
(* The active rows are those of the table, one per source: eviction,       *)
(* expiry and Stop close what they drop (generic.go, sessionFor and Stop). *)
(***************************************************************************)
THEOREM ActiveRowsStayTabled == DatagramsSpec => []ActiveRowsAreTabled
<1>1. DInv => ActiveRowsAreTabled
  BY DEF DInv
<1> QED BY <1>1, DatagramsInvariance, PTL

(***************************************************************************)
(* After Stop no more than one row is active (generic.go, Stop).           *)
(***************************************************************************)
THEOREM StopLeavesOneRow == DatagramsSpec => []StopLeavesAtMostOne
<1>1. DInv => StopLeavesAtMostOne
  <2> SUFFICES ASSUME DInv, cleared PROVE Cardinality(active) <= 1
    BY DEF StopLeavesAtMostOne
  <2>1. active = {table[s].id : s \in Keys} /\ \A s, k \in Keys : s = k
    BY DEF DInv, ActiveRowsAreTabled, Stopping, Ids, Keys
  <2>2. CASE Keys = {}
    <3>1. active = {}
      BY <2>1, <2>2
    <3> QED BY <3>1, FS_EmptySet
  <2>3. CASE Keys # {}
    <3>1. PICK s \in Keys : TRUE
      BY <2>3
    <3>2. active = {table[s].id}
      BY <2>1, <3>1
    <3>3. Cardinality(active) = 1
      BY <3>2, FS_Singleton
    <3> QED BY <3>3
  <2> QED BY <2>2, <2>3
<1> QED BY <1>1, DatagramsInvariance, PTL

(***************************************************************************)
(* A service that is scanned for amplifiers never replies with more than   *)
(* it was asked with, in every configuration (netudp.go, vpn.go).          *)
(***************************************************************************)
THEOREM QuietServicesStaySmall == DatagramsSpec => []NoAmplification
<1>1. DInv => NoAmplification
  BY DEF DInv
<1> QED BY <1>1, DatagramsInvariance, PTL
-----------------------------------------------------------------------------
(***************************************************************************)
(* What RowsAreLatestHeard rests on, until Stop clears the table: a row is *)
(* stamped with the time its source was heard; the rows are the latest     *)
(* heard, with no source between them missing; and a source without a row  *)
(* was heard too long ago, or Cap others were heard after it.  No two      *)
(* sources are heard at the same time, or the row that is pushed out would *)
(* not be one.                                                             *)
(***************************************************************************)
HeardOnce ==
  /\ DOMAIN heard \subseteq Sources
  /\ \A s \in DOMAIN heard : heard[s] \in Nat /\ heard[s] < clock
  /\ \A s, k \in DOMAIN heard : heard[s] = heard[k] => s = k

RowsAreStamped ==
  Keys \subseteq DOMAIN heard /\ \A s \in Keys : table[s].seen = heard[s]

RowsHaveNoGap ==
  \A s \in Keys, k \in DOMAIN heard : heard[k] > heard[s] => k \in Keys

PushedOutForCause ==
  \A s \in DOMAIN heard \ Keys :
    clock - heard[s] >= Window \/ Cardinality(Later(s)) >= Cap

HeardInv ==
  ~cleared => HeardOnce /\ RowsAreStamped /\ RowsHaveNoGap /\ PushedOutForCause

(***************************************************************************)
(* The sources heard after one are finitely many.                          *)
(***************************************************************************)
LEMMA LaterIsFinite ==
  ASSUME DOMAIN heard \subseteq Sources, NEW S, S \subseteq DOMAIN heard
  PROVE  IsFiniteSet(S) /\ Cardinality(S) \in Nat
<1>1. S \in SUBSET Sources
  OBVIOUS
<1> QED
  BY <1>1, DatagramsAssumption, FS_Subset, FS_CardinalityType

\* What sessionFor adds to the history.
Hears(s) ==
  heard' = [k \in DOMAIN heard \cup {s} |-> IF k = s THEN clock ELSE heard[k]]

(***************************************************************************)
(* Hearing s again adds s to those heard after another source, and takes   *)
(* nobody out.                                                             *)
(***************************************************************************)
LEMMA LaterGrows ==
  ASSUME HeardOnce, clock \in Nat, NEW s \in Sources,
         Hears(s)
  PROVE  /\ DOMAIN heard' = DOMAIN heard \cup {s} /\ heard'[s] = clock
         /\ \A k \in DOMAIN heard : k # s => heard'[k] = heard[k]
         /\ \A k \in DOMAIN heard' : k # s => heard'[k] < clock
         /\ \A j, k \in DOMAIN heard' : heard'[j] = heard'[k] => j = k
         /\ \A k \in DOMAIN heard : k # s /\ Cardinality(Later(k)) >= Cap =>
              Cardinality(Later(k)') >= Cap
<1>1. /\ DOMAIN heard' = DOMAIN heard \cup {s} /\ heard'[s] = clock
      /\ \A k \in DOMAIN heard : k # s => heard'[k] = heard[k]
  BY DEF Hears
<1>2. \A k \in DOMAIN heard' : k # s => heard'[k] < clock /\ heard'[k] \in Nat
  BY <1>1 DEF HeardOnce
<1>3. \A j, k \in DOMAIN heard' : heard'[j] = heard'[k] => j = k
  <2> SUFFICES ASSUME NEW j \in DOMAIN heard', NEW k \in DOMAIN heard',
                      heard'[j] = heard'[k]
               PROVE  j = k
    OBVIOUS
  <2>1. CASE j = s
    BY <1>1, <1>2, <2>1
  <2>2. CASE k = s
    BY <1>1, <1>2, <2>2
  <2>3. CASE j # s /\ k # s
    BY <1>1, <2>3 DEF HeardOnce
  <2> QED
    BY <2>1, <2>2, <2>3
<1>4. ASSUME NEW k \in DOMAIN heard, k # s, Cardinality(Later(k)) >= Cap
      PROVE  Cardinality(Later(k)') >= Cap
  <2> DEFINE A == Later(k)
             B == Later(k)'
  <2>1. A \subseteq B
    <3> SUFFICES ASSUME NEW j \in A PROVE j \in B
      OBVIOUS
    <3>1. j \in DOMAIN heard /\ heard[j] > heard[k] /\ heard'[k] = heard[k]
      BY <1>1, <1>4 DEF Later
    <3>2. heard'[j] > heard[k]
      BY <1>1, <3>1 DEF HeardOnce
    <3> QED
      BY <1>1, <3>1, <3>2 DEF Later
  <2>2. B \in SUBSET Sources
    BY <1>1 DEF HeardOnce, Later
  <2>3. IsFiniteSet(B)
    BY <2>2, DatagramsAssumption, FS_Subset
  <2> HIDE DEF A, B
  <2>4. Cardinality(A) <= Cardinality(B) /\ Cardinality(A) \in Nat /\ Cardinality(B) \in Nat
    BY <2>1, <2>3, FS_Subset, FS_CardinalityType
  <2>5. Cardinality(A) >= Cap /\ Cap \in Nat
    BY <1>4, DatagramsAssumption DEF A
  <2>6. Cardinality(B) >= Cap
    BY <2>4, <2>5
  <2> QED
    BY <2>6 DEF B
<1> QED
  BY <1>1, <1>2, <1>3, <1>4

(***************************************************************************)
(* A source heard within the window: its row is stamped anew.              *)
(***************************************************************************)
LEMMA RefreshHeard ==
  ASSUME DatagramsTypeOK, HeardOnce, RowsAreStamped, RowsHaveNoGap, PushedOutForCause,
         NEW s \in Sources, Refresh(s), clock' = clock + 1,
         Hears(s)
  PROVE  HeardOnce' /\ RowsAreStamped' /\ RowsHaveNoGap' /\ PushedOutForCause'
<1>1. clock \in Nat /\ Window \in Nat /\ Cap \in Nat
  BY DatagramsAssumption DEF DatagramsTypeOK
<1>2. /\ DOMAIN heard' = DOMAIN heard \cup {s} /\ heard'[s] = clock
      /\ \A k \in DOMAIN heard : k # s => heard'[k] = heard[k]
      /\ \A k \in DOMAIN heard' : k # s => heard'[k] < clock
      /\ \A j, k \in DOMAIN heard' : heard'[j] = heard'[k] => j = k
      /\ \A k \in DOMAIN heard : k # s /\ Cardinality(Later(k)) >= Cap =>
           Cardinality(Later(k)') >= Cap
  BY <1>1, LaterGrows
<1>3. /\ s \in Keys /\ Keys' = Keys
      /\ table'[s].seen = clock
      /\ \A k \in Keys : k # s => table'[k] = table[k]
  <2>1. s \in Keys /\ table' = [table EXCEPT ![s].seen = clock]
    BY DEF Refresh
  <2>2. table[s] \in [id : 1..nextId-1, seen : 0..clock]
    BY <2>1 DEF DatagramsTypeOK
  <2> QED
    BY <2>1, <2>2 DEF Keys
<1>4. HeardOnce'
  <2>1. \A k \in DOMAIN heard' : heard'[k] \in Nat /\ heard'[k] < clock'
    <3> SUFFICES ASSUME NEW k \in DOMAIN heard'
                 PROVE  heard'[k] \in Nat /\ heard'[k] < clock'
      OBVIOUS
    <3>1. CASE k = s
      BY <1>1, <1>2, <3>1
    <3>2. CASE k # s
      BY <1>1, <1>2, <3>2 DEF HeardOnce
    <3> QED
      BY <3>1, <3>2
  <2> QED
    BY <1>2, <2>1 DEF HeardOnce
<1>5. RowsAreStamped'
  BY <1>2, <1>3 DEF RowsAreStamped
<1>6. RowsHaveNoGap'
  <2> SUFFICES ASSUME NEW j \in Keys, NEW k \in DOMAIN heard', heard'[k] > heard'[j]
               PROVE  k \in Keys
    BY <1>3 DEF RowsHaveNoGap
  <2>1. j \in DOMAIN heard /\ s \in DOMAIN heard
    BY <1>3 DEF RowsAreStamped
  <2>2. CASE k = s
    BY <1>3, <2>2
  <2>3. CASE k # s
    <3>1. j # s
      BY <1>1, <1>2, <2>3 DEF HeardOnce
    <3> QED
      BY <1>2, <2>1, <2>3, <3>1 DEF RowsHaveNoGap
  <2> QED
    BY <2>2, <2>3
<1>7. PushedOutForCause'
  <2> SUFFICES ASSUME NEW k \in DOMAIN heard', k \notin Keys
               PROVE  clock' - heard'[k] >= Window \/ Cardinality(Later(k)') >= Cap
    BY <1>3 DEF PushedOutForCause
  <2>1. k \in DOMAIN heard /\ k # s /\ heard'[k] = heard[k] /\ heard[k] \in Nat
    BY <1>2, <1>3 DEF HeardOnce
  <2> QED
    BY <1>1, <1>2, <2>1 DEF PushedOutForCause
<1> QED
  BY <1>4, <1>5, <1>6, <1>7

(***************************************************************************)
(* A new row: what is idle goes, and at most the one heard first.          *)
(***************************************************************************)
LEMMA OpenRowHeard ==
  ASSUME DatagramsTypeOK, HeardOnce, RowsAreStamped, RowsHaveNoGap, PushedOutForCause,
         NEW s \in Sources, OpenRow(s), clock' = clock + 1,
         Hears(s)
  PROVE  HeardOnce' /\ RowsAreStamped' /\ RowsHaveNoGap' /\ PushedOutForCause'
<1> DEFINE u == [k \in Keys \cup {s} |->
                   IF k = s THEN [id |-> nextId, seen |-> clock] ELSE table[k]]
           fresh == DOMAIN u \ Idle(u)
<1>1. clock \in Nat /\ Window \in Nat \ {0} /\ Cap \in Nat
  BY DatagramsAssumption DEF DatagramsTypeOK
<1>2. /\ DOMAIN heard' = DOMAIN heard \cup {s} /\ heard'[s] = clock
      /\ \A k \in DOMAIN heard : k # s => heard'[k] = heard[k]
      /\ \A k \in DOMAIN heard' : k # s => heard'[k] < clock
      /\ \A j, k \in DOMAIN heard' : heard'[j] = heard'[k] => j = k
      /\ \A k \in DOMAIN heard : k # s /\ Cardinality(Later(k)) >= Cap =>
           Cardinality(Later(k)') >= Cap
  BY <1>1, LaterGrows
<1>3. HeardOnce'
  <2>1. \A k \in DOMAIN heard' : heard'[k] \in Nat /\ heard'[k] < clock'
    <3> SUFFICES ASSUME NEW k \in DOMAIN heard'
                 PROVE  heard'[k] \in Nat /\ heard'[k] < clock'
      OBVIOUS
    <3>1. CASE k = s
      BY <1>1, <1>2, <3>1
    <3>2. CASE k # s
      BY <1>1, <1>2, <3>2 DEF HeardOnce
    <3> QED
      BY <3>1, <3>2
  <2> QED
    BY <1>2, <2>1 DEF HeardOnce
<1>4. table' = Restrict(u, DOMAIN u \ Evict(u))
  BY DEF OpenRow
<1>5. /\ DOMAIN u = Keys \cup {s} /\ DOMAIN u \subseteq DOMAIN heard'
      /\ \A k \in DOMAIN u : u[k].seen = heard'[k]
  BY <1>2 DEF RowsAreStamped
<1> HIDE DEF u
<1>6. /\ Keys' = DOMAIN u \ Evict(u)
      /\ \A k \in Keys' : table'[k] = u[k]
  BY <1>4 DEF Keys, Restrict
<1>7. \A k \in DOMAIN heard' : heard'[k] \in Nat
  BY <1>3 DEF HeardOnce
<1>8. \A k \in DOMAIN u : k \in fresh <=> clock - heard'[k] < Window
  BY <1>1, <1>5, <1>7 DEF Idle
<1>9. Keys' \subseteq fresh
  BY <1>6 DEF Evict
<1>10. RowsAreStamped'
  BY <1>5, <1>6 DEF RowsAreStamped
<1>11. \A j \in DOMAIN u, k \in DOMAIN heard' : heard'[k] > heard'[j] => k \in DOMAIN u
  <2> SUFFICES ASSUME NEW j \in DOMAIN u, NEW k \in DOMAIN heard',
                      heard'[k] > heard'[j], k # s
               PROVE  k \in DOMAIN u
    BY <1>5
  <2>1. j # s
    BY <1>1, <1>2, <1>7
  <2>2. j \in Keys /\ j \in DOMAIN heard /\ k \in DOMAIN heard
    BY <1>2, <1>5, <2>1 DEF RowsAreStamped
  <2> QED
    BY <1>2, <1>5, <2>1, <2>2 DEF RowsHaveNoGap
<1>12. RowsHaveNoGap'
  <2> SUFFICES ASSUME NEW j \in Keys', NEW k \in DOMAIN heard', heard'[k] > heard'[j]
               PROVE  k \in Keys'
    BY DEF RowsHaveNoGap
  <2>1. j \in fresh /\ j \in DOMAIN u /\ k \in DOMAIN u
    BY <1>6, <1>9, <1>11
  <2>2. j \in DOMAIN heard'
    BY <1>5, <2>1
  <2>3. k \in fresh
    BY <1>1, <1>7, <1>8, <2>1, <2>2
  <2>4. ~(u[k].seen <= u[j].seen)
    BY <1>5, <1>7, <2>1, <2>2
  <2>5. k \notin Evict(u)
    BY <2>1, <2>3, <2>4 DEF Evict
  <2> QED
    BY <1>6, <2>1, <2>5
<1>13. PushedOutForCause'
  <2> SUFFICES ASSUME NEW k \in DOMAIN heard', k \notin Keys'
               PROVE  clock' - heard'[k] >= Window \/ Cardinality(Later(k)') >= Cap
    BY DEF PushedOutForCause
  <2>1. CASE k \notin DOMAIN u
    <3>1. k \in DOMAIN heard /\ k # s /\ k \notin Keys /\ heard'[k] = heard[k]
      BY <1>2, <1>5, <2>1
    <3>2. heard[k] \in Nat
      BY <3>1 DEF HeardOnce
    <3> QED
      BY <1>1, <1>2, <3>1, <3>2 DEF PushedOutForCause
  <2>2. CASE k \in DOMAIN u /\ k \notin fresh
    BY <1>1, <1>7, <1>8, <2>2
  <2>3. CASE k \in fresh
    <3>1. k \in DOMAIN u /\ k \in Evict(u)
      BY <1>6, <2>3
    <3>2. Cardinality(fresh) > Cap /\ \A j \in fresh : u[k].seen <= u[j].seen
      BY <2>3, <3>1 DEF Evict
    <3> DEFINE B == Later(k)'
    <3>3. fresh \ {k} \subseteq B
      <4> SUFFICES ASSUME NEW j \in fresh, j # k PROVE j \in B
        OBVIOUS
      <4>1. j \in DOMAIN u /\ j \in DOMAIN heard'
        BY <1>5
      <4>2. heard'[k] <= heard'[j] /\ heard'[k] # heard'[j]
        BY <1>2, <1>5, <3>1, <3>2, <4>1
      <4>3. heard'[j] > heard'[k]
        BY <1>7, <4>1, <4>2
      <4> QED
        BY <4>1, <4>3 DEF Later
    <3>4. B \in SUBSET Sources /\ fresh \in SUBSET Sources
      BY <1>3, <1>5 DEF HeardOnce, Later
    <3> HIDE DEF B, fresh
    <3>5. IsFiniteSet(B) /\ IsFiniteSet(fresh)
      BY <3>4, DatagramsAssumption, FS_Subset
    <3>6. Cardinality(fresh \ {k}) = Cardinality(fresh) - 1 /\ IsFiniteSet(fresh \ {k})
      BY <2>3, <3>5, FS_RemoveElement
    <3>7. Cardinality(fresh \ {k}) <= Cardinality(B)
      BY <3>3, <3>5, FS_Subset
    <3>8. Cardinality(fresh) \in Nat /\ Cardinality(B) \in Nat
      BY <3>5, FS_CardinalityType
    <3>9. Cardinality(B) >= Cap
      BY <1>1, <3>2, <3>6, <3>7, <3>8
    <3> QED
      BY <3>9 DEF B
  <2> QED
    BY <2>1, <2>2, <2>3
<1> QED
  BY <1>3, <1>10, <1>12, <1>13

(***************************************************************************)
(* Nothing has been heard at first.                                        *)
(***************************************************************************)
LEMMA InitHeardInv == DatagramsInit => HeardInv
BY DEF DatagramsInit, HeardInv, HeardOnce, RowsAreStamped, RowsHaveNoGap,
       PushedOutForCause, Keys

\* Every step keeps it; only a datagram that is read touches table or history.
LEMMA NextHeardInv == DInv /\ HeardInv /\ [DatagramsNext]_dgVars => HeardInv'
<1> SUFFICES ASSUME DInv, HeardInv, [DatagramsNext]_dgVars, ~cleared'
             PROVE  (HeardOnce /\ RowsAreStamped /\ RowsHaveNoGap /\ PushedOutForCause)'
  BY DEF HeardInv
<1>1. DatagramsTypeOK /\ clock \in Nat
  BY DEF DInv, DatagramsTypeOK
<1>2. CASE /\ UNCHANGED <<rows, heard, cleared>>
           /\ clock' = clock \/ clock' = clock + 1
  <2>1. /\ Keys' = Keys /\ table' = table /\ heard' = heard /\ ~cleared
        /\ \A s : Later(s)' = Later(s)
    BY <1>2 DEF rows, Keys, Later
  <2>2. HeardOnce /\ RowsAreStamped /\ RowsHaveNoGap /\ PushedOutForCause
    BY <2>1 DEF HeardInv
  <2>3. HeardOnce'
    BY <1>1, <1>2, <2>1, <2>2 DEF HeardOnce
  <2>4. RowsAreStamped' /\ RowsHaveNoGap'
    BY <2>1, <2>2 DEF RowsAreStamped, RowsHaveNoGap
  <2>5. PushedOutForCause'
    <3> SUFFICES ASSUME NEW s \in DOMAIN heard \ Keys
                 PROVE  clock' - heard[s] >= Window \/ Cardinality(Later(s)) >= Cap
      BY <2>1 DEF PushedOutForCause
    <3>1. heard[s] \in Nat /\ Window \in Nat
      BY <2>2, DatagramsAssumption DEF HeardOnce
    <3> QED
      BY <1>1, <1>2, <2>2, <3>1 DEF PushedOutForCause
  <2> QED
    BY <2>3, <2>4, <2>5
<1>3. ASSUME NEW s \in pkt, SessionFor(s)
      PROVE  (HeardOnce /\ RowsAreStamped /\ RowsHaveNoGap /\ PushedOutForCause)'
  <2>1. /\ s \in Sources /\ ~cleared /\ clock' = clock + 1
        /\ Refresh(s) \/ OpenRow(s)
        /\ Hears(s)
    BY <1>1, <1>3 DEF SessionFor, Hears, listener, DatagramsTypeOK
  <2>2. HeardOnce /\ RowsAreStamped /\ RowsHaveNoGap /\ PushedOutForCause
    BY <2>1 DEF HeardInv
  <2> QED
    BY <1>1, <2>1, <2>2, RefreshHeard, OpenRowHeard
<1>4. CASE LoopStep
  BY <1>2, <1>3, <1>4
     DEF LoopStep, Top, ReadFails, Admit, Reply, Handle, listener
<1>5. CASE CloseSessions
  BY <1>5 DEF CloseSessions
<1>6. CASE Cancel \/ CloseSocket \/ Tick
  BY <1>2, <1>6 DEF Cancel, CloseSocket, Tick, listener
<1>7. ASSUME NEW s \in Sources, Read(s) \/ Block(s)
      PROVE  (HeardOnce /\ RowsAreStamped /\ RowsHaveNoGap /\ PushedOutForCause)'
  BY <1>2, <1>7 DEF Read, Block, listener
<1>8. CASE UNCHANGED dgVars
  BY <1>2, <1>8 DEF dgVars, listener
<1> QED
  BY <1>4, <1>5, <1>6, <1>7, <1>8, DatagramsAssumption DEF DatagramsNext

(***************************************************************************)
(* The table is the Cap sources heard last, as far as they were heard      *)
(* within the window (generic.go, sessionFor).                             *)
(***************************************************************************)
THEOREM RowsStayLatestHeard == DatagramsSpec => []RowsAreLatestHeard
<1>1. DInv /\ HeardInv => RowsAreLatestHeard
  <2> SUFFICES ASSUME DInv, HeardOnce, RowsAreStamped, RowsHaveNoGap,
                      PushedOutForCause
               PROVE  Keys \ Idle(table) =
                      {s \in DOMAIN heard : /\ clock - heard[s] < Window
                                            /\ Cardinality(Later(s)) < Cap}
    BY DEF HeardInv, RowsAreLatestHeard
  <2>1. /\ clock \in Nat /\ Window \in Nat /\ Cap \in Nat
        /\ Cardinality(Keys) <= Cap
    BY DatagramsAssumption DEF DInv, DatagramsTypeOK
  <2>2. \A s \in Keys : s \in DOMAIN heard /\ table[s].seen = heard[s]
    BY DEF RowsAreStamped
  <2>3. \A s \in DOMAIN heard : heard[s] \in Nat
    BY DEF HeardOnce
  <2>4. \A s \in Keys : s \in Idle(table) <=> ~(clock - heard[s] < Window)
    BY <2>1, <2>2, <2>3 DEF Idle, Keys
  <2>5. \A s \in DOMAIN heard : Cardinality(Later(s)) \in Nat
    BY LaterIsFinite DEF HeardOnce, Later
  <2>6. ASSUME NEW s \in Keys
        PROVE  Cardinality(Later(s)) < Cap
    <3>1. Later(s) \subseteq Keys \ {s}
      BY <2>2, <2>3 DEF Later, RowsHaveNoGap
    <3>2. IsFiniteSet(Keys) /\ Cardinality(Keys) \in Nat
      BY LaterIsFinite DEF HeardOnce, RowsAreStamped
    <3>3. /\ IsFiniteSet(Keys \ {s})
          /\ Cardinality(Keys \ {s}) = Cardinality(Keys) - 1
      BY <3>2, FS_RemoveElement
    <3>4. Cardinality(Later(s)) <= Cardinality(Keys \ {s})
      BY <3>1, <3>3, FS_Subset
    <3> QED
      BY <2>1, <2>2, <2>5, <3>2, <3>3, <3>4
  <2>7. ASSUME NEW s \in DOMAIN heard, clock - heard[s] < Window,
               Cardinality(Later(s)) < Cap
        PROVE  s \in Keys
    BY <2>1, <2>3, <2>5, <2>7 DEF PushedOutForCause
  <2> QED
    BY <2>2, <2>4, <2>6, <2>7
<1>2. DatagramsSpec => []HeardInv
  BY InitHeardInv, NextHeardInv, DatagramsInvariance, PTL DEF DatagramsSpec
<1> QED
  BY <1>1, <1>2, DatagramsInvariance, PTL

-----------------------------------------------------------------------------
\* Types, and what a step counts.

Stages == {"start", "data", "pass", "shell", "hello", "challenged", "request", "closed"}

State == [stage : Stages, user : Text, in : BOOLEAN, to : BOOLEAN, buf : Text, n : Nat]

Typed ==
  /\ svc \in Services /\ fa \in FakeAuths
  /\ st \in State
  /\ agg \in [Kinds -> Nat]
  /\ tries \in Nat
  /\ cr \in BOOLEAN /\ lines \in Nat

Asked    == agg["auth_attempt"]
Refused  == agg["login_attempt"]
Welcomed == agg["auth_success"]

(***************************************************************************)
(* How services tell the statistics of an attempt: by an auth_attempt of   *)
(* its own, with a success on top, or by its outcome.  The others' events  *)
(* do not tell.                                                            *)
(***************************************************************************)
Untold   == {"ldap", "mongodb", "docker", "squid"}
Announce == {"ssh", "adb", "vnc"}

CountsInv ==
  /\ svc \in Announce => Asked = tries /\ Refused = 0 /\ Welcomed <= tries
  /\ svc \notin Announce \cup Untold => Asked = 0 /\ Refused + Welcomed = tries

(***************************************************************************)
(* Only telnet and SSH have a shell.                                       *)
(***************************************************************************)
ShellInv ==
  /\ st.stage = "shell" => svc \in {"telnet", "ssh"}
  /\ InsidersAreAllowed

(***************************************************************************)
(* Telnet: before the shell the peer was refused n times and let in never; *)
(* the name of the next guess has taken a line already.                    *)
(***************************************************************************)
GuessInv ==
  svc = "telnet" =>
    /\ st.stage \in {"start", "pass", "shell", "closed"}
    /\ 2 * tries + (IF st.stage = "pass" THEN 1 ELSE 0) <= lines
    /\ st.stage \in {"start", "pass"} => Refused = st.n /\ st.n < 3 /\ Welcomed = 0
    /\ st.stage = "shell" => Refused < 3 /\ Welcomed = 1
    /\ st.stage = "closed" => Refused <= 3

DlgInv == Typed /\ CountsInv /\ ShellInv /\ GuessInv


-----------------------------------------------------------------------------
\* What the fakeAuth and the statistics make of a step.

(***************************************************************************)
(* A yes is never for a name on the reject list, and in mode "never" only  *)
(* for a listed password.                                                  *)
(***************************************************************************)
LEMMA YesIsAllowed ==
  ASSUME Typed, NEW u, NEW p, NEW ok \in ShouldAccept(u, p)
  PROVE  /\ ok \in BOOLEAN
         /\ ok => u \notin fa.reject /\ (fa.mode = "never" => p \in fa.passwords)
<1>1. CASE u \in fa.reject
  BY <1>1 DEF ShouldAccept
<1>2. CASE u \notin fa.reject /\ p \in fa.passwords
  BY <1>2 DEF ShouldAccept
<1>3. CASE u \notin fa.reject /\ p \notin fa.passwords
  <2>1. ok \in ByMode(u)
    BY <1>3 DEF ShouldAccept
  <2>2. ok \in BOOLEAN
    BY <2>1 DEF ByMode
  <2>3. fa.mode = "never" => ok = FALSE
    BY <2>1 DEF ByMode
  <2> QED
    BY <1>3, <2>2, <2>3
<1> QED
  BY <1>1, <1>2, <1>3

AuthTypes == {"auth_attempt", "login_attempt", "auth_success"}

(***************************************************************************)
(* Log counts each of the types it is given once.                          *)
(***************************************************************************)
LEMMA LogAdds ==
  ASSUME Typed, NEW types, Log(types)
  PROVE  /\ agg' \in [Kinds -> Nat]
         /\ Asked' = Asked + One("auth_attempt" \in types)
         /\ Refused' = Refused + One("login_attempt" \in types)
         /\ Welcomed' = Welcomed + One("auth_success" \in types)
<1>1. agg \in [Kinds -> Nat] /\ DOMAIN agg = Kinds
  BY DEF Typed
<1>2. agg' = [k \in Kinds |->
               agg[k] + One(IF k = "command" THEN types \cap {"command", "exec"} # {}
                                             ELSE k \in types)]
  BY <1>1 DEF Log
<1>3. \A b : One(b) \in Nat
  BY DEF One
<1> QED
  BY <1>1, <1>2, <1>3 DEF Kinds, Asked, Refused, Welcomed

(***************************************************************************)
(* The kinds of steps: without an attempt, with one told by its outcome,   *)
(* with one that is announced.                                             *)
(***************************************************************************)
Passive ==
  /\ UNCHANGED <<svc, fa, tries, last>> /\ agg' \in [Kinds -> Nat]
  /\ Asked' = Asked /\ Refused' = Refused /\ Welcomed' = Welcomed

Told(ok) ==
  /\ UNCHANGED <<svc, fa>> /\ tries' = tries + 1 /\ agg' \in [Kinds -> Nat]
  /\ Asked' = Asked /\ Refused' = Refused + One(~ok) /\ Welcomed' = Welcomed + One(ok)

Announced(ok) ==
  /\ UNCHANGED <<svc, fa>> /\ tries' = tries + 1 /\ agg' \in [Kinds -> Nat]
  /\ Asked' = Asked + 1 /\ Refused' = Refused /\ Welcomed' = Welcomed + One(ok)

(***************************************************************************)
(* What a handler logs without an attempt counts as none.                  *)
(***************************************************************************)
LEMMA SawIsPassive ==
  ASSUME Typed, NEW types, types \cap AuthTypes = {}, Saw(types)
  PROVE  Passive
<1>1. Log(types) /\ UNCHANGED <<svc, fa, tries, last>>
  BY DEF Saw
<1>2. /\ agg' \in [Kinds -> Nat]
      /\ Asked' = Asked + 0 /\ Refused' = Refused + 0 /\ Welcomed' = Welcomed + 0
  BY <1>1, LogAdds DEF One, AuthTypes
<1>3. Asked \in Nat /\ Refused \in Nat /\ Welcomed \in Nat
  BY DEF Typed, Asked, Refused, Welcomed, Kinds
<1> QED
  BY <1>1, <1>2, <1>3 DEF Passive

(***************************************************************************)
(* A judgement counts by its outcome, and on top of the attempt for SSH.   *)
(***************************************************************************)
LEMMA AttemptIsTold ==
  ASSUME Typed, NEW types, types \cap AuthTypes = {}, NEW u, NEW p, NEW ok \in BOOLEAN,
         Attempt(types \cup {IF ok THEN "auth_success" ELSE "login_attempt"}, u, p, ok)
  PROVE  Told(ok)
<1> DEFINE all == types \cup {IF ok THEN "auth_success" ELSE "login_attempt"}
<1>1. Log(all) /\ tries' = tries + 1 /\ UNCHANGED <<svc, fa>>
  BY DEF Attempt
<1>2. /\ "auth_attempt" \notin all
      /\ "login_attempt" \in all <=> ~ok
      /\ "auth_success" \in all <=> ok
  BY DEF AuthTypes
<1> HIDE DEF all
<1>3. /\ agg' \in [Kinds -> Nat]
      /\ Asked' = Asked + 0 /\ Refused' = Refused + One(~ok) /\ Welcomed' = Welcomed + One(ok)
  BY <1>1, <1>2, LogAdds DEF One
<1>4. Asked \in Nat
  BY DEF Typed, Asked, Kinds
<1> QED
  BY <1>1, <1>3, <1>4 DEF Told

(***************************************************************************)
(* An attempt that is announced, taken or not.                             *)
(***************************************************************************)
LEMMA AttemptIsAnnounced ==
  ASSUME Typed, NEW u, NEW p, NEW ok \in BOOLEAN,
         Attempt(IF ok THEN {"auth_attempt", "auth_success"} ELSE {"auth_attempt"}, u, p, ok)
  PROVE  Announced(ok)
<1> DEFINE all == IF ok THEN {"auth_attempt", "auth_success"} ELSE {"auth_attempt"}
<1>1. Log(all) /\ tries' = tries + 1 /\ UNCHANGED <<svc, fa>>
  BY DEF Attempt
<1>2. /\ "auth_attempt" \in all
      /\ "login_attempt" \notin all
      /\ "auth_success" \in all <=> ok
  OBVIOUS
<1> HIDE DEF all
<1>3. /\ agg' \in [Kinds -> Nat]
      /\ Asked' = Asked + 1 /\ Refused' = Refused + 0 /\ Welcomed' = Welcomed + One(ok)
  BY <1>1, <1>2, LogAdds DEF One
<1>4. Refused \in Nat
  BY DEF Typed, Refused, Kinds
<1> QED
  BY <1>1, <1>3, <1>4 DEF Announced

(***************************************************************************)
(* Verdict, for SSH and for the others.                                    *)
(***************************************************************************)
LEMMA VerdictIs ==
  ASSUME NEW ok \in BOOLEAN
  PROVE  /\ svc # "ssh" => Verdict(ok) = {IF ok THEN "auth_success" ELSE "login_attempt"}
         /\ svc = "ssh" => Verdict(ok) = IF ok THEN {"auth_attempt", "auth_success"}
                                               ELSE {"auth_attempt"}
  BY DEF Verdict

-----------------------------------------------------------------------------
\* What a step does to the handler's state.

(***************************************************************************)
(* The state stays one, and nobody gets a shell.                           *)
(***************************************************************************)
Guest == st' \in State /\ (st'.stage = "shell" => st.stage = "shell")

(***************************************************************************)
(* Staying, leaving and moving to another stage.                           *)
(***************************************************************************)
LEMMA GuestMoves ==
  ASSUME Typed
  PROVE  /\ Keep \/ Hangup => Guest
         /\ \A limit \in Nat : NextPacket(limit) => Guest
         /\ \A stage \in Stages \ {"shell"} : st' = [st EXCEPT !.stage = stage] => Guest
         /\ \A u \in Text : st' = [st EXCEPT !.user = u] => Guest
<1>1. st \in State
  BY DEF Typed
<1>2. Keep \/ Hangup => Guest
  BY <1>1 DEF Keep, Hangup, Guest, State, Stages
<1>3. ASSUME NEW limit \in Nat, NextPacket(limit) PROVE Guest
  <2>1. PICK stage \in {"closed", st.stage} :
               st' = [st EXCEPT !.n = st.n + 1, !.stage = stage]
    BY <1>3 DEF NextPacket
  <2>2. stage \in Stages /\ st.n + 1 \in Nat
    BY <1>1 DEF State, Stages
  <2>3. st' \in State /\ st'.stage = stage
    BY <1>1, <2>1, <2>2 DEF State
  <2> QED
    BY <2>3 DEF Guest
<1>4. \A stage \in Stages \ {"shell"} : st' = [st EXCEPT !.stage = stage] => Guest
  BY <1>1 DEF Guest, State
<1>5. \A u \in Text : st' = [st EXCEPT !.user = u] => Guest
  BY <1>1 DEF Guest, State
<1> QED
  BY <1>2, <1>3, <1>4, <1>5

(***************************************************************************)
(* Judged, but for the reply.                                              *)
(***************************************************************************)
Asks(types, pairs) ==
  \E c \in pairs : \E ok \in ShouldAccept(c[1], c[2]) :
    Attempt(types \cup Verdict(ok), c[1], c[2], ok)

Outcome == Passive \/ \E ok \in BOOLEAN : Told(ok)

(***************************************************************************)
(* A judgement and a refusal are told by their outcome.                    *)
(***************************************************************************)
LEMMA OutcomeIs ==
  ASSUME Typed, NEW types, types \cap AuthTypes = {}, NEW pairs
  PROVE  /\ Saw(types) => Outcome
         /\ svc # "ssh" /\ Asks(types, pairs) => Outcome
         /\ Recorded(types, pairs) => Outcome
<1>1. Saw(types) => Outcome
  BY SawIsPassive DEF Outcome
<1>2. ASSUME svc # "ssh", Asks(types, pairs) PROVE Outcome
  <2>1. PICK c \in pairs : \E ok \in ShouldAccept(c[1], c[2]) :
               Attempt(types \cup Verdict(ok), c[1], c[2], ok)
    BY <1>2 DEF Asks
  <2>2. PICK ok \in ShouldAccept(c[1], c[2]) :
               Attempt(types \cup Verdict(ok), c[1], c[2], ok)
    BY <2>1
  <2>3. ok \in BOOLEAN
    BY YesIsAllowed
  <2>4. Told(ok)
    BY <1>2, <2>2, <2>3, VerdictIs, AttemptIsTold
  <2> QED
    BY <2>3, <2>4 DEF Outcome
<1>3. ASSUME Recorded(types, pairs) PROVE Outcome
  <2>1. PICK c \in pairs : Attempt(types \cup {"login_attempt"}, c[1], c[2], FALSE)
    BY <1>3 DEF Recorded
  <2>2. Told(FALSE)
    BY <2>1, AttemptIsTold
  <2> QED
    BY <2>2 DEF Outcome
<1> QED
  BY <1>1, <1>2, <1>3

-----------------------------------------------------------------------------
\* One service after the other.

(***************************************************************************)
(* The services that judge or record, without a shell.                     *)
(***************************************************************************)
LEMMA GuestsAreTold ==
  ASSUME Typed,
         \/ Ftp \/ Pop3 \/ Imap \/ Redis \/ Mysql \/ Postgres \/ Mssql \/ Mqtt
         \/ Rsync \/ SipTcp \/ Socks \/ Socks4 \/ Socks5 \/ Http
         \/ ClickHouseHttp \/ Elasticsearch
  PROVE  Guest /\ Outcome /\ svc \notin Announce \cup Untold \cup {"smtp", "telnet"}
<1> USE DEF Announce, Untold, On, At
<1>1. st \in State
  BY DEF Typed
<1>2. \A types, pairs : types \cap AuthTypes = {} =>
        /\ Saw(types) => Outcome
        /\ svc # "ssh" /\ Asks(types, pairs) => Outcome
        /\ Recorded(types, pairs) => Outcome
  BY OutcomeIs
<1>3. /\ Keep \/ Hangup => Guest
      /\ \A limit \in Nat : NextPacket(limit) => Guest
      /\ \A stage \in Stages \ {"shell"} : st' = [st EXCEPT !.stage = stage] => Guest
      /\ \A u \in Text : st' = [st EXCEPT !.user = u] => Guest
  BY GuestMoves
<1> USE DEF AuthTypes
<1>4. CASE Ftp
  <2>1. CASE Judged({"command"}, {st.user} \X Text, FtpPass)
    <3>1. Asks({"command"}, {st.user} \X Text) /\ \E u, ok : FtpPass(u, ok)
      BY <2>1 DEF Judged, Asks
    <3>2. Guest
      BY <1>1, <3>1 DEF FtpPass, Guest, State
    <3> QED
      BY <1>2, <1>4, <3>1, <3>2 DEF Ftp
  <2> QED
    BY <1>2, <1>3, <1>4, <2>1 DEF Ftp
<1>5. CASE Pop3
  <2>1. CASE Judged({"command"}, {st.user} \X Text, Pop3Pass)
    <3>1. /\ Asks({"command"}, {st.user} \X Text)
          /\ \E u \in {st.user}, p \in Text : \E ok \in ShouldAccept(u, p) : Pop3Pass(u, ok)
      BY <2>1 DEF Judged, Asks
    <3>2. \E u, ok : ok \in BOOLEAN /\ Pop3Pass(u, ok)
      BY <3>1, YesIsAllowed
    <3>3. Guest
      BY <1>1, <3>2 DEF Pop3Pass, Guest, State
    <3> QED
      BY <1>2, <1>5, <3>1, <3>3 DEF Pop3
  <2>2. CASE \E u \in Text :
               st' = [st EXCEPT !.user = u] /\ Recorded({"command"}, {u} \X Text)
    BY <1>2, <1>3, <1>5, <2>2 DEF Pop3
  <2> QED
    BY <1>2, <1>3, <1>5, <2>1, <2>2 DEF Pop3
<1>6. CASE Imap
  <2>1. CASE Judged({"command"}, Credentials, ImapFinish)
    <3>1. /\ Asks({"command"}, Credentials)
          /\ \E u \in Text : \E ok : ImapFinish(u, ok)
      BY <2>1 DEF Judged, Asks, Credentials
    <3> QED
      BY <1>2, <1>3, <1>6, <3>1 DEF Imap, ImapFinish
  <2> QED
    BY <1>2, <1>3, <1>6, <2>1 DEF Imap
<1>7. CASE Redis \/ Http
  <2>1. ASSUME NEW pairs, Judged({}, pairs, Stay)
        PROVE  Guest /\ Asks({}, pairs)
    BY <1>3, <2>1 DEF Judged, Asks, Stay
  <2> QED
    BY <1>2, <1>3, <1>7, <2>1 DEF Redis, Http
<1>8. CASE Mysql
  <2>1. CASE Judged({}, Text \X {"", "<sha1>"}, MysqlReply)
    <3>1. Asks({}, Text \X {"", "<sha1>"}) /\ (Keep \/ Hangup)
      BY <2>1 DEF Judged, Asks, MysqlReply
    <3> QED
      BY <1>2, <1>3, <1>8, <3>1 DEF Mysql
  <2> QED
    BY <1>2, <1>3, <1>8, <2>1 DEF Mysql
<1>9. CASE Postgres \/ SipTcp \/ ClickHouseHttp \/ Elasticsearch
  BY <1>2, <1>3, <1>9 DEF Postgres, SipTcp, ClickHouseHttp, Elasticsearch
<1>10. CASE Mssql \/ Mqtt
  BY <1>2, <1>3, <1>10 DEF Mssql, Mqtt
<1>11. CASE Rsync
  BY <1>2, <1>3, <1>11 DEF Rsync, Stages
<1>12. CASE Socks \/ Socks4
  BY <1>2, <1>3, <1>12 DEF Socks, Socks4
<1>13. CASE Socks5
  <2>1. CASE Judged({"client_hello"}, Credentials, Socks5Reply)
    <3>1. /\ Asks({"client_hello"}, Credentials)
          /\ \E stage \in {"request", "closed"} : st' = [st EXCEPT !.stage = stage]
      BY <2>1 DEF Judged, Asks, Socks5Reply
    <3> QED
      BY <1>2, <1>3, <1>13, <3>1 DEF Socks5, Stages
  <2> QED
    BY <1>2, <1>3, <1>13, <2>1 DEF Socks5, Stages
<1> QED
  BY <1>4, <1>5, <1>6, <1>7, <1>8, <1>9, <1>10, <1>11, <1>12, <1>13

(***************************************************************************)
(* The services that only record what they are sent.                       *)
(***************************************************************************)
LEMMA RecordersArePassive ==
  ASSUME Typed,
         \/ Memcached \/ Generic \/ Rdp \/ Smb \/ ClickHouseNative
         \/ OpenVpnTcp \/ Pptp
  PROVE  Guest /\ Passive /\ svc \notin Announce \cup Untold \cup {"smtp", "telnet"}
<1>1. \A types : types \cap AuthTypes = {} /\ Saw(types) => Passive
  BY SawIsPassive
<1>2. Keep \/ Hangup => Guest
  BY GuestMoves
<1> QED
  BY <1>1, <1>2
     DEF Memcached, Generic, Rdp, Smb, ClickHouseNative, OpenVpnTcp, Pptp,
         Announce, Untold, On, AuthTypes

(***************************************************************************)
(* The services that announce an attempt, but for SSH, take none.          *)
(***************************************************************************)
LEMMA DevicesAnnounce ==
  ASSUME Typed, Adb \/ Vnc
  PROVE  Guest /\ (Passive \/ Announced(FALSE)) /\ svc \in {"adb", "vnc"}
<1>1. \A types : types \cap AuthTypes = {} /\ Saw(types) => Passive
  BY SawIsPassive
<1>2. Attempt({"auth_attempt"}, "", "", FALSE) => Announced(FALSE)
  BY AttemptIsAnnounced
<1>3. /\ Keep \/ Hangup => Guest
      /\ \A stage \in Stages \ {"shell"} : st' = [st EXCEPT !.stage = stage] => Guest
  BY GuestMoves
<1>4. CASE Adb
  BY <1>1, <1>2, <1>3, <1>4 DEF Adb, On, AuthTypes
<1>5. CASE Vnc
  BY <1>1, <1>2, <1>3, <1>5 DEF Vnc, At, AuthTypes, Stages
<1> QED
  BY <1>4, <1>5

(***************************************************************************)
(* The services whose events do not tell only have to stay what they are.  *)
(***************************************************************************)
LEMMA UntoldStay ==
  ASSUME Typed, Ldap \/ Mongodb \/ Docker \/ Squid
  PROVE  /\ Guest /\ svc \in Untold /\ UNCHANGED <<svc, fa>>
         /\ agg' \in [Kinds -> Nat] /\ tries' \in Nat
<1> DEFINE Free == /\ UNCHANGED <<svc, fa>>
                   /\ agg' \in [Kinds -> Nat] /\ tries' \in Nat
<1>1. ASSUME NEW types, Log(types) PROVE agg' \in [Kinds -> Nat]
  BY <1>1, LogAdds
<1>2. ASSUME NEW types, NEW pairs, NEW u, NEW p
      PROVE  /\ Saw(types) => Free
             /\ Attempt(types, u, p, FALSE) => Free
             /\ Recorded(types, pairs) => Free
             /\ Asks(types, pairs) => Free
  <2>1. tries \in Nat
    BY DEF Typed
  <2>2. Saw(types) => Free
    BY <1>1, <2>1 DEF Saw
  <2>3. ASSUME NEW all, NEW v, NEW q, NEW ok, Attempt(all, v, q, ok)
        PROVE  Free
    BY <1>1, <2>1, <2>3 DEF Attempt
  <2> HIDE DEF Free
  <2> QED
    BY <2>2, <2>3 DEF Recorded, Asks
<1>3. /\ Keep \/ Hangup => Guest
      /\ \A limit \in Nat : NextPacket(limit) => Guest
  BY GuestMoves
<1> HIDE DEF Free
<1>4. CASE Ldap
  <2>1. Judged({}, Credentials, Stay) => Keep /\ Asks({}, Credentials)
    BY DEF Judged, Asks, Stay
  <2> QED
    BY <1>2, <1>3, <1>4, <2>1 DEF Ldap, On, Untold, Free
<1>5. CASE Mongodb
  BY <1>2, <1>3, <1>5 DEF Mongodb, On, Untold, Free
<1>6. CASE Docker
  BY <1>2, <1>3, <1>6 DEF Docker, On, Untold, Free
<1>7. CASE Squid
  BY <1>2, <1>3, <1>7 DEF Squid, On, Untold, Free
<1> QED
  BY <1>4, <1>5, <1>6, <1>7


-----------------------------------------------------------------------------
\* What keeps the parts of the invariant.

(***************************************************************************)
(* The counts agree with the tries if a step counts as its service does.   *)
(***************************************************************************)
LEMMA CountsKeep ==
  ASSUME Typed, CountsInv, svc' = svc,
         \/ Passive
         \/ svc \notin Announce \cup Untold /\ Outcome
         \/ svc \in Announce /\ \E ok \in BOOLEAN : Announced(ok)
         \/ svc \in Untold
  PROVE  CountsInv'
<1>1. /\ Asked \in Nat /\ Refused \in Nat /\ Welcomed \in Nat /\ tries \in Nat
  BY DEF Typed, Asked, Refused, Welcomed, Kinds
<1>2. \A b \in BOOLEAN : One(b) \in {0, 1} /\ One(b) + One(~b) = 1
  BY DEF One
<1>3. Announce \cap Untold = {}
  BY DEF Announce, Untold
<1>4. CASE Passive
  BY <1>4 DEF Passive, CountsInv
<1>5. CASE svc \notin Announce \cup Untold /\ \E ok \in BOOLEAN : Told(ok)
  <2>1. PICK ok \in BOOLEAN : Told(ok)
    BY <1>5
  <2>2. /\ Asked' = 0 /\ tries' = tries + 1 /\ Refused + Welcomed = tries
        /\ Refused' = Refused + One(~ok) /\ Welcomed' = Welcomed + One(ok)
    BY <1>5, <2>1 DEF Told, CountsInv
  <2>3. One(ok) \in {0, 1} /\ One(~ok) \in {0, 1} /\ One(ok) + One(~ok) = 1
    BY <1>2
  <2>4. Refused' + Welcomed' = tries'
    BY <1>1, <2>2, <2>3
  <2> QED
    BY <1>5, <2>2, <2>4 DEF CountsInv
<1>6. CASE svc \in Announce /\ \E ok \in BOOLEAN : Announced(ok)
  <2>1. PICK ok \in BOOLEAN : Announced(ok)
    BY <1>6
  <2>2. One(ok) \in {0, 1}
    BY <1>2
  <2>3. Asked' = tries' /\ Refused' = 0 /\ Welcomed' <= tries'
    BY <1>1, <1>6, <2>1, <2>2 DEF Announced, CountsInv
  <2> QED
    BY <1>3, <1>6, <2>3 DEF CountsInv
<1>7. CASE svc \in Untold
  BY <1>3, <1>7 DEF CountsInv
<1> QED
  BY <1>4, <1>5, <1>6, <1>7 DEF Outcome

(***************************************************************************)
(* The types follow from what the step counts and where it goes.           *)
(***************************************************************************)
LEMMA TypedKeeps ==
  ASSUME Typed, st' \in State, UNCHANGED telnetVars,
         Passive \/ Outcome \/ \E ok \in BOOLEAN : Announced(ok)
  PROVE  Typed' /\ svc' = svc /\ fa' = fa
  BY DEF Typed, telnetVars, Passive, Outcome, Told, Announced

(***************************************************************************)
(* Who is inside stays, as long as he keeps his name and tries nothing.    *)
(***************************************************************************)
LEMMA InsiderStays ==
  ASSUME ShellInv, UNCHANGED <<svc, fa, last>>,
         st'.user = st.user, st'.in = st.in, st'.stage = "shell" => st.stage = "shell"
  PROVE  ShellInv'
BY DEF ShellInv, InsidersAreAllowed, HasShell

(***************************************************************************)
(* Who comes in was allowed to.                                            *)
(***************************************************************************)
LEMMA InsiderComes ==
  ASSUME Typed, svc \in {"telnet", "ssh", "smtp"}, UNCHANGED <<svc, fa>>,
         NEW u, NEW p, NEW ok \in ShouldAccept(u, p),
         last' = [user |-> u, pass |-> p, ok |-> ok], st'.user = u,
         HasShell' => ok, st'.stage = "shell" => svc # "smtp"
  PROVE  ShellInv'
<1>1. ok => u \notin fa.reject /\ (fa.mode = "never" => p \in fa.passwords)
  BY YesIsAllowed
<1> QED
  BY <1>1 DEF ShellInv, InsidersAreAllowed

(***************************************************************************)
(* A step of the other services keeps the invariant.                       *)
(***************************************************************************)
LEMMA OutsidersKeep ==
  ASSUME DlgInv, UNCHANGED telnetVars,
         \/ Ftp \/ Pop3 \/ Imap \/ Redis \/ Mysql \/ Postgres \/ Mssql \/ Mqtt
         \/ Rsync \/ SipTcp \/ Socks \/ Socks4 \/ Socks5 \/ Http
         \/ ClickHouseHttp \/ Elasticsearch
         \/ Memcached \/ Generic \/ Rdp \/ Smb \/ ClickHouseNative
         \/ OpenVpnTcp \/ Pptp \/ Adb \/ Vnc \/ Ldap \/ Mongodb \/ Docker \/ Squid
  PROVE  DlgInv'
<1>1. Typed /\ CountsInv /\ ShellInv
  BY DEF DlgInv
<1>2. /\ Guest /\ svc \notin {"smtp", "telnet", "ssh"}
      /\ Typed' /\ svc' = svc
      /\ \/ Passive
         \/ svc \notin Announce \cup Untold /\ Outcome
         \/ svc \in Announce /\ \E ok \in BOOLEAN : Announced(ok)
         \/ svc \in Untold
  <2>1. CASE \/ Ftp \/ Pop3 \/ Imap \/ Redis \/ Mysql \/ Postgres \/ Mssql \/ Mqtt
             \/ Rsync \/ SipTcp \/ Socks \/ Socks4 \/ Socks5 \/ Http
             \/ ClickHouseHttp \/ Elasticsearch
    <3>1. Guest /\ Outcome /\ svc \notin Announce \cup Untold \cup {"smtp", "telnet"}
      BY <1>1, <2>1, GuestsAreTold
    <3> QED
      BY <1>1, <3>1, TypedKeeps DEF Guest, Announce
  <2>2. CASE \/ Memcached \/ Generic \/ Rdp \/ Smb \/ ClickHouseNative
             \/ OpenVpnTcp \/ Pptp
    <3>1. Guest /\ Passive /\ svc \notin Announce \cup Untold \cup {"smtp", "telnet"}
      BY <1>1, <2>2, RecordersArePassive
    <3> QED
      BY <1>1, <3>1, TypedKeeps DEF Guest, Announce
  <2>3. CASE Adb \/ Vnc
    <3>1. Guest /\ (Passive \/ Announced(FALSE)) /\ svc \in {"adb", "vnc"}
      BY <1>1, <2>3, DevicesAnnounce
    <3> QED
      BY <1>1, <3>1, TypedKeeps DEF Guest, Announce
  <2>4. CASE Ldap \/ Mongodb \/ Docker \/ Squid
    <3>1. /\ Guest /\ svc \in Untold /\ UNCHANGED <<svc, fa>>
          /\ agg' \in [Kinds -> Nat] /\ tries' \in Nat
      BY <1>1, <2>4, UntoldStay
    <3> QED
      BY <1>1, <3>1 DEF Guest, Untold, Typed, telnetVars
  <2> QED
    BY <2>1, <2>2, <2>3, <2>4
<1>3. CountsInv'
  BY <1>1, <1>2, CountsKeep
<1>4. ShellInv'
  BY <1>1, <1>2 DEF Guest, ShellInv, InsidersAreAllowed, HasShell
<1>5. GuessInv'
  BY <1>2 DEF GuessInv
<1> QED
  BY <1>2, <1>3, <1>4, <1>5 DEF DlgInv

(***************************************************************************)
(* SMTP: a login stands until the next AUTH.                               *)
(***************************************************************************)
LEMMA SmtpKeeps ==
  ASSUME DlgInv, UNCHANGED telnetVars, SmtpLine \/ SmtpData
  PROVE  DlgInv'
<1>1. Typed /\ CountsInv /\ ShellInv /\ st \in State
  BY DEF DlgInv, Typed
<1>2. svc = "smtp" /\ svc \notin Announce \cup Untold
  BY DEF SmtpLine, SmtpData, At, Announce, Untold
<1>3. ASSUME Judged({"command"}, Credentials, SmtpAuth), st.stage = "start"
      PROVE  st' \in State /\ Outcome /\ ShellInv'
  <2>1. PICK u \in Text, p \in Text : \E ok \in ShouldAccept(u, p) :
               Attempt({"command"} \cup Verdict(ok), u, p, ok) /\ SmtpAuth(u, ok)
    BY <1>3 DEF Judged, Credentials
  <2>2. PICK ok \in ShouldAccept(u, p) :
               Attempt({"command"} \cup Verdict(ok), u, p, ok) /\ SmtpAuth(u, ok)
    BY <2>1
  <2>3. ok \in BOOLEAN
    BY <1>1, YesIsAllowed
  <2>4. Outcome
    <3>1. Asks({"command"}, Credentials)
      BY <1>3 DEF Judged, Asks
    <3> QED
      BY <1>1, <1>2, <3>1, OutcomeIs DEF AuthTypes
  <2>5. /\ st' \in State /\ st'.user = u /\ st'.in = ok /\ st'.stage = "start"
        /\ last' = [user |-> u, pass |-> p, ok |-> ok] /\ UNCHANGED <<svc, fa>>
    BY <1>1, <1>3, <2>2, <2>3 DEF SmtpAuth, Attempt, State
  <2>6. HasShell' => ok
    BY <2>5 DEF HasShell
  <2> QED
    BY <1>1, <1>2, <2>4, <2>5, <2>6, InsiderComes
<1>4. ASSUME NEW types, types \cap AuthTypes = {}, Saw(types),
             \/ Keep \/ Hangup \/ Data \/ Dot
             \/ \E b \in BOOLEAN : st' = [st EXCEPT !.to = b]
      PROVE  st' \in State /\ Outcome /\ ShellInv'
  <2>1. Passive
    BY <1>1, <1>4, SawIsPassive
  <2>2. /\ st' \in State /\ st'.user = st.user /\ st'.in = st.in
        /\ st'.stage \in {st.stage, "start", "data", "closed"}
    BY <1>1, <1>4 DEF Keep, Hangup, Data, Dot, State, Stages
  <2> QED
    BY <1>1, <2>1, <2>2, InsiderStays DEF Passive, Outcome
<1>5. st' \in State /\ Outcome /\ ShellInv'
  <2>1. CASE SmtpLine
    BY <1>3, <1>4, <2>1 DEF SmtpLine, At, AuthTypes
  <2>2. CASE SmtpData
    BY <1>4, <2>2 DEF SmtpData, AuthTypes
  <2> QED
    BY <2>1, <2>2
<1>6. Typed' /\ svc' = svc
  BY <1>1, <1>5, TypedKeeps
<1>7. CountsInv'
  BY <1>1, <1>2, <1>5, <1>6, CountsKeep
<1>8. GuessInv'
  BY <1>2, <1>6 DEF GuessInv
<1> QED
  BY <1>5, <1>6, <1>7, <1>8 DEF DlgInv

(***************************************************************************)
(* SSH: a session needs a yes, and no attempt follows it.                  *)
(***************************************************************************)
LEMMA SshKeeps ==
  ASSUME DlgInv, UNCHANGED telnetVars, SshPassword \/ SshPublicKey \/ SshSession
  PROVE  DlgInv'
<1>1. Typed /\ CountsInv /\ ShellInv /\ st \in State
  BY DEF DlgInv, Typed
<1>2. svc = "ssh" /\ svc \in Announce
  BY DEF SshPassword, SshPublicKey, SshSession, At, Announce
<1>3. ASSUME SshPassword
      PROVE  st' \in State /\ ShellInv' /\ (Passive \/ \E ok \in BOOLEAN : Announced(ok))
  <2>1. PICK u \in Text, p \in Text : \E ok \in ShouldAccept(u, p) :
               Attempt({} \cup Verdict(ok), u, p, ok) /\ SshPass(u, ok)
    BY <1>3 DEF SshPassword, Judged, Credentials
  <2>2. PICK ok \in ShouldAccept(u, p) :
               Attempt({} \cup Verdict(ok), u, p, ok) /\ SshPass(u, ok)
    BY <2>1
  <2>3. ok \in BOOLEAN
    BY <1>1, YesIsAllowed
  <2>4. Announced(ok)
    <3>1. {} \cup Verdict(ok) = IF ok THEN {"auth_attempt", "auth_success"}
                                      ELSE {"auth_attempt"}
      BY <1>2, <2>3, VerdictIs
    <3> QED
      BY <1>1, <2>2, <2>3, <3>1, AttemptIsAnnounced
  <2>5. /\ st' = [st EXCEPT !.user = u, !.stage = IF ok THEN "shell" ELSE "start"]
        /\ last' = [user |-> u, pass |-> p, ok |-> ok] /\ UNCHANGED <<svc, fa>>
    BY <1>3, <2>2 DEF SshPassword, At, SshPass, Attempt
  <2>6. /\ st' \in State /\ st'.user = u
        /\ st'.stage = IF ok THEN "shell" ELSE "start"
    BY <1>1, <2>5 DEF State, Stages
  <2>7. HasShell' => ok
    BY <1>2, <2>5, <2>6 DEF HasShell
  <2> QED
    BY <1>1, <1>2, <2>3, <2>4, <2>5, <2>6, <2>7, InsiderComes
<1>4. ASSUME SshPublicKey
      PROVE  st' \in State /\ ShellInv' /\ (Passive \/ \E ok \in BOOLEAN : Announced(ok))
  <2>1. PICK u \in Text : Attempt({"auth_attempt"}, u, "", FALSE)
    BY <1>4 DEF SshPublicKey
  <2>2. Announced(FALSE)
    BY <1>1, <2>1, AttemptIsAnnounced
  <2>3. st' = st /\ st.stage = "start" /\ svc' = svc
    BY <1>4, <2>1 DEF SshPublicKey, At, Keep, Attempt
  <2>4. ShellInv'
    BY <1>2, <2>3 DEF ShellInv, InsidersAreAllowed, HasShell
  <2> QED
    BY <1>1, <2>2, <2>3, <2>4
<1>5. ASSUME SshSession
      PROVE  st' \in State /\ ShellInv' /\ (Passive \/ \E ok \in BOOLEAN : Announced(ok))
  <2>1. Passive
    BY <1>1, <1>5, SawIsPassive DEF SshSession, AuthTypes
  <2>2. Keep \/ Hangup
    BY <1>5 DEF SshSession
  <2>3. /\ st' \in State /\ st'.user = st.user /\ st'.in = st.in
        /\ st'.stage \in {st.stage, "closed"}
    BY <1>1, <2>2 DEF Keep, Hangup, State, Stages
  <2> QED
    BY <1>1, <2>1, <2>3, InsiderStays DEF Passive
<1>6. st' \in State /\ ShellInv' /\ (Passive \/ \E ok \in BOOLEAN : Announced(ok))
  BY <1>3, <1>4, <1>5
<1>7. Typed' /\ svc' = svc
  BY <1>1, <1>6, TypedKeeps
<1>8. CountsInv'
  BY <1>1, <1>2, <1>6, <1>7, CountsKeep
<1>9. GuessInv'
  BY <1>2, <1>7 DEF GuessInv
<1> QED
  BY <1>6, <1>7, <1>8, <1>9 DEF DlgInv

(***************************************************************************)
(* Telnet, between two line ends: nothing is counted or judged.            *)
(***************************************************************************)
LEMMA TypingKeeps ==
  ASSUME DlgInv, (\E w \in Text : Type(w)) \/ Ignored
  PROVE  DlgInv'
<1>1. Typed /\ CountsInv /\ ShellInv /\ GuessInv /\ st \in State
  BY DEF DlgInv, Typed
<1>2. /\ UNCHANGED <<svc, fa, agg, tries, last, lines>> /\ cr' = FALSE
      /\ \E w \in Text : st' = [st EXCEPT !.buf = w]
  <2>1. CASE \E w \in Text : Type(w)
    BY <2>1 DEF Type
  <2>2. CASE Ignored
    <3>1. st = [st EXCEPT !.buf = st.buf] /\ st.buf \in Text
      BY <1>1 DEF State
    <3> QED
      BY <2>2, <3>1 DEF Ignored
  <2> QED
    BY <2>1, <2>2
<1>3. /\ st' \in State /\ st'.user = st.user /\ st'.in = st.in
      /\ st'.stage = st.stage /\ st'.n = st.n
  BY <1>1, <1>2 DEF State
<1>4. Typed'
  BY <1>1, <1>2, <1>3 DEF Typed
<1>5. CountsInv'
  BY <1>1, <1>2 DEF CountsInv, Asked, Refused, Welcomed
<1>6. ShellInv'
  BY <1>1, <1>2, <1>3, InsiderStays
<1>7. GuessInv'
  BY <1>1, <1>2, <1>3 DEF GuessInv, Refused, Welcomed
<1> QED
  BY <1>4, <1>5, <1>6, <1>7 DEF DlgInv

(***************************************************************************)
(* Telnet, at the end of a line: a name is taken, a guess is judged, a     *)
(* command is logged; an empty line outside of a guess is nothing.         *)
(***************************************************************************)
LEMMA LineEndKeeps ==
  ASSUME DlgInv, NEW c \in {"CR", "LF"}, LineEnd(c)
  PROVE  DlgInv'
<1>1. Typed /\ CountsInv /\ ShellInv /\ GuessInv
      /\ st \in State /\ tries \in Nat /\ lines \in Nat
  BY DEF DlgInv, Typed
<1>2. svc = "telnet" /\ svc \notin Announce \cup Untold /\ cr' \in BOOLEAN
  BY DEF LineEnd, On, Announce, Untold
<1>3. /\ st.stage \in {"start", "pass", "shell", "closed"}
      /\ 2 * tries + (IF st.stage = "pass" THEN 1 ELSE 0) <= lines
      /\ st.stage \in {"start", "pass"} => Refused = st.n /\ st.n < 3 /\ Welcomed = 0
      /\ st.stage = "shell" => Refused < 3 /\ Welcomed = 1
      /\ st.stage = "closed" => Refused <= 3
  BY <1>1, <1>2 DEF GuessInv
<1>4. Refused \in Nat /\ Welcomed \in Nat
  BY <1>1 DEF Typed, Refused, Welcomed, Kinds
<1>5. CASE SecondHalf(c)
  <2>1. UNCHANGED <<svc, fa, st, agg, tries, last, lines>>
    BY <1>5 DEF LineEnd
  <2>2. Typed' /\ CountsInv'
    BY <1>1, <1>2, <2>1 DEF Typed, CountsInv, Asked, Refused, Welcomed
  <2>3. ShellInv'
    BY <1>1, <2>1, InsiderStays
  <2>4. GuessInv'
    BY <1>1, <2>1 DEF GuessInv, Refused, Welcomed
  <2> QED
    BY <2>2, <2>3, <2>4 DEF DlgInv
<1>6. CASE ~SecondHalf(c)
  <2> DEFINE Goal == /\ st' \in State /\ Outcome /\ ShellInv' /\ GuessInv'
                     /\ UNCHANGED <<svc, fa>>
  <2>1. Submit /\ lines' = lines + 1
    BY <1>6 DEF LineEnd
  <2>2. ASSUME NEW types, types \cap AuthTypes = {}, Saw(types),
               st' \in State, st'.in = st.in,
               \/ st'.stage = st.stage /\ st.stage # "pass" /\ st'.n = st.n /\ st'.user = st.user
               \/ st.stage = "start" /\ st'.stage = "pass" /\ st'.n = st.n
               \/ st.stage = "shell" /\ st'.stage = "closed" /\ st'.user = st.user
        PROVE  Goal
    <3>1. Passive
      BY <1>1, <2>2, SawIsPassive
    <3>2. /\ UNCHANGED <<svc, fa, tries, last>> /\ Refused' = Refused
          /\ Welcomed' = Welcomed /\ lines' = lines + 1
      BY <2>1, <3>1 DEF Passive
    <3>3. ShellInv'
      <4>1. CASE st'.user = st.user /\ (st'.stage = "shell" => st.stage = "shell")
        BY <1>1, <2>2, <3>2, <4>1, InsiderStays
      <4>2. CASE st.stage = "start" /\ st'.stage = "pass"
        BY <1>2, <3>2, <4>2 DEF ShellInv, InsidersAreAllowed, HasShell
      <4> QED
        BY <2>2, <4>1, <4>2
    <3>4. GuessInv'
      <4>1. st'.stage \in {"start", "pass", "shell", "closed"}
        BY <1>3, <2>2
      <4>2. 2 * tries' + (IF st'.stage = "pass" THEN 1 ELSE 0) <= lines'
        BY <1>1, <1>3, <2>2, <3>2
      <4>3. /\ st'.stage \in {"start", "pass"} =>
                 Refused' = st'.n /\ st'.n < 3 /\ Welcomed' = 0
            /\ st'.stage = "shell" => Refused' < 3 /\ Welcomed' = 1
            /\ st'.stage = "closed" => Refused' <= 3
        BY <1>3, <1>4, <2>2, <3>2
      <4> QED
        BY <4>1, <4>2, <4>3 DEF GuessInv
    <3> QED
      BY <2>2, <3>1, <3>2, <3>3, <3>4 DEF Outcome
  <2>3. ASSUME At("telnet", "pass"), Judged({}, {<<st.user, st.buf>>}, TelnetPass)
        PROVE  Goal
    <3>1. PICK ok \in ShouldAccept(st.user, st.buf) :
                 /\ Attempt({} \cup Verdict(ok), st.user, st.buf, ok)
                 /\ TelnetPass(st.user, ok)
      BY <2>3 DEF Judged
    <3>2. ok \in BOOLEAN
      BY <1>1, YesIsAllowed
    <3>3. Told(ok)
      <4>1. Verdict(ok) = {IF ok THEN "auth_success" ELSE "login_attempt"}
        BY <1>2, <3>2, VerdictIs
      <4> QED
        BY <1>1, <3>1, <3>2, <4>1, AttemptIsTold
    <3>4. st.stage = "pass" /\ Refused = st.n /\ st.n < 3 /\ st.n \in Nat
      BY <1>1, <1>3, <2>3 DEF At, State
    <3>5. /\ st' \in State /\ st'.user = st.user /\ st'.n = st.n + 1
          /\ ok => st'.stage = "shell"
          /\ ~ok => st'.stage = IF TooMany THEN "closed" ELSE "start"
      <4>1. PICK stage : /\ st' = [st EXCEPT !.n = st.n + 1, !.buf = "", !.stage = stage]
                         /\ ok => stage = "shell"
                         /\ ~ok => stage = IF TooMany THEN "closed" ELSE "start"
        BY <3>1, <3>2 DEF TelnetPass
      <4>2. stage \in Stages /\ "" \in Text /\ st.n + 1 \in Nat
        BY <3>2, <3>4, <4>1 DEF Stages, Text
      <4>3. /\ st' \in State /\ st'.user = st.user /\ st'.n = st.n + 1
            /\ st'.stage = stage
        BY <1>1, <4>1, <4>2 DEF State
      <4> QED
        BY <4>1, <4>3
    <3>6. /\ UNCHANGED <<svc, fa>> /\ tries' = tries + 1
          /\ Refused' = Refused + One(~ok) /\ Welcomed' = Welcomed + One(ok)
          /\ last' = [user |-> st.user, pass |-> st.buf, ok |-> ok]
      BY <3>1, <3>3 DEF Told, Attempt
    <3>7. ShellInv'
      <4>1. HasShell' => ok
        BY <1>2, <3>2, <3>5, <3>6 DEF HasShell
      <4> QED
        BY <1>1, <1>2, <3>1, <3>5, <3>6, <4>1, InsiderComes
    <3>8. GuessInv'
      <4>1. 2 * tries' + (IF st'.stage = "pass" THEN 1 ELSE 0) <= lines'
        BY <1>1, <1>3, <2>1, <3>2, <3>4, <3>5, <3>6
      <4>2. CASE ok
        <5>1. Refused' = Refused /\ Welcomed' = 1
          BY <1>3, <1>4, <3>4, <3>6, <4>2 DEF One
        <5> QED
          BY <3>4, <3>5, <4>1, <4>2, <5>1 DEF GuessInv
      <4>3. CASE ~ok
        <5>1. Refused' = st'.n /\ Welcomed' = 0
          BY <1>3, <1>4, <3>4, <3>5, <3>6, <4>3 DEF One
        <5>2. TooMany <=> st.n + 1 >= 3
          BY DEF TooMany
        <5> QED
          BY <3>4, <3>5, <4>1, <4>3, <5>1, <5>2 DEF GuessInv
      <4> QED
        BY <3>2, <4>2, <4>3
    <3> QED
      BY <3>2, <3>3, <3>5, <3>6, <3>7, <3>8 DEF Outcome
  <2>4. Goal
    <3> HIDE DEF Goal
    <3> USE DEF AuthTypes
    <3>1. CASE \/ (At("telnet", "start") \/ At("telnet", "shell"))
                  /\ st.buf = "" /\ Keep /\ Saw({})
      BY <1>1, <2>2, <3>1 DEF At, Keep
    <3>2. CASE /\ At("telnet", "start") /\ st.buf # ""
               /\ st' = [st EXCEPT !.user = st.buf, !.buf = "", !.stage = "pass"]
               /\ Saw({})
      <4>1. /\ st' \in State /\ st'.in = st.in /\ st'.stage = "pass" /\ st'.n = st.n
        BY <1>1, <3>2 DEF State, Stages, Text
      <4> QED
        BY <2>2, <3>2, <4>1 DEF At
    <3>3. CASE At("telnet", "pass") /\ Judged({}, {<<st.user, st.buf>>}, TelnetPass)
      BY <2>3, <3>3
    <3>4. CASE /\ At("telnet", "shell") /\ st.buf # ""
               /\ \E stage \in {"shell", "closed"} :
                    st' = [st EXCEPT !.buf = "", !.stage = stage]
               /\ Saw({"command"})
      <4>1. PICK stage \in {"shell", "closed"} :
                   st' = [st EXCEPT !.buf = "", !.stage = stage]
        BY <3>4
      <4>2. /\ st' \in State /\ st'.in = st.in /\ st'.stage = stage
            /\ st'.n = st.n /\ st'.user = st.user
        BY <1>1, <4>1 DEF State, Stages, Text
      <4> QED
        BY <2>2, <3>4, <4>2 DEF At
    <3> QED
      BY <2>1, <3>1, <3>2, <3>3, <3>4 DEF Submit
  <2>5. Typed'
    <3>1. agg' \in [Kinds -> Nat] /\ tries' \in Nat
      BY <1>1, <2>4 DEF Outcome, Passive, Told
    <3> QED
      BY <1>1, <1>2, <2>1, <2>4, <3>1 DEF Typed
  <2>6. CountsInv'
    BY <1>1, <1>2, <2>4, CountsKeep
  <2> QED
    BY <2>4, <2>5, <2>6 DEF DlgInv
<1> QED
  BY <1>5, <1>6

-----------------------------------------------------------------------------
(***************************************************************************)
(* A connection starts with nothing counted.                               *)
(***************************************************************************)
LEMMA InitDlgInv == DialoguesInit => DlgInv
<1> SUFFICES ASSUME DialoguesInit PROVE DlgInv
  OBVIOUS
<1>1. /\ st \in State /\ st.stage = "start" /\ st.n = 0 /\ st.in = FALSE
      /\ tries = 0 /\ lines = 0
  BY DEF DialoguesInit, State, Stages, Text
<1>2. Typed
  <2>1. agg \in [Kinds -> Nat]
    BY DEF DialoguesInit
  <2>2. /\ svc \in Services /\ fa \in FakeAuths /\ cr \in BOOLEAN /\ lines \in Nat
    BY DEF DialoguesInit
  <2> QED
    BY <1>1, <2>1, <2>2 DEF Typed
<1>3. Asked = 0 /\ Refused = 0 /\ Welcomed = 0
  BY DEF DialoguesInit, Asked, Refused, Welcomed, Kinds
<1>4. CountsInv /\ GuessInv
  BY <1>1, <1>3 DEF CountsInv, GuessInv
<1>5. ShellInv
  BY <1>1 DEF ShellInv, InsidersAreAllowed, HasShell
<1> QED
  BY <1>2, <1>4, <1>5 DEF DlgInv

(***************************************************************************)
(* Every step of every service keeps the invariant.                        *)
(***************************************************************************)
LEMMA NextDlgInv == DlgInv /\ [DialoguesNext]_dlVars => DlgInv'
<1> SUFFICES ASSUME DlgInv, [DialoguesNext]_dlVars PROVE DlgInv'
  OBVIOUS
<1>1. CASE Dialogue /\ UNCHANGED telnetVars
  BY <1>1, OutsidersKeep, SmtpKeeps, SshKeeps DEF Dialogue
<1>2. CASE (\E w \in Text : Type(w)) \/ Ignored
  BY <1>2, TypingKeeps
<1>3. CASE \E c \in {"CR", "LF"} : LineEnd(c)
  BY <1>3, LineEndKeeps
<1>4. CASE UNCHANGED dlVars
  BY <1>4 DEF dlVars, telnetVars, DlgInv, Typed, CountsInv, ShellInv, GuessInv,
              InsidersAreAllowed, HasShell, Asked, Refused, Welcomed
<1> QED
  BY <1>1, <1>2, <1>3, <1>4 DEF DialoguesNext

(***************************************************************************)
(* DlgInv holds in every reachable state of a dialogue.                    *)
(***************************************************************************)
THEOREM DialoguesInvariance == DialoguesSpec => []DlgInv
  BY InitDlgInv, NextDlgInv, PTL DEF DialoguesSpec

(***************************************************************************)
(* The statistics show as many attempts as the peer made, and all but the  *)
(* accepted ones as rejected, whatever the service and however it logs.    *)
(***************************************************************************)
THEOREM AttemptsStayTries == DialoguesSpec => []AttemptsAreTries
<1>1. DlgInv => AttemptsAreTries
  <2> SUFFICES ASSUME DlgInv, svc \notin Untold
               PROVE  Attempts(agg) = tries /\ Rejected(agg) = tries - Welcomed
    BY DEF AttemptsAreTries, Untold, Welcomed
  <2>1. Asked \in Nat /\ Refused \in Nat /\ Welcomed \in Nat /\ tries \in Nat
    BY DEF DlgInv, Typed, Asked, Refused, Welcomed, Kinds
  <2>2. Attempts(agg) = Asked + Refused + (IF Asked = 0 THEN Welcomed ELSE 0)
    BY DEF Attempts, Asked, Refused, Welcomed
  <2>3. Attempts(agg) = tries /\ Welcomed <= tries
    BY <2>1, <2>2 DEF DlgInv, CountsInv
  <2>4. Rejected(agg) = LET n == Attempts(agg) - Welcomed IN IF n < 0 THEN 0 ELSE n
    BY DEF Rejected, Welcomed
  <2> QED
    BY <2>1, <2>3, <2>4
<1> QED
  BY <1>1, DialoguesInvariance, PTL

(***************************************************************************)
(* Nobody has a shell, or is logged in for SMTP, whom the fakeAuth did not *)
(* let in under that name.                                                 *)
(***************************************************************************)
THEOREM InsidersStayAllowed == DialoguesSpec => []InsidersAreAllowed
<1>1. DlgInv => InsidersAreAllowed
  BY DEF DlgInv, ShellInv
<1> QED
  BY <1>1, DialoguesInvariance, PTL

(***************************************************************************)
(* A telnet guess takes two lines, however the lines end, and no more than *)
(* three fail.                                                             *)
(***************************************************************************)
THEOREM GuessesTakeLines == DialoguesSpec => []TelnetGuesses
<1>1. DlgInv => TelnetGuesses
  <2> SUFFICES ASSUME DlgInv, svc = "telnet"
               PROVE  /\ 2 * tries <= lines
                      /\ Refused <= 3
                      /\ Refused = 3 => st.stage = "closed" \/ Welcomed = 1
    BY DEF TelnetGuesses, Refused, Welcomed
  <2>1. Refused \in Nat /\ tries \in Nat /\ lines \in Nat /\ st.n \in Nat
    BY DEF DlgInv, Typed, Refused, Kinds, State
  <2> QED
    BY <2>1 DEF DlgInv, GuessInv
<1> QED
  BY <1>1, DialoguesInvariance, PTL
===========================================================================
