--------------------------- MODULE BlocklistProofs ---------------------------
(***************************************************************************)
(* Proofs about the list of blocked addresses, for any addresses, ranges   *)
(* and requests: the file is whole unless saves overlap, and what the last *)
(* save that ran alone leaves in it is the list, hits included.            *)
(***************************************************************************)
EXTENDS Blocklist, TLAPS

States == {"idle", "changed", "save", "open", "write", "rename", "remove",
           "clear", "closing", "gone", "down"}

BlocklistTypeOK ==
  /\ entries \in Listings
  /\ at \in [Actors -> States]
  /\ snap \in [Actors -> Listings]
  /\ held \in [Actors -> {"tmp", "path", "gone"}]
  /\ alone \subseteq Actors
  /\ changes \in 0..MaxChanges /\ faults \in 0..MaxFaults

\* Where the listing is that saver a is bringing to the file.
Content(a) == IF at[a] \in {"open", "write"} THEN snap[a]
              ELSE IF at[a] = "rename" THEN tmp ELSE path

\* Somebody will take another snapshot.
Pending == \E a \in Actors : at[a] \in {"changed", "save"}

Agrees(l) ==
  /\ DOMAIN l = DOMAIN entries
  /\ \A k \in DOMAIN entries : l[k].reason = entries[k].reason

SameHits(l) == \A k \in DOMAIN entries \ window : l[k].hits = entries[k].hits

\* Who runs alone is the only saver and the only one with a file open.
Alone ==
  /\ \A a \in Actors : held[a] # "gone" => at[a] = "write"
  /\ \A a \in alone : Savers = {a}
  /\ ~overlapped => Savers \subseteq alone
  /\ \A a \in alone : at[a] = "write" => held[a] = "tmp" /\ tmp = Empty

\* What it brings, unless it has given up, is the list, until the next change ...
Carries ==
  \A a \in alone :
    at[a] # "remove" =>
      /\ Content(a) \in Listings
      /\ Pending \/ (Agrees(Content(a)) /\ SameHits(Content(a)))

\* ... and what it brought stays the list, until the next change or hit.
Rests ==
  settled /\ Savers = {} =>
    /\ path \in Listings
    /\ Pending \/ (Agrees(path) /\ (dirty \/ touched \/ SameHits(path)))

BInv == BlocklistTypeOK /\ Alone /\ Carries /\ Rests /\ WholeUnlessOverlapped

-----------------------------------------------------------------------------
(***************************************************************************)
(* Listings: the empty one, and what changes and hits make of one.         *)
(***************************************************************************)
LEMMA NoEntries == <<>> \in Listings
<1>1. <<>> \in [{} -> Entry]
  OBVIOUS
<1> QED BY <1>1 DEF Listings

LEMMA LoadsListing == ASSUME NEW c PROVE Load(c) \in Listings
BY NoEntries DEF Load

LEMMA InitBInv == BlocklistInit => BInv
<1> SUFFICES ASSUME BlocklistInit PROVE BInv
  OBVIOUS
<1>1. BlocklistTypeOK
  BY NoEntries, BlocklistAssumption DEF BlocklistInit, BlocklistTypeOK, States
<1>2. Alone /\ Carries /\ Rests
  BY DEF BlocklistInit, Alone, Carries, Rests, Savers, Saving
<1>3. WholeUnlessOverlapped
  BY DEF BlocklistInit, WholeUnlessOverlapped
<1> QED BY <1>1, <1>2, <1>3 DEF BInv

-----------------------------------------------------------------------------
(***************************************************************************)
(* Steps of others than savers: the files and what savers hold stay, and   *)
(* either another snapshot is to come, or the list stays too.              *)
(***************************************************************************)
LEMMA BesideSavers ==
  ASSUME BInv, BlocklistTypeOK',
         UNCHANGED <<path, tmp, snap, held, alone, settled, overlapped>>,
         \A a \in Actors : at'[a] = at[a] \/ (at[a] \notin Saving /\ at'[a] \notin Saving),
         Pending' \/ (~Pending /\ UNCHANGED <<entries, window>>
                       /\ (dirty \/ touched => dirty' \/ touched'))
  PROVE  BInv'
<1> USE DEF BInv
<1>1. Savers' = Savers /\ \A a \in Savers : at'[a] = at[a]
  BY DEF Savers
<1>2. \A a \in Actors : at[a] \in Saving => at'[a] = at[a]
  OBVIOUS
<1>3. \A a \in Actors : (at'[a] = "write") <=> (at[a] = "write")
  BY DEF Saving
<1>4. Alone'
  <2>1. (\A a \in Actors : held[a] # "gone" => at[a] = "write")'
    BY <1>3 DEF Alone
  <2>2. (\A a \in alone : Savers = {a})'
    BY <1>1 DEF Alone
  <2>3. (~overlapped => Savers \subseteq alone)'
    BY <1>1 DEF Alone
  <2>4. (\A a \in alone : at[a] = "write" => held[a] = "tmp" /\ tmp = Empty)'
    BY <1>3 DEF Alone, BlocklistTypeOK
  <2> QED BY <2>1, <2>2, <2>3, <2>4 DEF Alone
<1>5. \A a \in alone : Content(a)' = Content(a) /\ at'[a] = at[a]
  <2>1. \A a \in alone : a \in Savers /\ at'[a] = at[a]
    BY <1>1 DEF Alone
  <2> QED BY <2>1 DEF Content
<1>6. Carries'
  <2>1. CASE Pending'
    BY <2>1, <1>5 DEF Carries
  <2>2. CASE ~Pending'
    BY <2>2, <1>5 DEF Carries, Agrees, SameHits
  <2> QED BY <2>1, <2>2
<1>7. Rests'
  <2>1. CASE Pending'
    BY <2>1, <1>1 DEF Rests
  <2>2. CASE ~Pending'
    BY <2>2, <1>1 DEF Rests, Agrees, SameHits
  <2> QED BY <2>1, <2>2
<1>8. WholeUnlessOverlapped'
  BY DEF WholeUnlessOverlapped
<1> QED BY <1>4, <1>6, <1>7, <1>8

LEMMA ChangeBInv ==
  ASSUME BInv, NEW r \in Requests, NEW list \in Listings, Change(r, list)
  PROVE  BInv'
<1>1. /\ at[r] = "idle" /\ changes < MaxChanges /\ entries' = list
      /\ changes' = changes + 1 /\ at' = [at EXCEPT ![r] = "changed"]
      /\ UNCHANGED <<path, tmp, snap, held, alone, settled, overlapped, faults>>
      /\ r \in Actors
  BY DEF Change, files, history, Actors
<1>2. BlocklistTypeOK'
  <2>1. changes' \in 0..MaxChanges
    BY <1>1, BlocklistAssumption DEF BInv, BlocklistTypeOK
  <2>2. at' \in [Actors -> States]
    BY <1>1 DEF BInv, BlocklistTypeOK, States
  <2> QED BY <2>1, <2>2, <1>1 DEF BInv, BlocklistTypeOK
<1>3. at'[r] = "changed" /\ \A a \in Actors : a # r => at'[a] = at[a]
  BY <1>1 DEF BInv, BlocklistTypeOK
<1>4. Pending'
  BY <1>1, <1>3 DEF Pending
<1> QED BY <1>1, <1>2, <1>3, <1>4, BesideSavers DEF Saving

\* What Add and Remove make of the list is a listing.
LEMMA AddBInv ==
  ASSUME BInv, NEW r \in Requests, NEW k \in Keys, NEW reason \in Reasons, Add(r, k, reason)
  PROVE  BInv'
<1> DEFINE hits == IF k \in DOMAIN entries THEN entries[k].hits ELSE 0
           list == [j \in DOMAIN entries \cup {k} |->
                      IF j = k THEN [reason |-> reason, hits |-> hits] ELSE entries[j]]
<1>1. DOMAIN entries \subseteq Keys /\ \A j \in DOMAIN entries : entries[j] \in Entry
  BY DEF BInv, BlocklistTypeOK, Listings
<1>2. hits \in 0..MaxHits
  BY <1>1, BlocklistAssumption DEF Entry
<1> HIDE DEF hits
<1>3. [reason |-> reason, hits |-> hits] \in Entry
  BY <1>2 DEF Entry
<1>4. list \in [DOMAIN entries \cup {k} -> Entry]
  BY <1>1, <1>3
<1>5. list \in Listings
  BY <1>1, <1>4 DEF Listings
<1>6. Change(r, list)
  BY DEF Add, hits
<1> QED BY <1>5, <1>6, ChangeBInv

LEMMA RemoveBInv ==
  ASSUME BInv, NEW r \in Requests, NEW k \in Keys, Remove(r, k)
  PROVE  BInv'
<1> DEFINE list == Restrict(entries, DOMAIN entries \ {k})
<1>1. DOMAIN entries \subseteq Keys /\ \A j \in DOMAIN entries : entries[j] \in Entry
  BY DEF BInv, BlocklistTypeOK, Listings
<1>2. list \in [DOMAIN entries \ {k} -> Entry]
  BY <1>1 DEF Restrict
<1>3. list \in Listings
  BY <1>1, <1>2 DEF Listings
<1>4. Change(r, list)
  BY DEF Remove
<1> QED BY <1>3, <1>4, ChangeBInv

LEMMA MarkDirtyBInv ==
  ASSUME BInv, NEW r \in Requests, MarkDirty(r)
  PROVE  BInv'
<1>1. /\ at[r] = "changed" /\ at' = [at EXCEPT ![r] = "save"] /\ r \in Actors
      /\ UNCHANGED <<entries, path, tmp, snap, held, alone, settled, overlapped>>
      /\ UNCHANGED bounds
  BY DEF MarkDirty, files, history, Actors
<1>2. BlocklistTypeOK'
  BY <1>1 DEF BInv, BlocklistTypeOK, States, bounds
<1>3. at'[r] = "save" /\ \A a \in Actors : a # r => at'[a] = at[a]
  BY <1>1 DEF BInv, BlocklistTypeOK
<1>4. Pending'
  BY <1>1, <1>3 DEF Pending
<1> QED BY <1>1, <1>2, <1>3, <1>4, BesideSavers DEF Saving

\* A hit on entry k: the listing differs in that count, which is in the window
\* of the save that is running, or announced by touched.
LEMMA BlockedBInv ==
  ASSUME BInv, NEW h \in Addresses, Blocked(h)
  PROVE  BInv'
<1> USE DEF BInv
<1>1. /\ touched' = TRUE
      /\ UNCHANGED <<dirty, path, tmp, at, snap, held, alone, settled, overlapped>>
      /\ UNCHANGED bounds
  BY DEF Blocked, files, savers
<1>2. PICK k \in Matches(h) :
        /\ entries[k].hits < MaxHits
        /\ entries' = [entries EXCEPT ![k].hits = @ + 1]
        /\ window' = IF Savers = {} THEN window ELSE window \cup {k}
  BY DEF Blocked
<1>3. k \in DOMAIN entries
  BY DEF Matches
<1>4. DOMAIN entries \subseteq Keys /\ \A j \in DOMAIN entries : entries[j] \in Entry
  BY DEF BlocklistTypeOK, Listings
<1>5. /\ DOMAIN entries' = DOMAIN entries
      /\ entries'[k] = [entries[k] EXCEPT !.hits = @ + 1]
      /\ \A j \in DOMAIN entries : j # k => entries'[j] = entries[j]
  BY <1>2, <1>3
<1>6. entries'[k] \in Entry /\ entries'[k].reason = entries[k].reason
  <2>1. entries[k] \in Entry /\ entries[k].hits \in 0..MaxHits
    BY <1>3, <1>4 DEF Entry
  <2>2. entries[k].hits + 1 \in 0..MaxHits
    BY <2>1, <1>2, BlocklistAssumption
  <2> QED BY <2>1, <2>2, <1>5 DEF Entry
<1>7. entries' \in Listings
  <2>1. entries' = [j \in DOMAIN entries |-> entries'[j]]
    BY <1>2
  <2>2. \A j \in DOMAIN entries : entries'[j] \in Entry
    BY <1>4, <1>5, <1>6
  <2>3. entries' \in [DOMAIN entries -> Entry]
    BY <2>1, <2>2
  <2> QED BY <2>3, <1>4 DEF Listings
<1>8. BlocklistTypeOK'
  BY <1>1, <1>7 DEF BlocklistTypeOK, bounds
<1>9. Savers' = Savers /\ Pending' = Pending /\ \A a \in Actors : Content(a)' = Content(a)
  BY <1>1 DEF Savers, Pending, Content
<1>10. Alone' /\ WholeUnlessOverlapped'
  BY <1>1, <1>9 DEF Alone, WholeUnlessOverlapped
<1>11. ASSUME NEW l, Agrees(l) PROVE Agrees(l)'
  BY <1>5, <1>6, <1>11 DEF Agrees
<1>12. Carries'
  <2> SUFFICES ASSUME NEW a \in alone', ~Pending', at[a] # "remove"
               PROVE  Content(a)' \in Listings /\ Agrees(Content(a))' /\ SameHits(Content(a))'
    BY <1>1, <1>9 DEF Carries, BlocklistTypeOK
  <2>1. a \in alone /\ a \in Actors /\ Content(a)' = Content(a)
    BY <1>1, <1>9 DEF BlocklistTypeOK
  <2>2. Content(a) \in Listings /\ Agrees(Content(a)) /\ SameHits(Content(a))
    BY <2>1, <1>9 DEF Carries
  <2>3. window' = window \cup {k}
    BY <2>1, <1>2 DEF Alone
  <2>4. SameHits(Content(a))'
    BY <2>1, <2>2, <2>3, <1>5 DEF SameHits
  <2>5. Agrees(Content(a))'
    BY <2>1, <2>2, <1>11, <1>5, <1>6 DEF Agrees
  <2> QED BY <2>1, <2>2, <2>4, <2>5
<1>13. Rests'
  <2>1. Agrees(path) => Agrees(path)'
    BY <1>1, <1>5, <1>6 DEF Agrees
  <2> QED BY <2>1, <1>1, <1>9 DEF Rests
<1> QED BY <1>8, <1>10, <1>12, <1>13

LEMMA HitMarkedBInv == ASSUME BInv, HitMarked PROVE BInv'
<1>1. /\ UNCHANGED <<entries, path, tmp, at, snap, held, alone, settled, overlapped, window>>
      /\ dirty' = TRUE /\ UNCHANGED bounds
  BY DEF HitMarked, files, savers, history
<1>2. BlocklistTypeOK'
  BY <1>1 DEF BInv, BlocklistTypeOK, bounds
<1>3. Pending' = Pending
  BY <1>1 DEF Pending
<1> QED BY <1>1, <1>2, <1>3, BesideSavers

\* Close, and what the flusher leaves for it to save.
LEMMA CloseBInv == ASSUME BInv, CloseList \/ FlusherEnds PROVE BInv'
<1>1. /\ UNCHANGED <<entries, path, tmp, dirty, touched, snap, held>>
      /\ UNCHANGED <<alone, settled, overlapped, window, bounds>>
  BY DEF CloseList, FlusherEnds, files, history
<1>2. Main \in Actors /\ Flusher \in Actors /\ Main # Flusher
  BY DEF Actors, Main, Flusher
<1>3. /\ at' \in [Actors -> States]
      /\ \A a \in Actors : at'[a] = at[a]
           \/ (at[a] \in {"idle", "closing"} /\ at'[a] \in {"closing", "gone", "down", "save"})
  <2>1. at \in [Actors -> States]
    BY DEF BInv, BlocklistTypeOK
  <2>2. CASE CloseList
    BY <2>1, <2>2, <1>2 DEF CloseList, States
  <2>3. CASE FlusherEnds
    <3>1. at[Main] = "closing" /\ at[Flusher] = "idle"
      BY <2>3 DEF FlusherEnds
    <3>2. PICK s \in {"save", "down"} :
            at' = [at EXCEPT ![Flusher] = "gone", ![Main] = s]
      BY <2>3 DEF FlusherEnds
    <3>3. at' \in [Actors -> States]
      BY <2>1, <3>2 DEF States
    <3>4. at'[Main] = s /\ at'[Flusher] = "gone"
      BY <2>1, <3>2, <1>2
    <3>5. \A a \in Actors : a # Main /\ a # Flusher => at'[a] = at[a]
      BY <2>1, <3>2
    <3> QED BY <3>1, <3>3, <3>4, <3>5
  <2> QED BY <2>2, <2>3
<1>4. BlocklistTypeOK'
  BY <1>1, <1>3 DEF BInv, BlocklistTypeOK, bounds
<1>5. Pending => Pending'
  BY <1>3 DEF Pending
<1> QED BY <1>1, <1>3, <1>4, <1>5, BesideSavers DEF Saving

-----------------------------------------------------------------------------
(***************************************************************************)
(* The steps of save, by actor a.                                          *)
(***************************************************************************)
LEMMA BeginBInv ==
  ASSUME BInv, NEW a \in Actors, at[a] \notin Saving, BeginSave(a, entries)
  PROVE  BInv'
<1> USE DEF BInv
<1>1. /\ snap' = [snap EXCEPT ![a] = entries] /\ at' = [at EXCEPT ![a] = "open"]
      /\ alone' = IF Savers = {} THEN {a} ELSE {}
      /\ overlapped' = (overlapped \/ Savers # {})
      /\ UNCHANGED <<entries, path, tmp, held, settled, bounds>>
  BY DEF BeginSave, files
<1>2. BlocklistTypeOK'
  BY <1>1 DEF BlocklistTypeOK, States, bounds
<1>3. /\ at'[a] = "open" /\ snap'[a] = entries
      /\ \A b \in Actors : b # a => at'[b] = at[b]
  BY <1>1 DEF BlocklistTypeOK
<1>4. Savers' = Savers \cup {a}
  BY <1>3 DEF Savers, Saving
<1>5. Alone'
  <2>1. (\A b \in Actors : held[b] # "gone" => at[b] = "write")'
    BY <1>1, <1>3 DEF Alone, Saving
  <2>2. (\A b \in alone : Savers = {b})' /\ (~overlapped => Savers \subseteq alone)'
    BY <1>1, <1>4
  <2>3. (\A b \in alone : at[b] = "write" => held[b] = "tmp" /\ tmp = Empty)'
    BY <1>1, <1>3
  <2> QED BY <2>1, <2>2, <2>3 DEF Alone
<1>6. Carries'
  <2> SUFFICES ASSUME NEW b \in alone'
               PROVE  Content(b)' \in Listings /\ Agrees(Content(b))' /\ SameHits(Content(b))'
    BY DEF Carries
  <2>1. b = a /\ Content(b)' = entries
    BY <1>1, <1>3 DEF Content
  <2>2. entries' = entries /\ entries \in Listings
    BY <1>1 DEF BlocklistTypeOK
  <2> QED BY <2>1, <2>2 DEF Agrees, SameHits
<1>7. Rests' /\ WholeUnlessOverlapped'
  BY <1>1, <1>4 DEF Rests, WholeUnlessOverlapped
<1> QED BY <1>2, <1>5, <1>6, <1>7

(***************************************************************************)
(* Between its steps the saver stays one; when it has run alone it is the  *)
(* only one, and what it carries stays the same.                           *)
(***************************************************************************)
LEMMA SaverGoesOn ==
  ASSUME BInv, NEW a \in Actors, at[a] \in Saving, NEW to \in Saving,
         at' = [at EXCEPT ![a] = to], BlocklistTypeOK',
         UNCHANGED <<entries, alone, overlapped, window, settled>>,
         \A b \in Actors : held'[b] # "gone" => at'[b] = "write",
         a \in alone /\ to = "write" => held'[a] = "tmp" /\ tmp' = Empty,
         to = "remove" \/ (at[a] # "remove" /\ (a \in alone => Content(a)' = Content(a))),
         WholeUnlessOverlapped'
  PROVE  BInv'
<1> USE DEF BInv
<1>1. at'[a] = to /\ \A b \in Actors : b # a => at'[b] = at[b]
  BY DEF BlocklistTypeOK
<1>2. Savers' = Savers /\ a \in Savers
  BY <1>1 DEF Savers
<1>3. \A b \in alone : b = a
  BY <1>2 DEF Alone
<1>4. Alone'
  <2>1. (\A b \in alone : Savers = {b})' /\ (~overlapped => Savers \subseteq alone)'
    BY <1>2 DEF Alone
  <2>2. (\A b \in alone : at[b] = "write" => held[b] = "tmp" /\ tmp = Empty)'
    BY <1>1, <1>3
  <2> QED BY <2>1, <2>2 DEF Alone
<1>5. Pending' = Pending
  BY <1>1 DEF Pending, Saving
<1>6. Carries'
  BY <1>1, <1>3, <1>5 DEF Carries, Agrees, SameHits
<1>7. Rests'
  BY <1>2 DEF Rests
<1> QED BY <1>4, <1>6, <1>7

LEMMA OpenBInv == ASSUME BInv, NEW a \in Actors, Open(a) PROVE BInv'
<1>1. /\ at[a] = "open" /\ tmp' = Empty /\ held' = [held EXCEPT ![a] = "tmp"]
      /\ at' = [at EXCEPT ![a] = "write"]
      /\ UNCHANGED <<entries, path, snap, alone, overlapped, window, settled, bounds>>
  BY DEF Open, history
<1>2. BlocklistTypeOK'
  BY <1>1 DEF BInv, BlocklistTypeOK, States, bounds
<1>3. at'[a] = "write" /\ held'[a] = "tmp"
      /\ \A b \in Actors : b # a => at'[b] = at[b] /\ held'[b] = held[b]
  BY <1>1 DEF BInv, BlocklistTypeOK
<1>4. \A b \in Actors : held'[b] # "gone" => at'[b] = "write"
  BY <1>3 DEF BInv, Alone
<1>5. Content(a)' = Content(a)
  BY <1>1, <1>3 DEF Content
<1>6. WholeUnlessOverlapped'
  BY <1>1 DEF BInv, WholeUnlessOverlapped
<1> QED BY <1>1, <1>2, <1>3, <1>4, <1>5, <1>6, SaverGoesOn DEF Saving

LEMMA WriteBInv == ASSUME BInv, NEW a \in Actors, Write(a) PROVE BInv'
<1>1. /\ at[a] = "write" /\ snap' = [snap EXCEPT ![a] = <<>>]
      /\ held' = [held EXCEPT ![a] = "gone"] /\ at' = [at EXCEPT ![a] = "rename"]
      /\ UNCHANGED <<entries, alone, overlapped, window, settled, bounds>>
  BY DEF Write, history
<1>2. BlocklistTypeOK'
  BY <1>1, NoEntries DEF BInv, BlocklistTypeOK, States, bounds
<1>3. at'[a] = "rename" /\ held'[a] = "gone"
      /\ \A b \in Actors : b # a => at'[b] = at[b] /\ held'[b] = held[b]
  BY <1>1 DEF BInv, BlocklistTypeOK
<1>4. \A b \in Actors : held'[b] # "gone" => at'[b] = "write"
  BY <1>3 DEF BInv, Alone
<1>5. a \in alone => tmp' = snap[a] /\ path' = path
  BY <1>1 DEF BInv, Alone, Write, Over
<1>6. a \in alone => Content(a)' = Content(a)
  BY <1>1, <1>3, <1>5 DEF Content
<1>7. ~overlapped => a \in alone
  BY <1>1 DEF BInv, Alone, Savers, Saving
<1>8. WholeUnlessOverlapped'
  BY <1>1, <1>5, <1>7 DEF BInv, WholeUnlessOverlapped
<1> QED BY <1>1, <1>2, <1>4, <1>6, <1>8, SaverGoesOn DEF Saving

LEMMA RenameBInv == ASSUME BInv, NEW a \in Actors, Rename(a) PROVE BInv'
<1>1. /\ at[a] = "rename" /\ path' = tmp /\ held' = Moved("path")
      /\ at' = [at EXCEPT ![a] = "clear"]
      /\ UNCHANGED <<entries, snap, alone, overlapped, window, settled, bounds>>
  BY DEF Rename, history
<1>2. at'[a] = "clear" /\ \A b \in Actors : b # a => at'[b] = at[b]
  BY <1>1 DEF BInv, BlocklistTypeOK
<1>3. \A b \in Actors : /\ held'[b] \in {"tmp", "path", "gone"}
                        /\ held'[b] # "gone" => held[b] # "gone"
  BY <1>1 DEF Moved, BInv, BlocklistTypeOK
<1>4. held' \in [Actors -> {"tmp", "path", "gone"}]
  <2>1. held' = [b \in Actors |-> held'[b]]
    BY <1>1 DEF Moved
  <2> QED BY <2>1, <1>3
<1>5. BlocklistTypeOK'
  BY <1>1, <1>4 DEF BInv, BlocklistTypeOK, States, bounds
<1>6. \A b \in Actors : held'[b] # "gone" => at'[b] = "write"
  BY <1>1, <1>2, <1>3 DEF BInv, Alone
<1>7. Content(a)' = Content(a)
  BY <1>1, <1>2 DEF Content
<1>8. ~overlapped => a \in alone
  BY <1>1 DEF BInv, Alone, Savers, Saving
<1>9. a \in alone => tmp \in Listings
  BY <1>1 DEF BInv, Carries, Content
<1>10. WholeUnlessOverlapped'
  BY <1>1, <1>8, <1>9 DEF WholeUnlessOverlapped
<1> QED BY <1>1, <1>5, <1>6, <1>7, <1>10, SaverGoesOn DEF Saving

LEMMA RenameFailsBInv == ASSUME BInv, NEW a \in Actors, RenameFails(a) PROVE BInv'
<1>1. /\ at[a] = "rename" /\ at' = [at EXCEPT ![a] = "remove"]
      /\ UNCHANGED <<entries, dirty, touched, path, tmp, snap, held>>
      /\ UNCHANGED <<alone, settled, overlapped, window, changes>>
  BY DEF RenameFails, files, history
<1>2. faults' \in 0..MaxFaults
  BY BlocklistAssumption DEF RenameFails, BInv, BlocklistTypeOK
<1>3. BlocklistTypeOK'
  BY <1>1, <1>2 DEF BInv, BlocklistTypeOK, States
<1>4. \A b \in Actors : held'[b] # "gone" => at'[b] = "write"
  BY <1>1 DEF BInv, Alone, BlocklistTypeOK
<1>5. WholeUnlessOverlapped'
  BY <1>1 DEF BInv, WholeUnlessOverlapped
<1> QED BY <1>1, <1>3, <1>4, <1>5, SaverGoesOn DEF Saving

(***************************************************************************)
(* The saver ends.  If it ran alone it was the only one, and a save that   *)
(* worked leaves in the file what it carried.                              *)
(***************************************************************************)
LEMMA SaverEnds ==
  ASSUME BInv, NEW a \in Actors, at[a] \in Saving,
         at' = [at EXCEPT ![a] = Home(a)], BlocklistTypeOK',
         UNCHANGED <<entries, path, overlapped, window>>,
         \A b \in Actors : held'[b] # "gone" => at[b] = "write" /\ b # a,
         alone' \subseteq alone \ {a},
         settled' => at[a] = "clear" /\ a \in alone
  PROVE  BInv'
<1> USE DEF BInv
<1>1. at'[a] \in {"idle", "down"} /\ \A b \in Actors : b # a => at'[b] = at[b]
  BY DEF BlocklistTypeOK, Home
<1>2. a \in Savers /\ Savers' = Savers \ {a}
  BY <1>1 DEF Savers, Saving
<1>3. \A b \in alone : b = a
  BY <1>2 DEF Alone
<1>4. alone' = {}
  BY <1>3
<1>5. Alone' /\ Carries'
  <2>1. ~overlapped => Savers' = {}
    BY <1>2, <1>3 DEF Alone
  <2> QED BY <2>1, <1>1, <1>4 DEF Alone, Carries
<1>6. Pending' = Pending
  BY <1>1 DEF Pending, Saving
<1>7. Rests'
  <2> SUFFICES ASSUME settled'
               PROVE  path \in Listings /\ (Pending \/ (Agrees(path) /\ SameHits(path)))
    BY <1>6 DEF Rests, Agrees, SameHits
  <2>1. Content(a) = path /\ a \in alone
    BY DEF Content
  <2> QED BY <2>1 DEF Carries
<1>8. WholeUnlessOverlapped'
  BY DEF WholeUnlessOverlapped
<1> QED BY <1>5, <1>7, <1>8

LEMMA EndsBInv ==
  ASSUME BInv, NEW a \in Actors, RemoveTmp(a) \/ ClearDirty(a) \/ SaveFails(a)
  PROVE  BInv'
<1> USE DEF BInv
<1>1. CASE RemoveTmp(a)
  <2>1. /\ at[a] = "remove" /\ at' = [at EXCEPT ![a] = Home(a)] /\ settled' = FALSE
        /\ alone' = {} /\ held' = Moved("gone")
        /\ UNCHANGED <<entries, path, snap, overlapped, window, bounds>>
    BY <1>1 DEF RemoveTmp
  <2>2. \A b \in Actors : /\ held'[b] \in {"tmp", "path", "gone"}
                          /\ held'[b] # "gone" => at[b] = "write" /\ b # a
    BY <2>1 DEF Moved, Alone, BlocklistTypeOK
  <2>3. held' \in [Actors -> {"tmp", "path", "gone"}]
    <3>1. held' = [b \in Actors |-> held'[b]]
      BY <2>1 DEF Moved
    <3> QED BY <3>1, <2>2
  <2>4. BlocklistTypeOK'
    BY <2>1, <2>3 DEF BlocklistTypeOK, States, Home, bounds
  <2> QED BY <2>1, <2>2, <2>4, SaverEnds DEF Saving
<1>2. CASE ClearDirty(a)
  <2>1. /\ at[a] = "clear" /\ at' = [at EXCEPT ![a] = Home(a)] /\ settled' = (a \in alone)
        /\ alone' = alone \ {a}
        /\ UNCHANGED <<entries, path, snap, held, overlapped, window, bounds>>
    BY <1>2 DEF ClearDirty, files
  <2>2. BlocklistTypeOK'
    BY <2>1 DEF BlocklistTypeOK, States, Home, bounds
  <2>3. \A b \in Actors : held'[b] # "gone" => at[b] = "write" /\ b # a
    BY <2>1 DEF Alone
  <2> QED BY <2>1, <2>2, <2>3, SaverEnds DEF Saving
<1>3. CASE SaveFails(a)
  <2>1. /\ at[a] \in {"open", "write"} /\ at' = [at EXCEPT ![a] = Home(a)]
        /\ settled' = FALSE /\ alone' = {} /\ snap' = [snap EXCEPT ![a] = <<>>]
        /\ held' = [held EXCEPT ![a] = "gone"]
        /\ faults < MaxFaults /\ faults' = faults + 1
        /\ UNCHANGED <<entries, path, overlapped, window, changes>>
    BY <1>3 DEF SaveFails, files
  <2>2. \A b \in Actors : held'[b] # "gone" => at[b] = "write" /\ b # a
    BY <2>1 DEF Alone, BlocklistTypeOK
  <2>3. held' \in [Actors -> {"tmp", "path", "gone"}]
    BY <2>1 DEF BlocklistTypeOK
  <2>4. faults' \in 0..MaxFaults
    BY <2>1, BlocklistAssumption DEF BlocklistTypeOK
  <2>5. BlocklistTypeOK'
    BY <2>1, <2>3, <2>4, NoEntries DEF BlocklistTypeOK, States, Home
  <2> QED BY <2>1, <2>2, <2>5, SaverEnds DEF Saving
<1> QED BY <1>1, <1>2, <1>3

-----------------------------------------------------------------------------
(***************************************************************************)
(* A start loads what the file lists.                                      *)
(***************************************************************************)
LEMMA RestartBInv == ASSUME BInv, Restart PROVE BInv'
<1> USE DEF BInv
<1>1. /\ entries' = Load(path) /\ UNCHANGED <<path, tmp, overlapped, changes>>
      /\ at' = [a \in Actors |-> "idle"] /\ snap' = [a \in Actors |-> <<>>]
      /\ held' = [a \in Actors |-> "gone"] /\ alone' = {} /\ settled' = (path \in Listings)
  BY DEF Restart, files
<1>2. faults' \in 0..MaxFaults
  BY BlocklistAssumption DEF Restart, BlocklistTypeOK
<1>3. BlocklistTypeOK'
  BY <1>1, <1>2, NoEntries, LoadsListing DEF BlocklistTypeOK, States
<1>4. Savers' = {}
  BY <1>1 DEF Savers, Saving
<1>5. Alone' /\ Carries' /\ WholeUnlessOverlapped'
  BY <1>1, <1>4 DEF Alone, Carries, WholeUnlessOverlapped
<1>6. Rests'
  BY <1>1 DEF Rests, Load, Agrees, SameHits
<1> QED BY <1>3, <1>5, <1>6

LEMMA NextBInv == BInv /\ [BlocklistNext]_blocklistVars => BInv'
<1> SUFFICES ASSUME BInv, [BlocklistNext]_blocklistVars PROVE BInv'
  OBVIOUS
<1>1. CASE UNCHANGED blocklistVars
  <2>1. /\ UNCHANGED <<entries, dirty, touched, path, tmp, at, snap, held>>
        /\ UNCHANGED <<alone, settled, overlapped, window, changes, faults>>
    BY <1>1 DEF blocklistVars, files, savers, history, bounds
  <2>2. BlocklistTypeOK' /\ Pending' = Pending
    BY <2>1 DEF BInv, BlocklistTypeOK, Pending
  <2> QED BY <2>1, <2>2, BesideSavers
<1>2. ASSUME NEW r \in Requests, RequestStep(r) PROVE BInv'
  BY <1>2, AddBInv, RemoveBInv, MarkDirtyBInv DEF RequestStep
<1>3. ASSUME NEW h \in Addresses, Blocked(h) PROVE BInv'
  BY <1>3, BlockedBInv
<1>4. ASSUME NEW a \in Actors, SaveStep(a) \/ SaveFails(a) PROVE BInv'
  <2>1. CASE Snapshot(a)
    BY <2>1, BeginBInv DEF Snapshot, Saving
  <2> QED
    BY <1>4, <2>1, OpenBInv, WriteBInv, RenameBInv, RenameFailsBInv, EndsBInv DEF SaveStep
<1>5. CASE Flush
  <2>1. Flusher \in Actors
    BY DEF Actors
  <2> QED BY <1>5, <2>1, BeginBInv DEF Flush, Saving
<1> QED
  BY <1>1, <1>2, <1>3, <1>4, <1>5, HitMarkedBInv, CloseBInv, RestartBInv
  DEF BlocklistNext

-----------------------------------------------------------------------------
(***************************************************************************)
(* The strengthened invariant holds in every behaviour of the list.        *)
(***************************************************************************)
THEOREM BlocklistInvariance == BlocklistSpec => []BInv
BY InitBInv, NextBInv, PTL DEF BlocklistSpec

(***************************************************************************)
(* While saves do not overlap, blocklist.json is whole at every moment     *)
(* (blocklist.go, save).                                                   *)
(***************************************************************************)
THEOREM FileStaysWhole == BlocklistSpec => []WholeUnlessOverlapped
<1>1. BInv => WholeUnlessOverlapped
  BY DEF BInv
<1> QED BY <1>1, BlocklistInvariance, PTL

LEMMA QuietRests ==
  ASSUME BInv, Quiet, settled
  PROVE  path \in Listings /\ Agrees(path) /\ (dirty \/ touched \/ SameHits(path))
<1>1. Savers = {} /\ ~Pending
  BY DEF Quiet, Savers, Saving, Pending
<1> QED BY <1>1 DEF BInv, Rests

(***************************************************************************)
(* The last save, if it ran alone and worked, left the list in the file    *)
(* (blocklist.go, Add, Remove and save).                                   *)
(***************************************************************************)
THEOREM ListStaysSaved == BlocklistSpec => []ListIsSaved
<1>1. BInv => ListIsSaved
  BY QuietRests DEF ListIsSaved, Saved, Agrees
<1> QED BY <1>1, BlocklistInvariance, PTL

(***************************************************************************)
(* Hits counted outside a save are in the file, or dirty says so           *)
(* (blocklist.go, Blocked and save).                                       *)
(***************************************************************************)
THEOREM HitsStaySavedOrDirty == BlocklistSpec => []HitsAreSavedOrDirty
<1>1. BInv => HitsAreSavedOrDirty
  BY QuietRests DEF HitsAreSavedOrDirty, SameHits
<1> QED BY <1>1, BlocklistInvariance, PTL
=============================================================================
