----------------------------- MODULE Blocklist -----------------------------
(***************************************************************************)
(* The list of blocked addresses (internal/blocklist): changed by API      *)
(* requests, consulted by every listener before a connection counts, and   *)
(* kept in blocklist.json by whoever changed it, by a flusher every 30 s   *)
(* and by Close.                                                           *)
(*                                                                         *)
(* save takes its snapshot under the lock but writes without one, and all  *)
(* savers share one temporary file.  A file is its content: a listing,     *)
(* Absent, Empty (opened with O_TRUNC, not written yet) or Torn (no JSON). *)
(* A saver writes into the file it opened, wherever that was renamed to.   *)
(***************************************************************************)
EXTENDS Integers, FiniteSets, Functions

CONSTANTS
  Addresses, Ranges,   \* normalised keys: single addresses, CIDR ranges
  Within,              \* Within[n]: the addresses in range n
  Reasons,
  Requests,            \* goroutines that serve block and unblock requests
  Absent, Empty, Torn,
  MaxHits,             \* bound: hits counted per entry
  MaxChanges,          \* bound: changes in a behaviour
  MaxFaults            \* bound: failed saves and crashes in a behaviour

ASSUME BlocklistAssumption ==
  /\ Within \in [Ranges -> SUBSET Addresses]
  /\ Addresses \cap Ranges = {}
  /\ MaxHits \in Nat /\ MaxChanges \in Nat /\ MaxFaults \in Nat

Keys    == Addresses \cup Ranges
Flusher == "flusher"
Main    == "main"
Actors  == Requests \cup {Flusher, Main}

Entry    == [reason : Reasons, hits : 0..MaxHits]
Listings == UNION {[K -> Entry] : K \in SUBSET Keys}

VARIABLES
  entries,     \* List.entries
  dirty,       \* List.dirty
  touched,     \* Blocked has counted a hit, and not set dirty yet
  path, tmp,   \* blocklist.json and blocklist.json.tmp
  at,          \* where each actor is
  snap,        \* the snapshot a saver writes
  held,        \* the file it has open: "tmp", renamed to "path", or "gone"
  alone,       \* the saver that has run alone so far, in a set (history)
  settled,     \* the last save that ended had run alone, and worked (history)
  overlapped,  \* two saves have run at the same time (history)
  window,      \* keys hit while the last save ran (history)
  changes, faults

files   == <<path, tmp>>
savers  == <<at, snap, held>>
history == <<alone, settled, overlapped, window>>
bounds  == <<changes, faults>>
blocklistVars == <<entries, dirty, touched, files, savers, history, bounds>>

\* "changed": the entry is changed.  "save": dirty is set.  The others are the
\* next step of save.  The flusher ends "gone", main "down".
Saving == {"open", "write", "rename", "remove", "clear"}
Savers == {a \in Actors : at[a] \in Saving}

\* What is no listing loads as an empty one.
Load(content) == IF content \in Listings THEN content ELSE <<>>

BlocklistInit ==
  /\ entries = <<>> /\ dirty = FALSE /\ touched = FALSE
  /\ path = Absent /\ tmp = Absent
  /\ at = [a \in Actors |-> "idle"]
  /\ snap = [a \in Actors |-> <<>>]
  /\ held = [a \in Actors |-> "gone"]
  /\ alone = {} /\ settled = FALSE /\ overlapped = FALSE /\ window = {}
  /\ changes = 0 /\ faults = 0

-----------------------------------------------------------------------------
\* Changes, by a request.

Change(r, list) ==
  /\ at[r] = "idle"
  /\ changes < MaxChanges
  /\ entries' = list
  /\ changes' = changes + 1
  /\ at' = [at EXCEPT ![r] = "changed"]
  /\ UNCHANGED <<dirty, touched, files, snap, held, history, faults>>

\* A known entry gets the reason and keeps its hits.
Add(r, k, reason) ==
  LET hits == IF k \in DOMAIN entries THEN entries[k].hits ELSE 0
  IN Change(r, [j \in DOMAIN entries \cup {k} |->
                  IF j = k THEN [reason |-> reason, hits |-> hits]
                           ELSE entries[j]])

Remove(r, k) ==
  /\ k \in DOMAIN entries
  /\ Change(r, Restrict(entries, DOMAIN entries \ {k}))

MarkDirty(r) ==
  /\ at[r] = "changed"
  /\ dirty' = TRUE
  /\ at' = [at EXCEPT ![r] = "save"]
  /\ UNCHANGED <<entries, touched, files, snap, held, history, bounds>>

-----------------------------------------------------------------------------
\* A connection or a datagram from address h, which is dropped.  The counters
\* are atomic; the dirty flag follows them outside the lock.

Matches(h) ==
  IF h \in DOMAIN entries THEN {h}
  ELSE {n \in Ranges \cap DOMAIN entries : h \in Within[n]}

Blocked(h) ==
  /\ ~touched
  /\ \E k \in Matches(h) :
       /\ entries[k].hits < MaxHits
       /\ entries' = [entries EXCEPT ![k].hits = @ + 1]
       /\ window' = IF Savers = {} THEN window ELSE window \cup {k}
  /\ touched' = TRUE
  /\ UNCHANGED <<dirty, files, savers, alone, settled, overlapped, bounds>>

HitUnmarked ==                         \* mutant: a hit leaves dirty alone
  /\ touched
  /\ touched' = FALSE
  /\ UNCHANGED <<entries, dirty, files, savers, history, bounds>>

HitMarked ==
  /\ touched
  /\ touched' = FALSE
  /\ dirty' = TRUE
  /\ UNCHANGED <<entries, files, savers, history, bounds>>

-----------------------------------------------------------------------------
\* save, by actor a.

Home(a) == IF a = Main THEN "down" ELSE "idle"

\* The files of the savers when b's is renamed or removed, to where.
Moved(to) ==
  [a \in Actors |-> CASE held[a] = "tmp" -> to
                      [] held[a] = "path" /\ to = "path" -> "gone"
                      [] OTHER -> held[a]]

\* Entries: the snapshot.
BeginSave(a, list) ==
  /\ snap' = [snap EXCEPT ![a] = list]
  /\ at' = [at EXCEPT ![a] = "open"]
  /\ alone' = IF Savers = {} THEN {a} ELSE {}
  /\ overlapped' = (overlapped \/ Savers # {})
  /\ window' = {}
  /\ UNCHANGED <<entries, dirty, touched, files, held, settled, bounds>>

SnapshotTooEarly(a) ==                 \* mutant: the snapshot precedes the change
  /\ at[a] = "save"
  /\ BeginSave(a, Load(path))

Snapshot(a) ==
  /\ at[a] = "save"
  /\ BeginSave(a, entries)

OpenInPlace(a) ==                      \* mutant: no temporary file
  /\ at[a] = "open"
  /\ path' = Empty
  /\ held' = [held EXCEPT ![a] = "path"]
  /\ at' = [at EXCEPT ![a] = "write"]
  /\ UNCHANGED <<entries, dirty, touched, tmp, snap, history, bounds>>

\* os.WriteFile creates or truncates the temporary file ...
Open(a) ==
  /\ at[a] = "open"
  /\ tmp' = Empty
  /\ held' = [held EXCEPT ![a] = "tmp"]
  /\ at' = [at EXCEPT ![a] = "write"]
  /\ UNCHANGED <<entries, dirty, touched, path, snap, history, bounds>>

\* ... and writes from its start: over what another saver wrote meanwhile, the
\* tail of which stays when it is longer.  An entry takes more room with a hit;
\* reasons have any length.
Covers(new, old) ==
  \A k \in DOMAIN old : /\ k \in DOMAIN new
                       /\ new[k].reason = old[k].reason
                       /\ new[k].hits >= old[k].hits

Over(old, new) ==
  IF old = Empty \/ (old \in Listings /\ Covers(new, old)) THEN {new} ELSE {new, Torn}

Write(a) ==
  /\ at[a] = "write"
  /\ \/ held[a] = "tmp" /\ tmp' \in Over(tmp, snap[a]) /\ UNCHANGED path
     \/ held[a] = "path" /\ path' \in Over(path, snap[a]) /\ UNCHANGED tmp
     \/ held[a] = "gone" /\ UNCHANGED files
  /\ snap' = [snap EXCEPT ![a] = <<>>]
  /\ held' = [held EXCEPT ![a] = "gone"]
  /\ at' = [at EXCEPT ![a] = "rename"]
  /\ UNCHANGED <<entries, dirty, touched, history, bounds>>

Rename(a) ==
  /\ at[a] = "rename"
  /\ tmp # Absent
  /\ path' = tmp
  /\ tmp' = Absent
  /\ held' = Moved("path")
  /\ at' = [at EXCEPT ![a] = "clear"]
  /\ UNCHANGED <<entries, dirty, touched, snap, history, bounds>>

\* Another saver has renamed or removed the file, or the disk refuses ...
RenameFails(a) ==
  /\ at[a] = "rename"
  /\ \/ tmp = Absent /\ UNCHANGED faults
     \/ faults < MaxFaults /\ faults' = faults + 1
  /\ at' = [at EXCEPT ![a] = "remove"]
  /\ UNCHANGED <<entries, dirty, touched, files, snap, held, history, changes>>

\* ... and what has its name by now is removed, whoever wrote it.
RemoveTmp(a) ==
  /\ at[a] = "remove"
  /\ tmp' = Absent
  /\ held' = Moved("gone")
  /\ at' = [at EXCEPT ![a] = Home(a)]
  /\ settled' = FALSE
  /\ alone' = {}
  /\ UNCHANGED <<entries, dirty, touched, path, snap, overlapped, window, bounds>>

ClearDirty(a) ==
  /\ at[a] = "clear"
  /\ dirty' = FALSE
  /\ at' = [at EXCEPT ![a] = Home(a)]
  /\ settled' = (a \in alone)
  /\ alone' = alone \ {a}
  /\ UNCHANGED <<entries, touched, files, snap, held, overlapped, window, bounds>>

\* The disk refuses the directory, or the write, which leaves what it left.
SaveFails(a) ==
  /\ at[a] \in {"open", "write"}
  /\ faults < MaxFaults
  /\ faults' = faults + 1
  /\ held' = [held EXCEPT ![a] = "gone"]
  /\ snap' = [snap EXCEPT ![a] = <<>>]
  /\ at' = [at EXCEPT ![a] = Home(a)]
  /\ settled' = FALSE
  /\ alone' = {}
  /\ UNCHANGED <<entries, dirty, touched, files, overlapped, window, changes>>

SaveStep(a) ==
  \/ Snapshot(a) \/ Open(a) \/ Write(a) \/ Rename(a)
  \/ RenameFails(a) \/ RemoveTmp(a) \/ ClearDirty(a)

-----------------------------------------------------------------------------
\* The flusher's tick, Close, and the next run.

FlushOnce ==                           \* mutant: a failed flush is the last one
  /\ at[Flusher] = "idle"
  /\ dirty /\ entries # <<>> /\ faults = 0
  /\ BeginSave(Flusher, entries)

Flush ==
  /\ at[Flusher] = "idle"
  /\ dirty /\ entries # <<>>
  /\ BeginSave(Flusher, entries)

CloseList ==
  /\ at[Main] = "idle"
  /\ at' = [at EXCEPT ![Main] = "closing"]
  /\ UNCHANGED <<entries, dirty, touched, files, snap, held, history, bounds>>

FlusherEnds ==
  /\ at[Main] = "closing" /\ at[Flusher] = "idle"
  /\ at' = [at EXCEPT ![Flusher] = "gone",
                      ![Main] = IF dirty THEN "save" ELSE "down"]
  /\ UNCHANGED <<entries, dirty, touched, files, snap, held, history, bounds>>

\* The process ends, after Close or by a crash at any moment, and runs again.
Restart ==
  /\ \/ at[Main] = "down" /\ UNCHANGED faults
     \/ faults < MaxFaults /\ faults' = faults + 1
  /\ entries' = Load(path)
  /\ dirty' = FALSE /\ touched' = FALSE
  /\ at' = [a \in Actors |-> "idle"]
  /\ snap' = [a \in Actors |-> <<>>]
  /\ held' = [a \in Actors |-> "gone"]
  /\ alone' = {} /\ window' = {}
  /\ settled' = (path \in Listings)
  /\ UNCHANGED <<files, overlapped, changes>>

RequestStep(r) ==
  \/ \E k \in Keys : (\E reason \in Reasons : Add(r, k, reason)) \/ Remove(r, k)
  \/ MarkDirty(r)

BlocklistNext ==
  \/ \E r \in Requests : RequestStep(r)
  \/ \E h \in Addresses : Blocked(h)
  \/ HitMarked
  \/ \E a \in Actors : SaveStep(a) \/ SaveFails(a)
  \/ Flush \/ CloseList \/ FlusherEnds \/ Restart

\* Goroutines run on, and the flusher's ticker ticks.  Nothing obliges anyone
\* to change the list, to connect or to stop the daemon.
BlocklistFairness ==
  /\ \A r \in Requests : WF_blocklistVars(MarkDirty(r))
  /\ \A a \in Actors : WF_blocklistVars(SaveStep(a))
  /\ WF_blocklistVars(HitMarked)
  /\ WF_blocklistVars(Flush)

BlocklistSpec ==
  BlocklistInit /\ [][BlocklistNext]_blocklistVars /\ BlocklistFairness

-----------------------------------------------------------------------------
Quiet == \A a \in Actors : at[a] \in {"idle", "gone", "down"}

Saved(k) == k \in DOMAIN path /\ path[k].reason = entries[k].reason

\* Once the last save ran alone and worked, and nobody is in the middle of a
\* change, blocklist.json lists what List lists: no Add or Remove that came in
\* while it ran is forgotten (every change saves after itself).
ListIsSaved ==
  Quiet /\ settled =>
    /\ path \in Listings
    /\ DOMAIN path = DOMAIN entries
    /\ \A k \in DOMAIN entries : Saved(k)

\* Of the hits, only those counted while a save ran can be missing from the
\* file with the dirty flag down (save clears it over them); all others are in
\* the file or will bring the next save.
HitsAreSavedOrDirty ==
  Quiet /\ settled /\ ~dirty /\ ~touched =>
    \A k \in DOMAIN entries \ window : path[k].hits = entries[k].hits

\* As long as no two saves overlap, blocklist.json is whole at every moment:
\* a crash or a failing disk in the middle of a save costs at most that save.
WholeUnlessOverlapped ==
  ~overlapped => path \in Listings \cup {Absent}

\* A change or a hit that could not be saved is saved later: the flusher goes
\* on, for as long as there is an entry to save and the daemon is up.
DirtyIsFlushed ==
  (dirty /\ entries # <<>>) ~>
    (~dirty \/ entries = <<>> \/ at[Main] # "idle")

=============================================================================
