------------------------------ MODULE EventLog ------------------------------
(***************************************************************************)
(* The event store of the Go daemon (internal/eventlog): the bounded ring  *)
(* the dashboard reads, the NDJSON file behind it, its rotation, the       *)
(* flusher goroutine, shutdown, a crash and the replay at the next boot.   *)
(*                                                                         *)
(* Store.Log holds Store.mu from the id assignment to the rotation, so one *)
(* call is one action; a kill, which waits for no mutex, can end it after  *)
(* any of its system calls.  Bytes are abstracted to lines: a line is the  *)
(* unit of the size cap.  What the sizes decide (whether bufio's 4 KB      *)
(* buffer overflows in the middle of a line) is a choice, but for the line *)
(* that is too long for the Scanner of the next boot.                      *)
(***************************************************************************)
EXTENDS Integers, SequencesExt

CONSTANTS
  Body,         \* what an event says besides its id
  Long,         \* events whose line is over the 4 MB that replay can scan
  MaxRows,      \* Options.MaxRows: events held in memory
  MaxFile,      \* Options.MaxLogFileMB, in lines; 0 never rotates
  ReplayLines,  \* MaxRows * 4096 bytes in loadFromDisk, in lines
  MaxId,        \* bound of the model: ids one process may assign
  MaxRuns,      \* bound of the model: starts of the process
  MaxFaults     \* bound of the model: failing system calls

ASSUME EventLogAssumption ==
  /\ MaxRows \in Nat \ {0}
  /\ ReplayLines \in Nat \ {0}
  /\ MaxFile \in Nat
  /\ MaxId \in Nat
  /\ MaxRuns \in Nat \ {0}
  /\ MaxFaults \in Nat

VARIABLES
  proc,       \* "up", "closing" (Store.Close was called) or "down"
  run,        \* which start of the process this is (not in the code)
  ring,       \* Store.events
  nextID,     \* Store.nextID
  buf,        \* events whose line is not completely in the file
  cut,        \* how much of Head(buf) the file holds
  file,       \* events.ndjson, without the fragment that cut describes
  prev,       \* events.ndjson.1; empty when there is none
  fileBytes,  \* Store.fileBytes
  writer,     \* state of Store.file and Store.writer
  faults,     \* failing system calls so far (not in the code)
  halted,     \* rotations that a kill cut short (not in the code)
  gaveUp      \* whether a boot could not replay the file (not in the code)

vars == <<proc, run, ring, nextID, buf, cut, file, prev, fileBytes, writer,
          faults, halted, gaveUp>>

(***************************************************************************)
(* An event carries its run so that properties can tell two events with    *)
(* the same id apart; nothing the code does depends on it.                 *)
(***************************************************************************)
Event == [id : Nat \ {0}, run : 1..MaxRuns, body : Body]

TooLong(e) == e \in Long

(***************************************************************************)
(* "whole": a JSON object and its newline.  "bare": the object, but not    *)
(* its newline: it still parses at the end of the file.  "part": less than *)
(* the object.  "junk": bytes that do not parse, newline-terminated.       *)
(* Any of them may be too long for replay.                                 *)
(***************************************************************************)
Line == [kind : {"whole", "bare", "part", "junk"}, long : BOOLEAN, ev : Event]

Cuts == {"none", "part", "bare"}

(***************************************************************************)
(* "open": usable.  "closed": the handle is closed, the log path exists.   *)
(* "gone": the handle is closed and the log path was renamed away.         *)
(* "stuck": a write failed and bufio returns that error from now on.       *)
(* "drained": the flusher has flushed, synced and closed.                  *)
(***************************************************************************)
WriterStates == {"open", "closed", "gone", "stuck", "drained"}

-----------------------------------------------------------------------------
\* Lines and files.

EndsMidLine(f) == f # <<>> /\ Last(f).kind \in {"bare", "part"}

\* What is written next continues a line that is too long already.
InLongLine(f) == EndsMidLine(f) /\ Last(f).long

\* The part of f in front of an unterminated last line.
Terminated(f) == IF EndsMidLine(f) THEN Front(f) ELSE f

\* f after the complete lines of the events es were appended to it.  The
\* first of them continues an unterminated line, if f ends in one.
Extend(f, es) ==
  IF es = <<>> THEN f
  ELSE Terminated(f) \o
       [i \in 1..Len(es) |->
          [kind |-> IF i = 1 /\ EndsMidLine(f) THEN "junk" ELSE "whole",
           long |-> TooLong(es[i]) \/ (i = 1 /\ InLongLine(f)),
           ev   |-> es[i]]]

\* f after the first bytes of the line of e were appended, and no more.
Tear(f, k, e) ==
  Terminated(f) \o
    <<[kind |-> IF EndsMidLine(f) THEN "part" ELSE k,
       long |-> (k = "bare" /\ TooLong(e)) \/ InLongLine(f),
       ev   |-> e]>>

\* What a dying process leaves in the file.
LeftBehind == IF cut = "none" THEN file ELSE Tear(file, cut, Head(buf))

Parses(l) == l.kind \in {"whole", "bare"}

EventsOf(f) == {f[i].ev : i \in {j \in DOMAIN f : Parses(f[j])}}

-----------------------------------------------------------------------------
\* NewWithOptions over an empty data directory.
Init ==
  /\ proc = "up"
  /\ run = 1
  /\ ring = <<>>
  /\ nextID = 0
  /\ buf = <<>>
  /\ cut = "none"
  /\ file = <<>>
  /\ prev = <<>>
  /\ fileBytes = 0
  /\ writer = "open"
  /\ faults = 0
  /\ halted = 0
  /\ gaveUp = FALSE

(***************************************************************************)
(* rotateLocked, on a file that holds f once the buffer is flushed.  The   *)
(* result of Remove is ignored, a failing Rename is only logged, and a     *)
(* failing OpenFile returns with a closed handle and fileBytes as it was.  *)
(***************************************************************************)
RemovedOnly(f) ==                      \* mutant: the file is not kept
  /\ writer # "gone"
  /\ prev' = <<>>
  /\ file' = <<>>

Renamed(f) ==
  /\ writer # "gone"
  /\ prev' = f
  /\ file' = <<>>

NothingToRename ==
  /\ writer = "gone"
  /\ prev' = <<>>
  /\ file' = <<>>

RenameFails(f) ==                      \* but Remove did not
  /\ writer # "gone"
  /\ prev' = <<>>
  /\ file' = f

Reopened == writer' = "open" /\ fileBytes' = 0

ReopenFails(state, size) == writer' = state /\ fileBytes' = size

Failing(n) ==
  /\ faults + n <= MaxFaults
  /\ faults' = faults + n

Rotate(f, size) ==
  /\ \/ /\ Renamed(f) \/ NothingToRename
        /\ \/ Reopened /\ Failing(0)
           \/ ReopenFails("gone", size) /\ Failing(1)
     \/ /\ RenameFails(f)
        /\ \/ Reopened /\ Failing(1)
           \/ ReopenFails("closed", size) /\ Failing(2)
  /\ buf' = <<>>
  /\ cut' = "none"

\* The buffered write: the line stays in the buffer, or overflows it and
\* leaves everything but the end of this line in the file; of a long line
\* only the newline fits the buffer.
Overflows(e) == IF TooLong(e) THEN {"bare"} ELSE {"part", "bare"}

BufferLine(e) ==
  /\ \/ /\ ~TooLong(e)
        /\ buf' = Append(buf, e)
        /\ UNCHANGED <<file, cut>>
     \/ /\ file' = Extend(file, buf)
        /\ buf' = <<e>>
        /\ cut' \in Overflows(e)
  /\ fileBytes' = fileBytes + 1
  /\ UNCHANGED <<prev, writer, faults>>

OverCap(size) == MaxFile > 0 /\ size > MaxFile

\* What the rotation after the write of e moves aside: it flushes first.
Flushed(e) == Extend(file, Append(buf, e))

\* Log's write to disk, by the state of the writer.
WriteLine(e) ==
  \/ /\ writer = "open"
     /\ ~OverCap(fileBytes + 1)
     /\ BufferLine(e)
  \/ /\ writer = "open"
     /\ OverCap(fileBytes + 1)
     /\ Rotate(Flushed(e), fileBytes + 1)
  \/ /\ writer \in {"closed", "gone"}   \* e is lost; still over the cap
     /\ Rotate(file, fileBytes)
  \/ /\ writer \in {"stuck", "drained"}
     /\ UNCHANGED <<buf, cut, file, prev, fileBytes, writer, faults>>

\* The ring keeps the newest MaxRows.
Push(s, e) ==
  IF Len(s) < MaxRows THEN Append(s, e) ELSE Append(Tail(s), e)

\* The event as it is stored: its id is the incremented counter.
StampedBeforeIncrement(b) ==           \* mutant
  [id |-> nextID, run |-> run, body |-> b]

Stored(b) == [id |-> nextID + 1, run |-> run, body |-> b]

\* Store.Log.
Log(b) ==
  /\ proc \in {"up", "closing"}
  /\ nextID < MaxId
  /\ nextID' = nextID + 1
  /\ ring' = Push(ring, Stored(b))
  /\ WriteLine(Stored(b))
  /\ UNCHANGED <<proc, run, halted, gaveUp>>

\* The flusher's 500 ms tick.
FlushKeepsBuffer ==                    \* mutant: the buffer is not emptied
  /\ proc \in {"up", "closing"}
  /\ writer = "open"
  /\ buf # <<>>
  /\ file' = Extend(file, buf)
  /\ cut' = "none"
  /\ UNCHANGED <<proc, run, ring, nextID, buf, prev, fileBytes, writer,
                 faults, halted, gaveUp>>

Flush ==
  /\ proc \in {"up", "closing"}
  /\ writer = "open"
  /\ buf # <<>>
  /\ file' = Extend(file, buf)
  /\ buf' = <<>>
  /\ cut' = "none"
  /\ UNCHANGED <<proc, run, ring, nextID, prev, fileBytes, writer, faults,
                 halted, gaveUp>>

\* The same tick on a full disk: bufio keeps the error, and what is in the
\* buffer is never written.
FlushFails ==
  /\ proc \in {"up", "closing"}
  /\ writer = "open"
  /\ buf # <<>>
  /\ faults < MaxFaults
  /\ file' = LeftBehind
  /\ buf' = <<>>
  /\ cut' = "none"
  /\ writer' = "stuck"
  /\ faults' = faults + 1
  /\ UNCHANGED <<proc, run, ring, nextID, prev, fileBytes, halted, gaveUp>>

\* Store.Close, the last of main's deferred calls: it only closes closeCh.
Close ==
  /\ proc = "up"
  /\ proc' = "closing"
  /\ UNCHANGED <<run, ring, nextID, buf, cut, file, prev, fileBytes, writer,
                 faults, halted, gaveUp>>

\* The flusher receives from closeCh: Flush, Sync, Close.
Drain ==
  /\ proc = "closing"
  /\ writer = "open"
  /\ file' = Extend(file, buf)
  /\ buf' = <<>>
  /\ cut' = "none"
  /\ writer' = "drained"
  /\ UNCHANGED <<proc, run, ring, nextID, prev, fileBytes, faults, halted,
                 gaveUp>>

\* The process ends: ring and nextID keep their last values until Start
\* overwrites them, so that properties can compare the two.
Die ==
  /\ proc' = "down"
  /\ file' = LeftBehind
  /\ buf' = <<>>
  /\ cut' = "none"
  /\ UNCHANGED <<run, ring, nextID, prev, fileBytes, writer, faults, halted,
                 gaveUp>>

\* main returns after the deferred Close; it does not wait for the flusher.
Exit == proc = "closing" /\ Die

\* SIGKILL, a panic outside the recovered goroutines, the OOM killer.
Crash == proc = "up" /\ Die

(***************************************************************************)
(* The same in the middle of a Log that rotates.  The write has left of    *)
(* the line of e in the file what it may, or the rotation of a file that   *)
(* holds f was flushed, and has or has not removed the old generation and  *)
(* renamed; it has not reopened.  The event is in the ring already.        *)
(***************************************************************************)
HalfWritten(e) ==
  {LeftBehind} \cup {Tear(Extend(file, buf), k, e) : k \in {"part", "bare"}}

HalfRotated(f) ==
  \/ file' = f /\ prev' \in {prev, <<>>}
  \/ file' = <<>> /\ prev' = f

KilledInLog(b) ==
  /\ proc \in {"up", "closing"}
  /\ nextID < MaxId
  /\ nextID' = nextID + 1
  /\ ring' = Push(ring, Stored(b))
  /\ \/ /\ writer = "open"
        /\ OverCap(fileBytes + 1)
        /\ \/ file' \in HalfWritten(Stored(b)) /\ prev' = prev
           \/ HalfRotated(Flushed(Stored(b)))
     \/ /\ writer \in {"closed", "gone"}
        /\ HalfRotated(file)
  /\ proc' = "down"
  /\ buf' = <<>>
  /\ cut' = "none"
  /\ halted' = halted + 1
  /\ UNCHANGED <<run, fileBytes, writer, faults, gaveUp>>

(***************************************************************************)
(* What loadFromDisk reads of a longer file: the complete lines behind the *)
(* fragment that it seeks into, no more than the cap of the file.  Then    *)
(* the lines that parse, and the ring: the newest MaxRows events of them,  *)
(* in file order.  A line that is too long, whatever it holds, makes the   *)
(* Scanner fail, and replay return before it has set anything.             *)
(***************************************************************************)
Budget ==
  IF MaxFile > 0 /\ MaxFile < ReplayLines THEN MaxFile ELSE ReplayLines

FirstLineIsAFragment(f) ==             \* mutant: also without a seek
  IF Len(f) > Budget THEN Len(f) - Budget ELSE 1

WindowStart(f) == IF Len(f) > Budget THEN Len(f) - Budget ELSE 0

Window(f) == {i \in 1..Len(f) : i > WindowStart(f)}

Replayable(f) == {i \in Window(f) : Parses(f[i])}

GivesUp(f) == \E i \in Window(f) : f[i].long

ReadTail(f) ==
  LET P == Replayable(f)
      n == IF Cardinality(P) < MaxRows THEN Cardinality(P) ELSE MaxRows
  IN \E at \in [1..n -> P] :
       /\ \A i, j \in 1..n : i < j => at[i] < at[j]
       /\ \A p \in P : (\A i \in 1..n : at[i] # p) => \A i \in 1..n : p < at[i]
       /\ ring' = [i \in 1..n |-> f[at[i]].ev]

Replay(f) ==
  \/ GivesUp(f) /\ ring' = <<>>
  \/ ~GivesUp(f) /\ ReadTail(f)

\* The id counter and the size after a boot.
CounterRestarts(s) == 0                \* mutant

HighestId(s) == Max({0} \cup {s[i].id : i \in DOMAIN s})

SizeNotTaken(f) == 0                   \* mutant

SizeOf(f) == Len(f)

\* NewWithOptions: open or create the file, take its size, replay its tail.
Start ==
  /\ proc = "down"
  /\ run < MaxRuns
  /\ run' = run + 1
  /\ proc' = "up"
  /\ Replay(file)
  /\ nextID' = HighestId(ring')
  /\ fileBytes' = SizeOf(file)
  /\ writer' = "open"
  /\ gaveUp' = (gaveUp \/ GivesUp(file))
  /\ UNCHANGED <<buf, cut, file, prev, faults, halted>>

Next ==
  \/ \E b \in Body : Log(b)
  \/ Flush
  \/ FlushFails
  \/ Close
  \/ Drain
  \/ Exit
  \/ Crash
  \/ \E b \in Body : KilledInLog(b)
  \/ Start

Spec == Init /\ [][Next]_vars

-----------------------------------------------------------------------------
(***************************************************************************)
(* Types, and that nothing stays buffered in a writer that cannot write.   *)
(***************************************************************************)
TypeOK ==
  /\ proc \in {"up", "closing", "down"}
  /\ run \in 1..MaxRuns
  /\ ring \in Seq(Event)
  /\ nextID \in Nat
  /\ buf \in Seq(Event)
  /\ cut \in Cuts
  /\ file \in Seq(Line)
  /\ prev \in Seq(Line)
  /\ fileBytes \in Nat
  /\ writer \in WriterStates
  /\ faults \in 0..MaxFaults
  /\ halted \in Nat
  /\ gaveUp \in BOOLEAN
  /\ cut # "none" => buf # <<>>
  /\ writer # "open" \/ proc = "down" => buf = <<>>

(***************************************************************************)
(* The ring is bounded and in the order of logging, and no id in it is     *)
(* ahead of the counter.  Until a boot has given up on a long line, the    *)
(* ids themselves increase, so none comes back that the ring still shows,  *)
(* whatever restarts, torn lines and rotations came before; after it, ids  *)
(* restart in front of lines that a later boot can read again.             *)
(***************************************************************************)
Earlier(d, e) == d.run < e.run \/ (d.run = e.run /\ d.id < e.id)

RingInOrder ==
  /\ Len(ring) <= MaxRows
  /\ \A i, j \in 1..Len(ring) : i < j => Earlier(ring[i], ring[j])
  /\ \A i \in 1..Len(ring) : ring[i].id <= nextID
  /\ ~gaveUp =>
       \A i, j \in 1..Len(ring) : i < j => ring[i].id < ring[j].id

(***************************************************************************)
(* storage.md:100: an id is "unique within a run, not globally".  Across   *)
(* the kept generation, the current file and the write buffer, the events  *)
(* of one run stand in the order of their ids, and none stands there       *)
(* twice: no flush, rotation, torn line or restart repeats or swaps two.   *)
(***************************************************************************)
Buffered ==
  [i \in 1..Len(buf) |->
     [kind |-> "whole", long |-> TooLong(buf[i]), ev |-> buf[i]]]

OnDisk == prev \o file \o Buffered

DiskInOrder ==
  \A i, j \in {k \in 1..Len(OnDisk) : Parses(OnDisk[k])} :
    i < j /\ OnDisk[i].ev.run = OnDisk[j].ev.run =>
      OnDisk[i].ev.id < OnDisk[j].ev.id

(***************************************************************************)
(* Rotation bounds each of the two files by one event more than the cap.   *)
(* A rename that fails costs at most one more cap (the counter restarts on *)
(* the file that was not moved); a rotation that a kill cut short costs    *)
(* one event more (the next Log writes before it rotates).  The size taken *)
(* at a restart keeps this.                                                *)
(***************************************************************************)
Allowance == (faults + 1) * (MaxFile + 1) + halted

DiskBounded ==
  MaxFile > 0 => Len(file) <= Allowance /\ Len(prev) <= Allowance

\* What a crash left unterminated, by itself or with the line glued to it.
JunkLines ==
  {<<"file", i>> : i \in {j \in DOMAIN file : ~Parses(file[j])}}
    \cup {<<"prev", i>> : i \in {j \in DOMAIN prev : ~Parses(prev[j])}}

(***************************************************************************)
(* An event that is in the current file with its newline stays in it or    *)
(* moves to the kept generation: no crash, shutdown, restart, failing      *)
(* rename or failing reopen destroys it.                                   *)
(***************************************************************************)
WholeLines(f) == {f[i] : i \in {j \in DOMAIN f : f[j].kind = "whole"}}

OnlyRotationMovesLines ==
  [][WholeLines(file) \subseteq WholeLines(file') \cup WholeLines(prev')]_vars

(***************************************************************************)
(* However the process ended, a boot shows again every event that the ring *)
(* showed before and that the current file holds, provided the tail it     *)
(* reads is long enough for the ring and for the lines that do not parse,  *)
(* and none of its lines is too long (then it shows nothing).              *)
(***************************************************************************)
RestartShowsWhatSurvived ==
  [][ /\ proc = "down" /\ proc' = "up"
      /\ ~GivesUp(file)
      /\ Budget >= MaxRows + Cardinality(JunkLines)
      => ToSet(ring) \cap EventsOf(file) \subseteq ToSet(ring') ]_vars

-----------------------------------------------------------------------------
\* What the documentation says and the code does not do.

(***************************************************************************)
(* storage.md:86: "Graceful stop (systemctl stop, SIGTERM) flushes and     *)
(* fsyncs."  The process never leaves "closing" with buffered events.      *)
(***************************************************************************)
GracefulStopFlushes ==
  [][proc = "closing" /\ proc' = "down" => buf = <<>>]_vars

=============================================================================
