----------------------------- MODULE MCEventLog -----------------------------
(***************************************************************************)
(* The instance of EventLog for TLC.                                       *)
(***************************************************************************)
EXTENDS EventLog

CONSTANT b

OneBody == {b}

\* The first event of the first run has a line that no boot can read.
FirstIsLong == {[id |-> 1, run |-> 1, body |-> b]}
=============================================================================
