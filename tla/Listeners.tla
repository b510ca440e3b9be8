----------------------------- MODULE Listeners -----------------------------
(***************************************************************************)
(* What the listener manager promises, without its lock, its maps, its two *)
(* loops and the requests that compete for it: one configuration at a time *)
(* is enforced; a listener goes only if that configuration does not want   *)
(* it where it is, and comes only where it is wanted and nobody else is;   *)
(* and the configuration is let go only when every service is as wanted,   *)
(* or was tried for it and failed to start: refused, for a port that       *)
(* somebody else may hold, or broken, for a cause of its own.              *)
(***************************************************************************)
CONSTANTS Services, Ports, Contested, Off

VARIABLES
  up,      \* the port of each service that listens
  refused, \* services that failed to start for this goal for a port
  broken,  \* services that failed to start for this goal otherwise
  goal     \* the configuration that is being enforced: a set of at most one

lsVars == <<up, refused, broken, goal>>

ListenersInit == up = <<>> /\ refused = {} /\ broken = {} /\ goal = {}

Begin ==
  /\ goal = {}
  /\ \E cfg \in [Services -> Ports \cup {Off}] : goal' = {cfg}
  /\ refused' = {} /\ broken' = {}
  /\ UNCHANGED up

\* The other listeners.
But(s) == [t \in DOMAIN up \ {s} |-> up[t]]

Close(s) ==
  /\ \E cfg \in goal : s \in DOMAIN up /\ cfg[s] = Off
  /\ up' = But(s)
  /\ UNCHANGED <<refused, broken, goal>>

AsWanted(cfg, s) == s \in DOMAIN up /\ up[s] = cfg[s]

\* At its new port, if it had another.
Open(s) ==
  /\ \E cfg \in goal :
       /\ cfg[s] # Off /\ ~AsWanted(cfg, s)
       /\ \A t \in DOMAIN up \ {s} : up[t] # cfg[s]
       /\ up' = [t \in DOMAIN up \cup {s} |-> IF t = s THEN cfg[s] ELSE up[t]]
  /\ UNCHANGED <<refused, broken, goal>>

\* Somebody else may be at the port of s.
MayBeHeld(cfg, s) == cfg[s] \in Contested \/ \E t \in DOMAIN up \ {s} : up[t] = cfg[s]

Fail(s) ==
  /\ \E cfg \in goal :
       /\ cfg[s] # Off /\ ~AsWanted(cfg, s)
       /\ \/ /\ MayBeHeld(cfg, s)
             /\ refused' = refused \cup {s} /\ UNCHANGED broken
          \/ broken' = broken \cup {s} /\ UNCHANGED refused
  /\ up' = But(s)
  /\ UNCHANGED goal

End ==
  /\ \E cfg \in goal : \A s \in Services :
       IF cfg[s] = Off THEN s \notin DOMAIN up
       ELSE AsWanted(cfg, s) \/ s \in (refused \cup broken) \ DOMAIN up
  /\ goal' = {}
  /\ UNCHANGED <<up, refused, broken>>

CloseAll ==
  /\ goal = {}
  /\ up' = <<>>
  /\ UNCHANGED <<refused, broken, goal>>

ListenersNext ==
  \/ Begin \/ End \/ CloseAll
  \/ \E s \in Services : Close(s) \/ Open(s) \/ Fail(s)

ListenersSpec == ListenersInit /\ [][ListenersNext]_lsVars
=============================================================================
