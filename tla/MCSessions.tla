----------------------------- MODULE MCSessions -----------------------------
(***************************************************************************)
(* Instances of Sessions for TLC.                                          *)
(***************************************************************************)
EXTENDS Sessions

CONSTANTS t1, t2, s1

TwoTcp == {t1, t2}
OneSsh == {s1}

\* What the handlers of the connections can log.
Bodies(C) == [sid : C, type : Types]

AllBodies == Bodies(TwoTcp \cup OneSsh)
=============================================================================
