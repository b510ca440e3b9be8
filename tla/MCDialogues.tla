---------------------------- MODULE MCDialogues ----------------------------
(***************************************************************************)
(* Instances of Dialogues for TLC.                                         *)
(***************************************************************************)
EXTENDS Dialogues

Two == {"a", "b"}

\* Both lists against each other, names by list, and everything by chance.
Listed  == [mode |-> "never", reject |-> {"a"}, passwords |-> {"b"}, users |-> {}]
ByName  == [mode |-> "first-attempt", reject |-> {}, passwords |-> {}, users |-> {"a"}]
ByLuck  == [mode |-> "", reject |-> {}, passwords |-> {"b"}, users |-> {"b"}]
Anybody == [mode |-> "random-any", reject |-> {"b"}, passwords |-> {}, users |-> {"b"}]

Configurations == {Listed, ByName, ByLuck, Anybody}
=============================================================================
