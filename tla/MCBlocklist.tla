---------------------------- MODULE MCBlocklist ----------------------------
(***************************************************************************)
(* Blocklist for TLC: one address, one range around it.                    *)
(***************************************************************************)
EXTENDS Blocklist

MCWithin == [n \in Ranges |-> Addresses]
=============================================================================
