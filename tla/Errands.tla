------------------------------ MODULE Errands ------------------------------
(***************************************************************************)
(* What Queue of the country resolver promises, without its cache, its     *)
(* channel, its locks and its callers: an address is asked for at most     *)
(* once at a time, and one at a time is with the provider.  An errand may  *)
(* be dropped before it is begun, and the end of the process loses all.    *)
(***************************************************************************)
CONSTANT Addresses

VARIABLE state   \* of each address: "idle", "asked" or "doing"

ErrandsInit == state = [a \in Addresses |-> "idle"]

Moves(a, from, to) ==
  /\ state[a] = from
  /\ state' = [state EXCEPT ![a] = to]

Ask(a)   == Moves(a, "idle", "asked")
Drop(a)  == Moves(a, "asked", "idle")
Begin(a) == Moves(a, "asked", "doing") /\ \A b \in Addresses : state[b] # "doing"
End(a)   == Moves(a, "doing", "idle")

Lose == state' = [a \in Addresses |-> "idle"]

ErrandsNext ==
  \/ \E a \in Addresses : Ask(a) \/ Drop(a) \/ Begin(a) \/ End(a)
  \/ Lose

ErrandsSpec == ErrandsInit /\ [][ErrandsNext]_state
=============================================================================
