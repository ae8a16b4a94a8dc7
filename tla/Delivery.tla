------------------------------ MODULE Delivery ------------------------------
(***************************************************************************)
(* What a Broadcast promises (lib/net/broadcast.go): a message is put to   *)
(* the nodes in order, to the next only when the last has handled it, and  *)
(* the caller is told "ok" only when all have.  A failure may come at any  *)
(* time and leaves a prefix of the nodes with the message; the last of the *)
(* prefix may still handle it after the caller has been told.              *)
(***************************************************************************)
EXTENDS Naturals

CONSTANTS Call, Urls

VARIABLES
    posted,   \* [call -> to how many nodes the message has been put]
    handled,  \* [call -> the nodes that have handled it]
    told      \* [call -> "running" as long as it runs, then "ok" or "error"]

vars == <<posted, handled, told>>

Init ==
    /\ posted = [k \in Call |-> 0]
    /\ handled = [k \in Call |-> {}]
    /\ told = [k \in Call |-> "running"]

Put(k) ==
    /\ told[k] = "running" /\ posted[k] < Urls /\ handled[k] = 1..posted[k]
    /\ posted' = [posted EXCEPT ![k] = @ + 1]
    /\ UNCHANGED <<handled, told>>

Handle(k) ==
    /\ posted[k] > 0
    /\ handled' = [handled EXCEPT ![k] = @ \cup {posted[k]}]
    /\ UNCHANGED <<posted, told>>

Tell(k) ==
    /\ told[k] = "running"
    /\ \/ handled[k] = 1..Urls /\ told' = [told EXCEPT ![k] = "ok"]
       \/ told' = [told EXCEPT ![k] = "error"]
    /\ UNCHANGED <<posted, handled>>

Next == \E k \in Call : Put(k) \/ Handle(k) \/ Tell(k)

Spec == Init /\ [][Next]_vars
=============================================================================
