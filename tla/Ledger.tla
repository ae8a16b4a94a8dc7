------------------------------- MODULE Ledger -------------------------------
(***************************************************************************)
(* What the block round promises: one growing chain of linked blocks, of   *)
(* which every replica stores a prefix, no replica more than one block     *)
(* ahead of another.                                                       *)
(***************************************************************************)
EXTENDS Naturals, Sequences

CONSTANTS Replica, Genesis

VARIABLE chain

Init == chain = [n \in Replica |-> <<Genesis>>]

(* s is r and one block more. *)
OneLonger(r, s) ==
    /\ Len(s) = Len(r) + 1
    /\ \A i \in 1..Len(r) : s[i] = r[i]

Linked(s) ==
    LET k == Len(s)
    IN  s[k].prev = s[k - 1].hash /\ s[k].index = s[k - 1].index + 1

OnlyChanges(n) == chain' = [chain EXCEPT ![n] = chain'[n]]

(* A replica is the first to store a block: all are at the same height. *)
Commit(n) ==
    /\ OnlyChanges(n)
    /\ OneLonger(chain[n], chain'[n])
    /\ Linked(chain'[n])
    /\ \A m \in Replica : chain[m] = chain[n]

(* A replica that is one block behind stores the block it lacks. *)
CatchUp(n) ==
    /\ OnlyChanges(n)
    /\ OneLonger(chain[n], chain'[n])
    /\ \E m \in Replica : chain'[n] = chain[m]

Next == \E n \in Replica : Commit(n) \/ CatchUp(n)

Spec == Init /\ [][Next]_chain
=============================================================================
