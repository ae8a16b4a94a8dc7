----------------------------- MODULE VoteTally -----------------------------
(***************************************************************************)
(* One tally of lib/net under one key, as vote1, vote2 and receiveTran all *)
(* keep it: every message has a goroutine, which loads the list from a     *)
(* sync.Map, stores it with one entry more, loads it again and acts if it  *)
(* is full.  Each call on the map is atomic; the goroutine is not.         *)
(*                                                                         *)
(* Lists are sets: a sender's message comes once, and an append never      *)
(* writes into an array another goroutine appends to, because up to four   *)
(* replicas a list with spare capacity lacks one entry only.               *)
(***************************************************************************)
EXTENDS Naturals, FiniteSets

CONSTANT Replica  \* the senders

Nodes == Cardinality(Replica)

ASSUME TallyAssumption == IsFiniteSet(Replica) /\ Nodes >= 2

VARIABLES
    list,    \* the entries in the map; {} when the key is absent
    pc,      \* [sender -> where the goroutine of its message is]
    loaded,  \* [sender -> the list its goroutine loaded first]
    acted    \* senders whose goroutine found the list full

vars == <<list, pc, loaded, acted>>

FullBug(entries) == Cardinality(entries) > Nodes

Full(entries) == Cardinality(entries) = Nodes

Init ==
    /\ list = {}
    /\ pc = [n \in Replica |-> "load"]
    /\ loaded = [n \in Replica |-> {}]
    /\ acted = {}

(* val, ok := Load(key) *)
Load(n) ==
    /\ pc[n] = "load"
    /\ loaded' = [loaded EXCEPT ![n] = list]
    /\ pc' = [pc EXCEPT ![n] = IF list = {} THEN "first" ELSE "append"]
    /\ UNCHANGED <<list, acted>>

(* The branch for an absent key: store a list of one entry and return. *)
StoreFirst(n) ==
    /\ pc[n] = "first"
    /\ list' = {n}
    /\ pc' = [pc EXCEPT ![n] = "done"]
    /\ UNCHANGED <<loaded, acted>>

(* Store(key, append(votes, v)) *)
StoreAppended(n) ==
    /\ pc[n] = "append"
    /\ list' = loaded[n] \cup {n}
    /\ pc' = [pc EXCEPT ![n] = "count"]
    /\ UNCHANGED <<loaded, acted>>

CountEarlyBug(n) ==
    /\ pc[n] = "count"
    /\ acted' = IF Cardinality(list) >= Nodes - 1 THEN acted \cup {n} ELSE acted
    /\ pc' = [pc EXCEPT ![n] = "done"]
    /\ UNCHANGED <<list, loaded>>

(* The second Load, and the revote, store or block generation behind it. *)
Count(n) ==
    /\ pc[n] = "count"
    /\ acted' = IF Full(list) THEN acted \cup {n} ELSE acted
    /\ pc' = [pc EXCEPT ![n] = "done"]
    /\ UNCHANGED <<list, loaded>>

Goroutine(n) == Load(n) \/ StoreFirst(n) \/ StoreAppended(n) \/ Count(n)

Finished == \A n \in Replica : pc[n] = "done"

Next == \E n \in Replica : Goroutine(n)

(* The Go scheduler runs every goroutine to its end. *)
Spec == Init /\ [][Next]_vars /\ \A n \in Replica : WF_vars(Goroutine(n))

----------------------------------------------------------------------------
(* The map and the goroutines hold what the code's types say. *)
TypeOK ==
    /\ list \in SUBSET Replica
    /\ pc \in [Replica -> {"load", "first", "append", "count", "done"}]
    /\ loaded \in [Replica -> SUBSET Replica]
    /\ acted \in SUBSET Replica

(* Who acts has everybody's entry, and the list stays complete: no slower  *)
(* goroutine stores a shorter list over one that was found full.           *)
ActedOnAll == acted # {} => list = Replica

(* A list that becomes complete is acted upon: of the goroutines that      *)
(* filled it, the last has its second Load still before it.                *)
CompleteIsActedOn == list = Replica ~> acted # {}

(* recBlockVoteRound1.go:114 takes a sync.Map "so that concurrent reads    *)
(* and writes do not corrupt the map": every entry is in the list when all *)
(* goroutines are through.                                                 *)
NoLostEntry == Finished => list = Replica
=============================================================================
