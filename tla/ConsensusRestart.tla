-------------------------- MODULE ConsensusRestart --------------------------
(***************************************************************************)
(* Consensus with replicas that crash and are started again.  Nothing of   *)
(* a round is persisted: BlockState, the chain, the counters and the       *)
(* tallies are variables of the process, so a restart is servercmd's start *)
(* command from the beginning, and the goroutines of the replica are gone. *)
(* The other replicas keep what they have, including goroutines that hold  *)
(* a message of the replica from before the crash.                         *)
(*                                                                         *)
(* Crash and start are one step: while the replica is away, a broadcast    *)
(* fails at it and is cut short, which Lossy in Consensus is about.  A     *)
(* broadcast to a handler that starts a goroutine is one step, as there:   *)
(* its posts are not spread over the sender's crash, which is a shorter    *)
(* broadcast, nor made after a restart of the replica they are for.        *)
(***************************************************************************)
EXTENDS Consensus

CONSTANT MaxRestarts  \* bound: crashes

ASSUME RestartAssumption == MaxRestarts \in Nat

VARIABLE restarts  \* number of crashes so far

restartVars == <<vars, restarts>>

RestartInit == Init /\ restarts = 0

(* Of a set of goroutines, those that are not the replica's. *)
Surviving(n, goroutines) == {g \in goroutines : g.at # n}

(* The genesis block has the same hash in every life of every replica: it  *)
(* has no timestamp.                                                       *)
Reset(n) ==
    /\ currBlock' = [currBlock EXCEPT ![n] = Genesis]
    /\ tmpBlock' = [tmpBlock EXCEPT ![n] = NoBlock]
    /\ chain' = [chain EXCEPT ![n] = <<Genesis>>]
    /\ times' = [times EXCEPT ![n] = 0]
    /\ transinblock' = [transinblock EXCEPT ![n] = TransInBlock]
    /\ round1Map' = [round1Map EXCEPT ![n] = {}]
    /\ round2Map' = [round2Map EXCEPT ![n] = {}]

Restart(n) ==
    /\ restarts < MaxRestarts
    /\ restarts' = restarts + 1
    /\ Reset(n)
    /\ pendingInfo' = Surviving(n, pendingInfo)
    /\ verifying' = Surviving(n, verifying)
    /\ verified' = Surviving(n, verified)
    /\ pendingVote1' = Surviving(n, pendingVote1)
    /\ pendingVote2' = Surviving(n, pendingVote2)
    /\ storing' = Surviving(n, storing)
    /\ IF n = Leader
       THEN /\ commonTransMap' = {}
            /\ pendingTran' = {}
            /\ proposals' = {}
       ELSE UNCHANGED <<commonTransMap, pendingTran, proposals>>
    /\ UNCHANGED <<clock, starts>>

RestartNext ==
    \/ Next /\ UNCHANGED restarts
    \/ \E n \in Replica : Restart(n)

RestartSpec == RestartInit /\ [][RestartNext]_restartVars
=============================================================================
