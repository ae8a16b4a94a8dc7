----------------------------- MODULE MCServices -----------------------------
(* Services for TLC:                                                       *)
(*   "tally"     four replicas of lib/net (Nodes = 4);                     *)
(*   "server"    two goroutines that start and stop a server, two starts   *)
(*               and a Stop that looks twice: one must be able to stop     *)
(*               what the other, blocked in Start, has started;            *)
(*   "contract"  one broadcast to two servers: broadcasts share nothing    *)
(*               (scStatus stays empty), so one stands for any number;     *)
(*   "crawler"   two pages, up to two addresses on each and two sources at *)
(*               each, and channels that hold one;                         *)
(*   "detector"  its three workers and two signals.                        *)
EXTENDS ServicesInvariant

CONSTANTS n1, n2, n3, n4, c1, c2, k1

MCReplica == {n1, n2, n3, n4}

MCCaller == {c1, c2}

MCCall == {k1}
=============================================================================
