---------------------------- MODULE ContractNode ----------------------------
(***************************************************************************)
(* The smart-contract node (lib/docker/lib/net): blocks arrive at its      *)
(* handler /recBlock, which acts on their contract transactions one after  *)
(* the other.  Its maps scStatus, scVersion, scIP and scHash are declared  *)
(* and never made: reading them finds nothing, writing to one panics.  So  *)
(* nothing is ever installed, and the branch that runs a contract          *)
(* (receiveBlock.go:75-99) is never taken.                                 *)
(***************************************************************************)
EXTENDS HttpExchange

VARIABLES
    txs,      \* [call -> [url -> the transactions its handler has still to look at]]
    waiting   \* the handlers, as <<call, url>>, in the loop of update

vars == <<exchangeVars, txs, waiting>>

(* The keys of the maps. *)
scStatus == {}

(* What the node does with a transaction depends on its addressee, its     *)
(* sender, whether its message can be decoded, and the command in it.      *)
Tx == [to : {"lcssc", "account"}, from : {"lcssc", "user"},
       command : {"install", "instantiate", "update", "none"}]

IsSmartContract(tx) == tx.to \in {"0", "lcssc"} \cup scStatus

(* install ends in a write to scHash or scStatus, after a successful       *)
(* build; a failed one leaves scd nil and panics at scd.Hash.  An          *)
(* instantiate of the node itself writes scStatus; a user's returns, as    *)
(* nothing is installed.                                                   *)
Panics(tx) ==
    /\ IsSmartContract(tx)
    /\ \/ tx.command = "install"
       \/ tx.command = "instantiate" /\ tx.from \in {"lcssc", "0"}

InstantiateWaitsBug(tx) ==
    IsSmartContract(tx) /\ tx.command \in {"update", "instantiate"} /\ tx.from \notin {"lcssc", "0"}

Updates(tx) == IsSmartContract(tx) /\ tx.command = "update" /\ tx.from \notin {"lcssc", "0"}

-----------------------------------------------------------------------------
(* A block of two transactions or none, and requests that no handler gets. *)
Messages ==
    [path : {"recBlock"}, method : {"POST"}, block : {<<a, b>> : a, b \in Tx} \cup {<<>>}]
    \cup [path : {"recBlock", "reciveTx"}, method : {"GET", "POST", "HEAD"}, block : {<<>>}]

Init ==
    /\ ExchangeInit(Messages)
    /\ txs = [k \in Call |-> [u \in Url |-> client[k].msg.block]]
    /\ waiting = {}

(* The handler of /recBlock: the loop of smartContractExcu over b.TX.  A   *)
(* body that cannot be read or decoded is a block without transactions; an *)
(* update whose data cannot be decoded returns at once.                    *)
NextTx(k, u) ==
    /\ server[k][u] = "running" /\ txs[k][u] # <<>> /\ <<k, u>> \notin waiting
    /\ txs' = [txs EXCEPT ![k][u] = Tail(@)]
    /\ LET tx == Head(txs[k][u])
       IN  IF Panics(tx)
           THEN HandlerPanics(k, u) /\ UNCHANGED waiting
           ELSE /\ waiting' \in {waiting} \cup IF Updates(tx) THEN {waiting \cup {<<k, u>>}} ELSE {}
                /\ UNCHANGED exchangeVars

(* update, once a second: go on when the contract is installed. *)
LookAgain(k, u) ==
    /\ <<k, u>> \in waiting
    /\ waiting' = IF scStatus # {} THEN waiting \ {<<k, u>>} ELSE waiting
    /\ UNCHANGED <<exchangeVars, txs>>

Return(k, u) ==
    /\ txs[k][u] = <<>> /\ <<k, u>> \notin waiting
    /\ HandlerReturns(k, u, NoErr)
    /\ UNCHANGED <<txs, waiting>>

Handler(k, u) ==
    \/ Dispatch(k, u) /\ UNCHANGED <<txs, waiting>>
    \/ NextTx(k, u) \/ LookAgain(k, u) \/ Return(k, u)

Client(k) == (Post(k) \/ Receive(k)) /\ UNCHANGED <<txs, waiting>>

Next ==
    \/ \E k \in Call : Client(k) \/ (Break(k) /\ UNCHANGED <<txs, waiting>>)
    \/ \E k \in Call, u \in Url : Handler(k, u)

(* Goroutines are scheduled; a connection need not break. *)
Fairness ==
    /\ \A k \in Call : WF_vars(Client(k))
    /\ \A k \in Call, u \in Url : WF_vars(Handler(k, u))

Spec == Init /\ [][Next]_vars /\ Fairness

-----------------------------------------------------------------------------
TypeOK ==
    /\ \A k \in Call :
         /\ client[k].at \in {"next", "waiting", "ok", "error"}
         /\ client[k].url \in 1..(Urls + 1)
         /\ server[k] \in [Url -> {"none", "arrived", "refused", "running", "done", "dead"}]
         /\ txs[k] \in [Url -> UNION {[1..n -> Tx] : n \in 0..2}]
    /\ waiting \subseteq {w \in Call \X Url : server[w[1]][w[2]] = "running"}

Handled(k) == {u \in Url : server[k][u] = "done"}

(* A Broadcast keeps the promise of Delivery: it goes in order, goes on    *)
(* only past a server whose handler has ended without a panic, and returns *)
(* nil only when all have, whatever connections break.                     *)
Promise ==
    INSTANCE Delivery WITH
        posted <- [k \in Call |-> Cardinality({u \in Url : server[k][u] # "none"})],
        handled <- [k \in Call |-> Handled(k)],
        told <- [k \in Call |-> IF client[k].at \in {"ok", "error"} THEN client[k].at ELSE "running"]

KeepsPromise == Promise!Init /\ [][Promise!Next]_Promise!vars

(* Only an update keeps a Broadcast from returning (the client has no      *)
(* timeout, and update waits for an installation that cannot happen): a    *)
(* broadcast of any other block ends.                                      *)
OnlyUpdateHangs ==
    \A k \in Call :
        (\A i \in DOMAIN client[k].msg.block : ~(client[k].msg.block[i].command = "update"))
            ~> client[k].at \in {"ok", "error"}
=============================================================================
