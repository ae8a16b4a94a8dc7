------------------------- MODULE ServicesInvariant -------------------------
(***************************************************************************)
(* The inductive invariants behind the safety properties of Services, one  *)
(* for each component.                                                     *)
(***************************************************************************)
EXTENDS Services

(* VoteTally: that a slower goroutine cannot shorten a full list rests on  *)
(* every list, in the map or loaded from it, being of senders that are     *)
(* through with their Store.                                               *)
Through == {n \in Replica : pc[n] \in {"count", "done"}}

ListsOfThrough ==
    /\ list \subseteq Through
    /\ \A n \in Replica : loaded[n] \subseteq Through

TallyInv == TypeOK /\ ListsOfThrough /\ ActedOnAll

-----------------------------------------------------------------------------
(* ServerLifecycle. *)
Opening(c) == caller[c].at \in {"starting", "listening", "listens"}

OneOpens ==
    /\ \A c, d \in Caller : Opening(c) /\ Opening(d) => c = d
    /\ \A c, d \in Caller : Server!Stopping(c) /\ Server!Stopping(d) => c = d

(* Until serve is called the port is held by the listener just made, or    *)
(* has been closed.                                                        *)
Listening ==
    \A c \in Caller :
        /\ caller[c].at = "listening" =>
              srv.starts \in Server!Run /\ srv.open \in {0, srv.starts}
        /\ caller[c].at \in {"listens", "serving"} => caller[c].mine \in Server!Run
        /\ caller[c].at = "listens" =>
              caller[c].mine = srv.starts /\ srv.open \in {0, srv.listener}
        /\ caller[c].at = "poll" => caller[c].polls < Polls

PortInv == Server!TypeOK /\ OneOpens /\ Listening /\ Server!PortIsServed

(* Without a channel wait (BlockingStart) nothing waits for a notice. *)
NoWait ==
    /\ srv.wait = 0 /\ ~panicked
    /\ \A c \in Caller : caller[c].at \notin {"poll", "received"}
    /\ \A g \in Server!Run : serve[g].at \notin {"tell", "sending"}

Live(g) == serve[g].at \notin {"none", "done"}

(* The server that is not through is that of the last Start, it listens on *)
(* the listener of that Start, and wait is the channel made for it.  While *)
(* it needs its listener, the listener is there or a Stop has taken it;    *)
(* and what it does after http.Serve, it does because of that Stop.        *)
LastIsLive ==
    \A g \in Server!Run : Live(g) =>
        /\ g = srv.starts /\ srv.wait = g
        /\ \A c \in Caller : ~Opening(c)
        /\ serve[g].at # "enter" => serve[g].by = g
        /\ \/ /\ serve[g].at \in {"enter", "accepting"}
              /\ srv.listener = g /\ srv.open = g
           \/ /\ srv.listener = 0 /\ srv.open = 0
              /\ \E c \in Caller : caller[c].at \in {"stopped", "poll"}
        /\ serve[g].at \in {"closing", "tell", "sending"} => ~srv.db
        /\ serve[g].at = "sending" => serve[g].ch = g

(* A Stop has closed the last listener; it has found the channel of that   *)
(* Start, and once it has received, the server has ended.                  *)
StopIsOfLast ==
    \A c \in Caller : Server!Stopping(c) =>
        /\ caller[c].mine = srv.starts /\ srv.starts \in Server!Run
        /\ srv.listener = 0 /\ srv.open = 0
        /\ \A d \in Caller : caller[d].at \notin {"starting", "listening"}
        /\ caller[c].at = "poll" => srv.wait = srv.starts
        /\ caller[c].at = "received" =>
              /\ srv.wait = srv.starts /\ ~srv.db
              /\ \A d \in Caller : ~Opening(d)
              /\ serve[srv.starts].at = "done" /\ serve[srv.starts].by = srv.starts

(* What is open is the listener of the last Start, and what waits is its   *)
(* channel: no channel outlives the Stop that received on it, and none is  *)
(* used again.                                                             *)
WaitIsOfLast ==
    /\ srv.listener \in {0, srv.starts}
    /\ srv.open \in {0, srv.listener} \/ \E c \in Caller : caller[c].at = "listening"
    /\ srv.wait # 0 =>
          /\ srv.wait = srv.starts /\ srv.wait \notin srv.closed
          /\ \A c \in Caller : ~Opening(c)
          /\ Live(srv.wait) \/ \E c \in Caller : Server!Stopping(c)
    /\ srv.closed \subseteq 1..srv.starts
    /\ \A c \in Caller :
         /\ caller[c].at \in {"starting", "listening"} => srv.listener = 0
         /\ caller[c].at = "listening" => srv.open = srv.starts
         /\ caller[c].at = "listens" =>
               /\ srv.open = srv.listener
               /\ srv.listener = 0 => \E d \in Caller : Server!Stopping(d)
         /\ caller[c].at \in {"listening", "listens"} =>
               srv.starts \notin srv.closed /\ serve[srv.starts].at = "none"
    /\ \A g \in Server!Run : g > srv.starts => serve[g].at = "none"
    /\ ~panicked

StopInv ==
    /\ build = "blocking" => NoWait
    /\ build # "blocking" /\ ~upset => LastIsLive /\ StopIsOfLast /\ WaitIsOfLast

-----------------------------------------------------------------------------
(* ContractNode: a broadcast has been posted to the servers up to one, and *)
(* all before that one have handled it.                                    *)
Posted(k) == {u \in Contract!Url : node[k][u] # "none"}

InOrder(k) ==
    /\ Posted(k) = 1..Cardinality(Posted(k))
    /\ \A u \in Contract!Url : u < Cardinality(Posted(k)) => node[k][u] = "done"

BroadcastAt(k) ==
    /\ client[k].at = "next" =>
          /\ client[k].url = Cardinality(Posted(k)) + 1
          /\ Contract!Handled(k) = Posted(k)
    /\ client[k].at = "waiting" => client[k].url = Cardinality(Posted(k))
    /\ client[k].at = "ok" => Contract!Handled(k) = Contract!Url
    /\ answer[k] # Contract!NoAnswer =>
          /\ client[k].at = "waiting"
          /\ Contract!SendReq(answer[k]) => node[k][client[k].url] = "done"

Answers ==
    [status : Nat, body : {"none", "aborted", "text", "json"},
     errors : BOOLEAN, success : BOOLEAN]

ContractType ==
    /\ client \in [Call -> [at : {"next", "waiting", "ok", "error"}, url : Nat,
                           msg : Contract!Messages]]
    /\ node \in [Call -> [Contract!Url ->
                    {"none", "arrived", "refused", "running", "done", "dead"}]]
    /\ answer \in [Call -> Answers]

PostInv == ContractType /\ \A k \in Call : InOrder(k) /\ BroadcastAt(k)

-----------------------------------------------------------------------------
(* EthCrawler: what has been found has been taken, is in a channel, or is  *)
(* still to be put into it; and a channel is closed early only on failure. *)
CrawlerType ==
    /\ urls \in [held : Nat, closed : BOOLEAN]
    /\ sourceCode \in [held : Nat, closed : BOOLEAN]
    /\ start \in [at : {"get", "put", "done"}, page : Nat, left : Nat]
    /\ getter \in [at : {"range", "nilResponse", "put", "done"}, left : Nat]
    /\ show \in {"range", "killsign"}
    /\ found \in [addresses : Nat, got : Nat, sources : Nat, count : Nat]
    /\ failed \in BOOLEAN /\ end \in {"running", "ended", "panic"}

NothingLost ==
    /\ ~failed => found.addresses = found.got + urls.held + start.left
    /\ found.sources = found.count + sourceCode.held + getter.left
    /\ start.at # "put" => start.left = 0
    /\ getter.at # "put" => getter.left = 0

ClosedInOrder ==
    /\ urls.closed => start.at = "done"
    /\ getter.at = "done" => urls.closed /\ urls.held = 0
    /\ getter.at = "nilResponse" => failed
    /\ sourceCode.closed => failed \/ getter.at = "done"
    /\ show = "killsign" => sourceCode.closed /\ sourceCode.held = 0
    /\ end = "ended" => show = "killsign"
    /\ end = "panic" => failed

CrawlInv == CrawlerType /\ NothingLost /\ ClosedInOrder

-----------------------------------------------------------------------------
(* DdosDetector: a worker has been started when main is past it. *)
DetectorType ==
    /\ at \in Detector!Workers \cup {"set", "wait", "finished"}
    /\ worker \in [Detector!Workers -> {"none", "start", "loop", "busy", "done"}]
    /\ wait \in Nat

Order == <<"set", "listener", "CountersRotator", "GraphiteSender", "wait", "finished">>

Unstarted ==
    \A w \in Detector!Workers :
        worker[w] = "none" <=>
            \E i, j \in 1..6 : i <= j /\ at = Order[i] /\ w = Order[j]

DetectInv == DetectorType /\ Unstarted /\ Detector!WaitsForWorkers

ServicesInv == TallyInv /\ PortInv /\ StopInv /\ PostInv /\ CrawlInv /\ DetectInv
=============================================================================
