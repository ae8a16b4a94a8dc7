------------------------------ MODULE Services ------------------------------
(***************************************************************************)
(* The components that run beside the consensus, in one specification.     *)
(* They share nothing: a behaviour is of one of them, and the variables of *)
(* the others keep a state they start in.                                  *)
(*   "tally"     goroutines that keep one list of votes (VoteTally);       *)
(*   "server"    goroutines that start and stop a server (ServerLifecycle);*)
(*   "contract"  broadcasts to contract nodes (ContractNode);              *)
(*   "crawler"   the three goroutines of EthCrawler;                       *)
(*   "detector"  the workers of DdosDetector and its signals.              *)
(***************************************************************************)
EXTENDS VoteTally, Sequences

CONSTANTS
    Caller, MaxStarts, Polls,      \* of ServerLifecycle
    Call, Urls,                    \* of ContractNode
    Pages, Capacity, MaxFound      \* of EthCrawler

(* A Stop looks at the channel once at least. *)
ASSUME ServicesAssumption ==
    /\ MaxStarts \in Nat /\ Polls \in Nat \ {0}
    /\ Urls \in Nat
    /\ Pages \in Nat /\ Capacity \in Nat /\ MaxFound \in Nat

VARIABLES
    which,                                                           \* the component
    build, srv, caller, serve, upset, panicked,                      \* of ServerLifecycle
    client, node, answer, txs, waiting,                              \* of ContractNode
    urls, sourceCode, start, getter, show, found, failed, end,       \* of EthCrawler
    Running, at, worker, wait, signal                                \* of DdosDetector

Server == INSTANCE ServerLifecycle WITH server <- srv

Contract == INSTANCE ContractNode WITH server <- node

Crawler == INSTANCE EthCrawler

Detector == INSTANCE DdosDetector

serverVars == <<build, srv, caller, serve, upset, panicked>>

contractVars == <<client, node, answer, txs, waiting>>

crawlerVars == <<urls, sourceCode, start, getter, show, found, failed, end>>

detectorVars == <<Running, at, worker, wait, signal>>

serviceVars == <<which, vars, serverVars, contractVars, crawlerVars, detectorVars>>

ServicesInit ==
    /\ which \in {"tally", "server", "contract", "crawler", "detector"}
    /\ Init
    /\ Server!Init /\ (which # "server" => build = "blocking")
    /\ Contract!Init /\ (which # "contract" =>
         \A k \in Call :
           client[k].msg.method = "HEAD" /\ client[k].msg.path = "reciveTx")
    /\ Crawler!Init
    /\ Detector!Init

TallyStep == which = "tally" /\ Next /\ UNCHANGED <<which, serverVars, contractVars, crawlerVars, detectorVars>>

ServerStep ==
    which = "server" /\ Server!Next /\ UNCHANGED <<which, vars, contractVars, crawlerVars, detectorVars>>

ContractStep ==
    which = "contract" /\ Contract!Next /\ UNCHANGED <<which, vars, serverVars, crawlerVars, detectorVars>>

CrawlerStep ==
    which = "crawler" /\ Crawler!Next /\ UNCHANGED <<which, vars, serverVars, contractVars, detectorVars>>

DetectorStep ==
    which = "detector" /\ Detector!Next /\ UNCHANGED <<which, vars, serverVars, contractVars, crawlerVars>>

ServicesNext == TallyStep \/ ServerStep \/ ContractStep \/ CrawlerStep \/ DetectorStep

(* The fairness of each component (the conjuncts of its own Spec), as long *)
(* as the behaviour is of it.                                              *)
ServicesFairness ==
    /\ \A n \in Replica : WF_vars(which = "tally" /\ Goroutine(n))
    /\ \A g \in Server!Run : WF_serverVars(which = "server" /\ Server!MustGoOn(g) /\ Server!Serve(g))
    /\ \A c \in Caller : WF_serverVars(which = "server" /\ Server!Continue(c))
    /\ \A k \in Call : WF_contractVars(which = "contract" /\ Contract!Client(k))
    /\ \A k \in Call, u \in Contract!Url : WF_contractVars(which = "contract" /\ Contract!Handler(k, u))
    /\ WF_crawlerVars(which = "crawler" /\ Crawler!Starting)
    /\ WF_crawlerVars(which = "crawler" /\ Crawler!Getting)
    /\ WF_crawlerVars(which = "crawler" /\ Crawler!Showing)
    /\ WF_detectorVars(which = "detector" /\ Detector!Alive /\ Detector!Handle)
    /\ WF_detectorVars(which = "detector" /\ Detector!Alive /\ Detector!Main)
    /\ \A w \in Detector!Workers : WF_detectorVars(which = "detector" /\ Detector!Working(w))
    /\ WF_detectorVars(which = "detector" /\ Detector!Alive /\ Detector!Datagram)

ServicesSpec == ServicesInit /\ [][ServicesNext]_serviceVars /\ ServicesFairness

-----------------------------------------------------------------------------
(* server.go: a Stop that gets its notice has stopped the server it meant; *)
(* a server that ends closes no later listener; and nothing is sent to or  *)
(* closed on a channel that is gone.                                       *)
StopMeetsItsServer == which = "server" => Server!NoticeIsOwn /\ Server!ClosesOwnListener

(* server.go: no listener stays open without a server.                     *)
PortIsServed == which = "server" => Server!PortIsServed

(* server.go: Start comes back once its server has ended, where nobody     *)
(* waits for a notice and where a Stop has got it.                         *)
StartReturns == Server!BlockingStartReturns /\ Server!StopReleasesStart

(* broadcast.go, serverendpoint.go: Broadcast implements Delivery.         *)
KeepsPromise == Contract!KeepsPromise

(* receiveBlock.go: a broadcast of a block without an update ends.         *)
OnlyUpdateHangs == which = "contract" => Contract!OnlyUpdateHangs

(* EthCrawler.go, ddos_detector.go: a program that ends has taken all it   *)
(* found, and its goroutines have ended; it panics only when something     *)
(* failed.                                                                 *)
NothingIsLeft ==
    /\ which = "crawler" => Crawler!EndsDrained /\ Crawler!PanicsOnFailure
    /\ which = "detector" => Detector!WaitsForWorkers

(* EthCrawler.go, ddos_detector.go: the crawler ends, and so does the      *)
(* detector when a signal comes after it has started.                      *)
ProgramsEnd == (which = "crawler" => Crawler!CrawlerEnds) /\ Detector!StopsWhenStarted
=============================================================================
