-------------------------- MODULE ServerLifecycle --------------------------
(***************************************************************************)
(* The Server of lib/net/server.go: Start, serve, Stop and the channel     *)
(* wait between them.  Three builds of it exist and a behaviour is of one: *)
(*   "blocking"  BlockingStart set, as cmd/main.go does;                   *)
(*   "caller"    not set: lib/net calls serve in the goroutine of Start;   *)
(*   "spawned"   not set: lib/docker/lib/net spawns serve.                 *)
(* A listener and the channel made for it bear the number of their Start;  *)
(* 0 is nil.  Start is not called while a Stop goes on, nor while another  *)
(* Start has not yet begun to serve: it would find s.listener nil too.     *)
(***************************************************************************)
EXTENDS Naturals, FiniteSets

CONSTANTS
    Caller,     \* goroutines that call Start and Stop
    MaxStarts,  \* bound on the listeners
    Polls       \* how often Stop looks at wait (10 in the code)

Run == 1..MaxStarts

VARIABLES
    build,
    server,    \* the fields listener and wait; open: the listener that holds the
               \* port, or 0; closed: the closed channels; db: whether mysql.DB is
               \* open; leader: isSelfLeader; starts: listeners made
    caller,    \* [goroutine -> at: where it is; mine: the listener it made, or the
               \* one its Stop closed; polls: the loop variable of Stop]
    serve,     \* [listener's number -> at; by: the local listener; ch: the channel]
    upset,     \* history: a Stop gave up, or came before wait was made, or a
               \* server ended that nobody stopped
    panicked   \* history: close or send on a channel that is nil or closed

vars == <<build, server, caller, serve, upset, panicked>>

Init ==
    /\ build \in {"blocking", "caller", "spawned"}
    /\ server = [listener |-> 0, wait |-> 0, open |-> 0, closed |-> {}, db |-> TRUE,
                 leader |-> FALSE, starts |-> 0]
    /\ caller = [c \in Caller |-> [at |-> "idle", mine |-> 0, polls |-> 0]]
    /\ serve = [g \in Run |-> [at |-> "none", by |-> 0, ch |-> 0]]
    /\ upset = FALSE /\ panicked = FALSE

CallerAt(c, from, to) == caller[c].at = from /\ caller' = [caller EXCEPT ![c].at = to]

ServeAt(g, from, to) == serve[g].at = from /\ serve' = [serve EXCEPT ![g].at = to]

Stopping(c) == caller[c].at \in {"stopped", "poll", "received"}

Note(what) == upset' = (upset \/ what)

(* closeListener, under the mutex. *)
CloseListener(sv) ==
    [sv EXCEPT !.open = IF @ = sv.listener THEN 0 ELSE @, !.listener = 0]

-----------------------------------------------------------------------------
(* Start: refused while s.listener is set. *)
StartServer(c) ==
    /\ \A d \in Caller : caller[d].at \in {"idle", "serving"}
    /\ CallerAt(c, "idle", IF server.listener # 0 THEN "idle" ELSE "starting")
    /\ UNCHANGED <<build, server, serve, upset, panicked>>

(* init fails: Start closes the database and returns the error. *)
InitFails(c) ==
    /\ CallerAt(c, "starting", "idle")
    /\ server' = [server EXCEPT !.db = FALSE]
    /\ UNCHANGED <<build, serve, upset, panicked>>

(* net.Listen, with the node of lib/net on the default port: the leader    *)
(* knows itself before it knows whether it has the port.                   *)
Listen(c) ==
    LET sv == [server EXCEPT !.leader = @ \/ build # "spawned"]
    IN  /\ \/ /\ server.open = 0 /\ server.starts < MaxStarts
              /\ CallerAt(c, "starting", "listening")
              /\ server' = [sv EXCEPT !.starts = @ + 1, !.open = sv.starts + 1]
           \/ /\ CallerAt(c, "starting", "idle")
              /\ server' = [sv EXCEPT !.db = FALSE]
        /\ UNCHANGED <<build, serve, upset, panicked>>

SetListener(c) ==
    /\ caller[c].at = "listening"
    /\ caller' = [caller EXCEPT ![c].at = "listens", ![c].mine = server.starts]
    /\ server' = [server EXCEPT !.listener = server.starts]
    /\ UNCHANGED <<build, serve, upset, panicked>>

(* serve is called, or spawned, after wait has been made. *)
BeginServe(c) ==
    /\ CallerAt(c, "listens", IF build = "spawned" THEN "idle" ELSE "serving")
    /\ server' = [server EXCEPT !.wait = IF build = "blocking" THEN @ ELSE caller[c].mine]
    /\ ServeAt(caller[c].mine, "none", "enter")
    /\ UNCHANGED <<build, upset, panicked>>

(* serve has returned to Start. *)
StartReturns(c) ==
    /\ CallerAt(c, "serving", "idle") /\ serve[caller[c].mine].at = "done"
    /\ UNCHANGED <<build, server, serve, upset, panicked>>

(* Server.Init closes the database, which nothing opens again. *)
InitServer(c) ==
    /\ caller[c].at = "idle"
    /\ server' = [server EXCEPT !.db = FALSE]
    /\ UNCHANGED <<build, caller, serve, upset, panicked>>

-----------------------------------------------------------------------------
(* serve *)
Enter(g) ==
    /\ serve[g].at = "enter"
    /\ serve' = [serve EXCEPT ![g].at = IF server.listener = 0 THEN "done" ELSE "accepting",
                             ![g].by = server.listener]
    /\ UNCHANGED <<build, server, caller, upset, panicked>>

(* http.Serve returns, because of Stop or for a reason of its own, and     *)
(* closes its listener.                                                    *)
HttpServeEnds(g) ==
    /\ ServeAt(g, "accepting", "ended")
    /\ server' = [server EXCEPT !.open = IF @ = serve[g].by THEN 0 ELSE @]
    /\ Note(server.open = serve[g].by)
    /\ UNCHANGED <<build, caller, panicked>>

ForgetListenerBug(g) ==
    /\ ServeAt(g, "ended", "closing")
    /\ server' = [server EXCEPT !.listener = 0, !.db = FALSE]
    /\ UNCHANGED <<build, caller, upset, panicked>>

(* closeListener, whose error is ignored, then closeDB. *)
CloseAfterServe(g) ==
    /\ ServeAt(g, "ended", "closing")
    /\ server' = [CloseListener(server) EXCEPT !.db = FALSE]
    /\ UNCHANGED <<build, caller, upset, panicked>>

CheckWait(g) ==
    /\ ServeAt(g, "closing", IF server.wait = 0 THEN "done" ELSE "tell")
    /\ UNCHANGED <<build, server, caller, upset, panicked>>

(* s.wait <- true, with s.wait read again: blocks until a Stop receives. *)
Tell(g) ==
    /\ serve[g].at = "tell"
    /\ serve' = [serve EXCEPT ![g].at = "sending", ![g].ch = server.wait]
    /\ UNCHANGED <<build, server, caller, upset, panicked>>

SendPanics(g) ==
    /\ ServeAt(g, "sending", "dead") /\ serve[g].ch \in server.closed
    /\ panicked' = TRUE
    /\ UNCHANGED <<build, server, caller, upset>>

-----------------------------------------------------------------------------
(* Stop begins with closeListener and returns its error: when there is no  *)
(* listener, or one that http.Serve has closed when it ended on its own.   *)
StopServer(c) ==
    /\ \A d \in Caller : ~Stopping(d)
    /\ caller[c].at = "idle"
    /\ IF server.listener = 0 \/ server.open # server.listener
       THEN UNCHANGED caller
       ELSE caller' = [caller EXCEPT ![c].at = "stopped", ![c].mine = server.listener]
    /\ server' = CloseListener(server)
    /\ UNCHANGED <<build, serve, upset, panicked>>

ReturnAtOnceBug(c) ==
    /\ CallerAt(c, "stopped", "idle")
    /\ Note(server.wait = 0 /\ build # "blocking")
    /\ UNCHANGED <<build, server, serve, panicked>>

LookAtWait(c) ==
    /\ caller[c].at = "stopped"
    /\ caller' = [caller EXCEPT ![c].at = IF server.wait = 0 THEN "idle" ELSE "poll",
                               ![c].polls = 0]
    /\ Note(server.wait = 0 /\ build # "blocking")
    /\ UNCHANGED <<build, server, serve, panicked>>

Senders ==
    {g \in Run : server.wait # 0 /\ serve[g].at = "sending" /\ serve[g].ch = server.wait}

LeaveSenderBug(c) ==
    /\ CallerAt(c, "poll", "received") /\ Senders # {}
    /\ UNCHANGED <<build, server, serve, upset, panicked>>

(* The select receives from a serve that is sending. *)
Receive(c) ==
    /\ CallerAt(c, "poll", "received")
    /\ \E g \in Senders : ServeAt(g, "sending", "done")
    /\ UNCHANGED <<build, server, upset, panicked>>

Last(k) == k + 1 = Polls

(* The default branch: sleep; after the last time, close the database. *)
PollAgain(c) ==
    /\ Senders = {} /\ caller[c].at = "poll"
    /\ LET last == Last(caller[c].polls)
       IN  /\ caller' = [caller EXCEPT ![c].at = IF last THEN "idle" ELSE "poll",
                                      ![c].polls = @ + 1]
           /\ server' = [server EXCEPT !.db = @ /\ ~last]
           /\ Note(last)
    /\ UNCHANGED <<build, serve, panicked>>

(* close(s.wait); s.wait = nil *)
StopReturns(c) ==
    /\ CallerAt(c, "received", "idle")
    /\ panicked' = (panicked \/ server.wait \in server.closed \cup {0})
    /\ server' = [server EXCEPT !.closed = @ \cup {server.wait}, !.wait = 0]
    /\ UNCHANGED <<build, serve, upset>>

-----------------------------------------------------------------------------
Serve(g) ==
    \/ Enter(g) \/ HttpServeEnds(g) \/ CloseAfterServe(g)
    \/ CheckWait(g) \/ Tell(g) \/ SendPanics(g)

(* What a caller does on its own, once it has called. *)
Continue(c) ==
    \/ Listen(c) \/ SetListener(c) \/ BeginServe(c) \/ StartReturns(c)
    \/ LookAtWait(c) \/ Receive(c) \/ PollAgain(c) \/ StopReturns(c)

Next ==
    \/ \E g \in Run : Serve(g)
    \/ \E c \in Caller :
         StartServer(c) \/ InitFails(c) \/ InitServer(c) \/ StopServer(c) \/ Continue(c)

(* Goroutines are scheduled, and a server whose listener has been closed   *)
(* stops serving; one whose listener is open need not.                     *)
MustGoOn(g) == serve[g].at = "accepting" => serve[g].by # server.open

Fairness ==
    /\ \A g \in Run : WF_vars(MustGoOn(g) /\ Serve(g))
    /\ \A c \in Caller : WF_vars(Continue(c))

Spec == Init /\ [][Next]_vars /\ Fairness

-----------------------------------------------------------------------------
TypeOK ==
    /\ build \in {"blocking", "caller", "spawned"}
    /\ server \in [listener : 0..MaxStarts, wait : 0..MaxStarts, open : 0..MaxStarts,
                   closed : SUBSET (0..MaxStarts), db : BOOLEAN, leader : BOOLEAN,
                   starts : 0..MaxStarts]
    /\ caller \in [Caller -> [at : {"idle", "starting", "listening", "listens", "serving",
                                   "stopped", "poll", "received"},
                             mine : 0..MaxStarts, polls : 0..Polls]]
    /\ serve \in [Run -> [at : {"none", "enter", "accepting", "ended", "closing", "tell",
                               "sending", "done", "dead"},
                         by : 0..MaxStarts, ch : 0..MaxStarts]]
    /\ {upset, panicked} \subseteq BOOLEAN

(* The stop notice (server.go:191) is trustworthy as long as nothing has   *)
(* upset the server: a Stop that receives has met the serve of the         *)
(* listener it closed, that serve has ended and closed the database, and   *)
(* no send or close has met a channel that is nil or closed.               *)
NoticeIsOwn ==
    ~upset =>
        /\ ~panicked
        /\ \A c \in Caller : caller[c].at = "received" =>
              LET g == caller[c].mine
              IN  serve[g].at = "done" /\ serve[g].by = g /\ ~server.db

(* The port is not leaked, in any build and whatever happens: a listener   *)
(* that is open is served, or is about to be (serve reads s.listener, and  *)
(* returns without closing anything if it is nil).                         *)
PortIsServed ==
    server.open # 0 =>
        \/ \E g \in Run : serve[g].at = "accepting" /\ serve[g].by = server.open
        \/ server.listener = server.open /\ \E g \in Run : serve[g].at = "enter"
        \/ \E c \in Caller : caller[c].at \in {"listening", "listens"}

(* A serve closes s.listener when it ends, whoever opened it: that it is   *)
(* never a later Start's rests on the wait of Stop, and holds as long as   *)
(* nothing has upset the server.  A blocking server has no wait.           *)
ClosesOwnListener ==
    build # "blocking" /\ ~upset =>
        \A g \in Run : serve[g].at = "ended" => server.listener \in {0, g}

Blocked(c) == caller[c].at = "serving"

(* The server main.go runs does not hang on wait (server.go:191-193): once *)
(* http.Serve has ended, Start returns.                                    *)
BlockingStartReturns ==
    \A c \in Caller :
        build = "blocking" /\ Blocked(c) /\ serve[caller[c].mine].at = "ended" ~> ~Blocked(c)

(* A Stop that gets its notice releases the Start it stopped, where serve  *)
(* runs in the goroutine of Start.                                         *)
StopReleasesStart ==
    \A c, d \in Caller :
        /\ build = "caller" /\ ~upset
        /\ caller[c].at = "received" /\ Blocked(d) /\ caller[d].mine = caller[c].mine
        ~> ~Blocked(d)
=============================================================================
