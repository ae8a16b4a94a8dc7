---------------------------- MODULE MySQLPackets ----------------------------
(***************************************************************************)
(* One connection of the MySQL driver (lib/go-sql-driver/mysql): how its   *)
(* goroutine writes and reads packets, how the watcher goroutine cancels   *)
(* what it does, and how the network fails.  What a call writes and reads  *)
(* is a sequence of tasks, call.todo.  The login is at the end; MySQLConn  *)
(* has the calls on a connection that is established.                      *)
(*                                                                         *)
(* A packet stands for all of its bytes.  A large one is written in two    *)
(* chunks.  The definitions of the columns of a result, one packet each,   *)
(* are one element of a sequence here, as many packets as Columns says.    *)
(* comQuit, which Close writes first, has no effect here.                  *)
(***************************************************************************)
EXTENDS Naturals, Sequences, FiniteSets

CONSTANTS
    MaxCalls,    \* bound on the calls of a behaviour
    Columns      \* columns of a result

ASSUME ColumnsAssumption == Columns \in Nat \ {0}

VARIABLES
    mc,       \* sequence, closed, canceled, reset, watching; more: whether status says
              \* that more results exist; tls: whether a TLS connection is wanted
    net,      \* out: packets on their way to the server; wire: those from it; buf:
              \* those the buffer holds; up; faulty: history, whether it has failed
    call,     \* the call: name, n: its number, todo, err: its result ("running" as
              \* long as it runs), plugin: of its authentication
    held,     \* what the caller has: open (rows.mc of its rows is set), done (their
              \* result is read), of (the call they are from); stmt; tx
    watcher,  \* at: where the watcher is; handed: whether it has been handed a context
              \* it has not taken; ctx: the context, "live", "done", "none"
    server    \* done: how many statements of this call it has executed; file: whether
              \* it has asked for a file; refused: whether it has executed one and
              \* refused the next; accepted: whether it has let the client in; switched:
              \* whether it has changed the plugin

vars == <<mc, net, call, held, watcher, server>>

Task(do) == [do |-> do, cmd |-> "none", arg |-> "none", first |-> TRUE, last |-> TRUE]

Writing(cmd, arg) == [Task("write") EXCEPT !.cmd = cmd, !.arg = arg]

Small(cmd) == <<Writing(cmd, "none")>>

(* A packet of 2^24-1 bytes or more. *)
Large(cmd) ==
    <<[Writing(cmd, "none") EXCEPT !.last = FALSE], [Writing(cmd, "none") EXCEPT !.first = FALSE]>>

Doing(do) == call.todo # <<>> /\ Head(call.todo).do = do

(* cleanup: of whoever sets closed first; it closes closech and netConn.   *)
(* What the buffer holds can still be read.                                *)
Closed(m) == [m EXCEPT !.closed = TRUE]

Dropped(n) == [n EXCEPT !.wire = <<>>]

-----------------------------------------------------------------------------
(* The end of a call. *)

Marking == {"Ping", "Exec", "Query", "Prepare", "StmtExec", "StmtQuery", "BeginTx", "Commit"}

(* A failure before anything was written is reported as driver.ErrBadConn, *)
(* upon which database/sql tries again.                                    *)
MarkBadConn(name, err) == IF err = "nowrite" /\ name \in Marking THEN "badconn" ELSE err

Watched == {"Connect", "Ping", "Exec", "Query", "Prepare", "StmtExec", "StmtQuery", "BeginTx"}

(* finish is called on return, but for a query that has rows: then Close   *)
(* of the rows calls it.  Prepare looks at its context afterwards.         *)
AtReturn(name, err) ==
    CASE name \in {"Query", "StmtQuery"} /\ err = "nil" -> <<>>
      [] name = "Prepare" /\ err = "nil" -> <<Task("finish"), Task("ctx")>>
      [] name = "Connect" /\ err # "nil" -> <<Task("cleanup"), Task("finish")>>
      [] OTHER -> IF name \in Watched THEN <<Task("finish")>> ELSE <<>>

(* The result of a call that has one already stays (PrepareContext closes *)
(* a statement only to return the error of its context).                   *)
Return(err) ==
    LET e == IF call.err = "running" THEN MarkBadConn(call.name, err) ELSE call.err
    IN  call' = [call EXCEPT !.todo = AtReturn(call.name, e), !.err = e]

Go(todo) == IF todo = <<>> THEN Return("nil") ELSE call' = [call EXCEPT !.todo = todo]

Over == call.todo = <<>>

(* The call whose answer is being read: for rows, the one they are from. *)
Owner == IF call.name \in {"Next", "NextResultSet", "RowsClose"} THEN held.of ELSE call.n

(* The network fails during the last call of a behaviour, or before it. *)
MayFail == call.name = "Connect" \/ call.n + 1 >= MaxCalls + (IF Over THEN 0 ELSE 1)

-----------------------------------------------------------------------------
(* readPacket *)

Reading ==
    {"ok", "any", "header", "eof", "drain", "columns", "row", "prepared", "handshake",
     "authResult", "authResult2", "key", "sysheader", "sysrow"}

(* The buffer is filled with what has arrived: one packet, or all. *)
Arrivals ==
    IF net.buf # <<>>
    THEN {[pkt |-> Head(net.buf), net |-> [net EXCEPT !.buf = Tail(@)]]}
    ELSE {[pkt |-> Head(net.wire),
           net |-> [net EXCEPT !.buf = SubSeq(net.wire, 2, k),
                               !.wire = SubSeq(net.wire, k + 1, Len(net.wire))]] :
             k \in {j \in {1, Len(net.wire)} : net.wire # <<>>}}

NoCheckBug(p) == TRUE

(* The number is of eight bits, and is all that tells packets apart. *)
InSequence(p) == p.seq = mc.sequence

(* ErrPktSync and ErrPktSyncMul: the connection stays open.  Only the      *)
(* header of the packet has been taken off, which makes no difference      *)
(* here: no call follows (Legal in MySQLConn).                             *)
OutOfSync ==
    /\ call.todo # <<>> /\ Head(call.todo).do \in Reading
    /\ \E r \in Arrivals :
          /\ ~InSequence(r.pkt)
          /\ net' = r.net
    /\ Return("sync")
    /\ UNCHANGED <<mc, held, watcher, server>>

RetryReadBug == IF mc.canceled THEN "ctx" ELSE "badconn"

(* The handshake may be tried again without risk. *)
ReadError ==
    CASE mc.canceled -> "ctx"
      [] ~mc.canceled /\ Doing("handshake") -> "badconn"
      [] OTHER -> "invalid"

ReadFails ==
    /\ call.todo # <<>> /\ Head(call.todo).do \in Reading
    /\ net.buf = <<>> /\ (mc.closed \/ (~net.up /\ net.wire = <<>>))
    /\ Return(ReadError)
    /\ mc' = IF mc.canceled THEN mc ELSE Closed(mc)
    /\ net' = Dropped(net)
    /\ UNCHANGED <<held, watcher, server>>

(* Config.ReadTimeout; without it a read waits as long as it takes. *)
ReadTimeout ==
    /\ call.todo # <<>> /\ Head(call.todo).do \in Reading
    /\ net.buf = <<>> /\ net.wire = <<>> /\ ~mc.closed /\ MayFail
    /\ Return(ReadError)
    /\ mc' = IF mc.canceled THEN mc ELSE Closed(mc)
    /\ net' = [net EXCEPT !.faulty = TRUE]
    /\ UNCHANGED <<held, watcher, server>>

-----------------------------------------------------------------------------
(* writePacket *)

(* Commands are put together in the buffer, contents of files are not. *)
Buffered(w) == w.first /\ w.cmd \notin {"content", "empty", "longdata"}

(* A command starts with sequence number 0. *)
Numbered(w) ==
    IF w.first /\ w.cmd \notin {"content", "empty", "ssl", "response", "secret"}
    THEN 0 ELSE mc.sequence

BusyBuffer ==
    /\ Doing("write") /\ Buffered(Head(call.todo)) /\ net.buf # <<>>
    /\ mc' = [mc EXCEPT !.sequence = Numbered(Head(call.todo))]
    /\ Return("nowrite")
    /\ UNCHANGED <<net, held, watcher, server>>

(* ErrPktTooLarge, for statements only: the others are small. *)
TooLarge(w) ==
    /\ w.first /\ w.cmd \in {"query", "prepare", "execute"} /\ call.name # "Connect"
    /\ Return("toolarge")
    /\ UNCHANGED <<mc, net, held>>

(* The first write after ResetSession: is there something to read, or an   *)
(* end?  What has not arrived yet is not seen.                             *)
Stale ==
    /\ mc.reset /\ (mc.closed \/ net.wire # <<>> \/ ~net.up)
    /\ mc' = [Closed(mc) EXCEPT !.reset = FALSE]
    /\ net' = Dropped(net)
    /\ Return("badconn")
    /\ UNCHANGED held

Sent(w) ==
    LET seq == Numbered(w)
    IN  /\ ~mc.closed
        /\ net' = [net EXCEPT !.out =
                     IF net.up /\ w.last
                     THEN Append(@, [cmd |-> w.cmd, arg |-> w.arg, seq |-> seq, of |-> Owner])
                     ELSE @]
        /\ mc' = [mc EXCEPT !.sequence = (seq + 1) % 256, !.reset = FALSE]
        /\ Go(Tail(call.todo))
        /\ UNCHANGED held

(* The request for the server's key is the one whose error is ignored.     *)
Fails(err) ==
    IF Len(call.todo) > 1 /\ call.todo[2].do = "key" THEN Go(Tail(call.todo)) ELSE Return(err)

(* An error with nothing written (on any chunk: see the README), and one   *)
(* with a part of the packet written.                                      *)
NothingWritten ==
    /\ (mc.closed /\ ~mc.reset) \/ (~mc.closed /\ ~net.up)
    /\ mc' = [mc EXCEPT !.reset = FALSE]
    /\ Fails(IF mc.canceled THEN "ctx" ELSE "nowrite")
    /\ UNCHANGED <<net, held>>

PartWritten ==
    /\ ~net.up /\ ~mc.closed
    /\ mc' = IF mc.canceled THEN mc ELSE [Closed(mc) EXCEPT !.reset = FALSE]
    /\ net' = IF mc.canceled THEN net ELSE Dropped(net)
    /\ Fails(IF mc.canceled THEN "ctx" ELSE "invalid")
    /\ UNCHANGED held

Write ==
    /\ Doing("write") /\ ~(Buffered(Head(call.todo)) /\ net.buf # <<>>)
    /\ LET w == Head(call.todo)
       IN  TooLarge(w) \/ Stale \/ Sent(w) \/ NothingWritten \/ PartWritten
    /\ UNCHANGED <<watcher, server>>

-----------------------------------------------------------------------------
(* The watcher goroutine and the contexts it watches. *)

(* watchCancel returns, with the new watcher and connection: a context     *)
(* that is done already is not watched, nor one that cannot be done; when  *)
(* mc.watching is set the connection is taken for canceled.                *)
WatchCancel(c) ==
    IF mc.watching THEN [mc |-> Closed(mc), watcher |-> watcher, net |-> Dropped(net)]
    ELSE IF c = "live"
    THEN [mc |-> [mc EXCEPT !.watching = TRUE], net |-> net,
          watcher |-> [watcher EXCEPT !.handed = TRUE, !.ctx = "live"]]
    ELSE [mc |-> mc, net |-> net, watcher |-> [watcher EXCEPT !.ctx = c]]

(* finish: meets the watcher, or finds closech closed. *)
Finish ==
    /\ Doing("finish")
    /\ \/ ~mc.watching /\ UNCHANGED <<mc, watcher>>
       \/ /\ mc.watching /\ watcher.at = "armed"
          /\ watcher' = [watcher EXCEPT !.at = "select"]
          /\ mc' = [mc EXCEPT !.watching = FALSE]
       \/ mc.watching /\ mc.closed /\ UNCHANGED <<mc, watcher>>
    /\ call' = [call EXCEPT !.todo = Tail(@)]
    /\ UNCHANGED <<net, held, server>>

WatcherTakes ==
    /\ watcher.at = "select" /\ watcher.handed
    /\ watcher' = [watcher EXCEPT !.at = "armed", !.handed = FALSE]
    /\ UNCHANGED <<mc, net, call, held, server>>

DeafBug == mc.closed /\ watcher.at = "select"

HearsClose == mc.closed /\ watcher.at \in {"select", "armed"}

WatcherEnds ==
    /\ HearsClose
    /\ watcher' = [watcher EXCEPT !.at = "ended"]
    /\ UNCHANGED <<mc, net, call, held, server>>

(* cancel: the error first, then cleanup. *)
WatcherSees ==
    /\ watcher.at = "armed" /\ watcher.ctx = "done"
    /\ watcher' = [watcher EXCEPT !.at = "cancel"]
    /\ mc' = [mc EXCEPT !.canceled = TRUE]
    /\ UNCHANGED <<net, call, held, server>>

OnlySetBug ==
    /\ watcher.at = "cancel"
    /\ watcher' = [watcher EXCEPT !.at = "select"]
    /\ UNCHANGED <<mc, net, call, held, server>>

WatcherCloses ==
    /\ watcher.at = "cancel"
    /\ watcher' = [watcher EXCEPT !.at = "select"]
    /\ mc' = Closed(mc)
    /\ net' = IF mc.closed THEN net ELSE Dropped(net)
    /\ UNCHANGED <<call, held, server>>

Watcher == WatcherTakes \/ WatcherEnds \/ WatcherSees \/ WatcherCloses

(* Environment: the context is canceled; the connection breaks, with a     *)
(* part of what is on its way lost.                                        *)
CancelContext ==
    /\ watcher.ctx = "live" /\ (mc.watching \/ Doing("ctx"))
    /\ watcher' = [watcher EXCEPT !.ctx = "done"]
    /\ UNCHANGED <<mc, net, call, held, server>>

Break ==
    /\ net.up /\ MayFail
    /\ \E k \in 0..Len(net.wire), out \in {net.out, <<>>} :
          net' = [net EXCEPT !.up = FALSE, !.faulty = TRUE,
                             !.wire = SubSeq(@, 1, k), !.out = out]
    /\ UNCHANGED <<mc, call, held, watcher, server>>

-----------------------------------------------------------------------------
(* Connecting: connector.Connect with the handshake and the authentication *)
(* of auth.go, and the server's side of it.  Scrambles, keys and passwords *)
(* are opaque: "scramble", "clear", "encrypted".                           *)

VARIABLES conf   \* tls, allow, pubKey, max and params of the Config

connectVars == <<vars, conf>>

(* Not every combination, to spare states. *)
Configs ==
    {c \in [tls : {"none", "preferred", "required"},     \* "none" also on a unix socket
            allow : {{"native", "clear"}, {"old"}},
            pubKey : BOOLEAN,                            \* ServerPubKey is registered
            max : BOOLEAN, params : 0..1] :
        c.max = (c.params = 0) /\ (c.tls = "none" \/ (c.pubKey = c.max))}

Plugins == {"native", "old", "clear", "sha256", "caching"}

(* auth: what is sent for a plugin first. *)
Auth(plugin, tls) ==
    CASE plugin = "caching" -> "scramble"
      [] plugin \in {"old", "native"} /\ plugin \in conf.allow -> "scramble"
      [] plugin = "clear" /\ plugin \in conf.allow -> "clear"
      [] plugin = "sha256" /\ tls -> "clear"
      [] plugin = "sha256" /\ ~tls /\ conf.pubKey -> "encrypted"
      [] plugin = "sha256" /\ ~tls /\ ~conf.pubKey -> "requestKey"
      [] OTHER -> "refused"

(* After the authentication: getSystemVar unless MaxAllowedPacket is set,  *)
(* and handleParams.                                                       *)
Setup ==
    (IF conf.max THEN <<>> ELSE Small("query") \o <<Task("sysheader")>>)
    \o (IF conf.params = 0 THEN <<>> ELSE Small("query") \o <<Task("header"), Task("discard")>>)

(* "preferred" does without TLS where the server has none. *)
Encrypted(p) == conf.tls # "none" /\ p.flag

Login(plugin, tls) ==
    call' = [call EXCEPT !.plugin = plugin, !.todo =
               (IF tls THEN <<Writing("ssl", "none"), Task("tls")>> ELSE <<>>)
               \o <<Writing("response", Auth(plugin, tls)), Task("authResult")>>]

(* readHandshakePacket and the rest of Connect up to the response: with    *)
(* the default plugin where the server's is refused.                       *)
Handshake(p) ==
    LET wanted == IF p.arg = "none" THEN "native" ELSE p.arg
    IN  CASE p.kind # "handshake" -> Return("mysql")
          [] p.kind = "handshake" /\ ~p.flag /\ conf.tls = "required" -> Return("notls")
          [] OTHER ->
               IF Auth(wanted, Encrypted(p)) # "refused" THEN Login(wanted, Encrypted(p))
               ELSE IF Auth("native", Encrypted(p)) # "refused" THEN Login("native", Encrypted(p))
               ELSE Return("plugin")

ForgetOkBug(data) == Setup

FullIsDoneBug(data) == IF data = "fast" THEN <<Task("ok")>> \o Setup ELSE Setup

(* handleAuthResult after the last result: what is left to do for the data *)
(* the server has sent.                                                    *)
CachingSha2(data) ==
    CASE data = "none" -> Setup
      [] data = "fast" -> <<Task("ok")>> \o Setup
      [] data = "full" /\ mc.tls -> <<Writing("secret", "clear"), Task("ok")>> \o Setup
      [] data = "full" /\ ~mc.tls /\ conf.pubKey ->
            <<Writing("secret", "encrypted"), Task("ok")>> \o Setup
      [] OTHER -> <<Writing("secret", "requestKey"), Task("key"),
                    Writing("secret", "encrypted"), Task("ok")>> \o Setup

Authenticated(plugin, data) ==
    CASE plugin = "caching" -> Go(CachingSha2(data))
      [] plugin = "sha256" /\ data # "none" ->
            Go(<<Writing("secret", "encrypted"), Task("ok")>> \o Setup)
      [] OTHER -> Go(Setup)

MaySwitch(p, first) == first /\ Auth(p.arg, mc.tls) # "refused"

(* readAuthResult, the first and, after a change of plugin, the second. *)
AuthResult(p, first) ==
    CASE p.kind = "ok" -> Authenticated(call.plugin, "none")
      [] p.kind = "more" -> Authenticated(call.plugin, p.arg)
      [] p.kind = "switch" /\ MaySwitch(p, first) ->
            call' = [call EXCEPT !.plugin = p.arg,
                       !.todo = <<Writing("secret", Auth(p.arg, mc.tls)), Task("authResult2")>>]
      [] p.kind = "switch" /\ ~MaySwitch(p, first) -> Return("plugin")
      [] OTHER -> Return("mysql")

(* The TLS handshake between the two halves of the response. *)
TLSHandshake ==
    /\ Doing("tls")
    /\ \/ Go(Tail(call.todo))
       \/ Return("tls")
    /\ UNCHANGED <<mc, net, held, watcher, server, conf>>

(* getSystemVar: header, column, and a row between two EOF packets. *)
SystemVar(p) ==
    IF Doing("sysheader") /\ p.kind = "result"
    THEN Go(<<Task("eof"), Task("sysrow"), Task("eof")>> \o Tail(call.todo))
    ELSE IF Doing("sysrow") /\ p.kind = "row" THEN Go(Tail(call.todo))
    ELSE Return("mysql")

ConnectReads(p) ==
    CASE Doing("handshake") -> Handshake(p)
      [] Doing("authResult") -> AuthResult(p, TRUE)
      [] Doing("authResult2") -> AuthResult(p, FALSE)
      [] Doing("key") -> Go(Tail(call.todo))
      [] OTHER -> SystemVar(p)

(* Connect fails: cleanup, or Close, before it returns. *)
Cleanup ==
    /\ Doing("cleanup")
    /\ mc' = Closed(mc) /\ net' = Dropped(net)
    /\ call' = [call EXCEPT !.todo = Tail(@)]
    /\ UNCHANGED <<held, watcher, server, conf>>

-----------------------------------------------------------------------------
(* The server: what it may send first, and in answer to a packet of the    *)
(* client.  It changes the plugin once, as the protocol has it.            *)

Packet(kind, arg) == [kind |-> kind, arg |-> arg, flag |-> FALSE, seq |-> 0, of |-> 0]

Greeting(kind, arg, flag) == <<[Packet(kind, arg) EXCEPT !.flag = flag, !.of = 1]>>

Greetings ==
    {Greeting("handshake", p, f) : p \in Plugins \cup {"none"}, f \in BOOLEAN}
    \cup {Greeting("err", "none", FALSE)}

(* How many packets p stands for. *)
Span(p) == IF p.kind = "field" THEN Columns ELSE 1

(* Definitions of columns before packet i. *)
Fields(answer, i) == Cardinality({j \in 1..(i - 1) : answer[j].kind = "field"})

(* The answer to command c: its numbers follow the command's. *)
Number(answer, seq, i) == (seq + i + (Columns - 1) * Fields(answer, i)) % 256

Numbering(answer, c) ==
    [i \in DOMAIN answer |->
        [answer[i] EXCEPT !.seq = Number(answer, c.seq, i), !.of = c.of]]

Verdicts == {<<Packet("ok", "none")>>, <<Packet("err", "none")>>}

(* Answers to an authentication with plugin p in the form f. *)
AuthAnswers(p, f) ==
    CASE f = "requestKey" /\ p = "sha256" -> {<<Packet("more", "key")>>, <<Packet("err", "none")>>}
      [] f = "requestKey" /\ p = "caching" -> {<<Packet("key", "none")>>}
      [] f = "scramble" /\ p = "caching" ->
            Verdicts \cup {<<Packet("more", "fast"), Packet("ok", "none")>>, <<Packet("more", "full")>>}
      [] OTHER -> Verdicts

Switches(seen) ==
    IF server.switched \/ seen # "response" THEN {}
    ELSE {<<Packet("switch", p)>> : p \in Plugins}

ServerAuthenticates(c) ==
    \E answer \in AuthAnswers(call.plugin, c.arg) \cup Switches(c.cmd) :
        /\ server' = [server EXCEPT !.accepted = @ \/ answer[Len(answer)].kind = "ok",
                                   !.switched = @ \/ answer[1].kind = "switch"]
        /\ net' = [net EXCEPT !.out = Tail(@), !.wire =
                     IF net.up /\ ~mc.closed THEN @ \o Numbering(answer, c) ELSE @]
=============================================================================
