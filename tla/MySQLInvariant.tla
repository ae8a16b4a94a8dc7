--------------------------- MODULE MySQLInvariant ---------------------------
(***************************************************************************)
(* Inductive invariants of MySQLConn.                                      *)
(*                                                                         *)
(* LoginInv is the one behind ConnectIsAccepted.  What makes Connect       *)
(* succeed is that its list of tasks becomes empty; the invariant says     *)
(* that as long as the server has not accepted there is a task in it that  *)
(* only an OK packet gets past, and that no such packet, nor a first half  *)
(* of an answer that would be taken for one, is there.                     *)
(*                                                                         *)
(* PooledInv and SoloInv are the ones behind OwnAnswers.  PooledInv says   *)
(* what is under way on a connection of the pool, by what the call that    *)
(* uses it still has to do: it relates the tasks that are left, the        *)
(* packets of the commands and of the answers, the rows that are held,     *)
(* the sequence number and the watcher.                                    *)
(*                                                                         *)
(* RetryInv, with these two, is the one behind RetryIsSafeOtherwise: it    *)
(* says for each place in a call what the server may have done for it.     *)
(*                                                                         *)
(* ContentInv and SetupInv, with the others, are the ones behind InSync.   *)
(* ContentInv says that what is written of a file is followed by the       *)
(* packet that ends it; SetupInv relates the tasks that Connect has left   *)
(* to what a server that has accepted has still to send.                   *)
(***************************************************************************)
EXTENDS MySQLConn

Tasks ==
    Reading \cup {"write", "tls", "cleanup", "finish", "ctx", "open", "buffer", "discard",
                  "next", "nextResult", "more", "closeRows"}

Commands ==
    {"none", "ssl", "response", "secret", "query", "prepare", "execute", "ping", "session",
     "commit", "stmtClose", "longdata", "content", "empty"}

Forms == {"none", "scramble", "clear", "encrypted", "requestKey", "refused"}

Kinds ==
    {"handshake", "ok", "err", "more", "key", "switch", "result", "field", "column", "eof", "row",
     "file", "readonly", "prep0", "prep1", "prep2"}

Errors ==
    {"running", "nil", "end", "nowrite", "badconn", "invalid", "sync", "toolarge", "ctx",
     "early", "mysql", "notls", "plugin", "tls", "file"}

Subjects == Plugins \cup {"none", "key", "fast", "full"}

TaskType ==
    [do : Tasks, cmd : Commands, arg : Forms, first : BOOLEAN, last : BOOLEAN]

CommandType == [cmd : Commands, arg : Forms, seq : Nat, of : Nat]

PacketType ==
    [kind : Kinds, arg : Subjects, flag : BOOLEAN, seq : Nat, of : Nat]

ConnType ==
    [sequence : Nat, closed : BOOLEAN, canceled : BOOLEAN, reset : BOOLEAN,
     watching : BOOLEAN, more : BOOLEAN, tls : BOOLEAN]

NetType ==
    [out : Seq(CommandType), wire : Seq(PacketType), buf : Seq(PacketType),
     up : BOOLEAN, faulty : BOOLEAN]

CallType ==
    [name : Names \cup {"new", "pooled"}, n : Nat, todo : Seq(TaskType), err : Errors,
     plugin : Subjects]

HeldType == [open : BOOLEAN, done : BOOLEAN, of : Nat, stmt : BOOLEAN, tx : BOOLEAN]

WatcherType ==
    [at : {"select", "armed", "cancel", "ended"}, handed : BOOLEAN,
     ctx : {"none", "live", "done"}]

ServerType ==
    [done : Nat, file : BOOLEAN, refused : BOOLEAN, accepted : BOOLEAN, switched : BOOLEAN]

TypeOK ==
    /\ mc \in ConnType
    /\ net \in NetType
    /\ call \in CallType
    /\ held \in HeldType
    /\ watcher \in WatcherType
    /\ server \in ServerType
    /\ conf \in Configs

(* The reads of the login, of which all but the server's key ask whether   *)
(* it accepts.                                                             *)
Gates == {"handshake", "authResult", "authResult2", "ok"}

LoginReads == Gates \cup {"key"}

(* There is a gate, behind nothing but writes of the login and the         *)
(* TLS handshake, and each answer is read before the next write.           *)
Gated(todo) ==
    \E i \in 1..Len(todo) :
        /\ todo[i].do \in Gates
        /\ \A j \in 1..(i - 1) :
              \/ todo[j].do \in {"tls", "key"}
              \/ todo[j].do = "write" /\ todo[j].cmd = "ssl"
              \/ /\ todo[j].do = "write" /\ todo[j].cmd \in {"response", "secret"}
                 /\ todo[j + 1].do \in LoginReads

(* One packet of the login is under way, or its answer; none is when the   *)
(* next task is not to read.                                               *)
OneExchange ==
    /\ net.buf = <<>> /\ Len(net.wire) <= 1
    /\ net.wire # <<>> => net.out = <<>>
    /\ \A i \in 1..Len(net.out) :
          /\ net.out[i].cmd \in {"ssl", "response", "secret"}
          /\ i # Len(net.out) => net.out[i].cmd = "ssl"
    /\ Head(call.todo).do \notin LoginReads =>
          /\ net.wire = <<>>
          /\ \A i \in 1..Len(net.out) : net.out[i].cmd = "ssl"

(* What a server that has not accepted may have sent: never OK, and the    *)
(* first half of an answer only to the plugin that asks for the second.    *)
NotAccepting(p) ==
    /\ p.kind # "ok"
    /\ p.kind = "more" =>
          \/ p.arg = "key" /\ call.plugin = "sha256"
          \/ p.arg = "full" /\ call.plugin = "caching"

LoginInv ==
    ~server.accepted =>
        /\ call.name \in {"new", "Connect"}
        /\ call.name = "new" =>
              /\ call.todo = <<>> /\ call.err = "running"
              /\ net.buf = <<>> /\ Len(net.wire) <= 1 /\ net.out = <<>>
              /\ \A i \in 1..Len(net.wire) : net.wire[i].kind \in {"handshake", "err"}
        /\ call.name = "Connect" =>
              /\ call.err # "nil"
              /\ call.err = "running" =>
                    /\ Gated(call.todo)
                    /\ OneExchange
                    /\ \A i \in 1..Len(net.wire) : NotAccepting(net.wire[i])
-----------------------------------------------------------------------------
(* A connection of the pool: what is between the call and the server.      *)
(* Connect is the only call of its behaviours, so it is left out.          *)

Pooled == call.name \notin {"new", "Connect"}

Runs(c) == c.todo # <<>> /\ c.err = "running"

Running == Runs(call)

(* What is left to do, one task after the other; "none" after the last.    *)
None == Task("none")

At(todo, i) == IF i \in 1..Len(todo) THEN todo[i] ELSE None

First == At(call.todo, 1)

(* A command is followed by the read of its answer; a packet of an answer  *)
(* by the read of the next, or by what looks whether there is one.         *)
WriteLeads(name, t, u) ==
    /\ t.cmd = "query" =>
          /\ name \in {"Exec", "Query"}
          /\ IF t.last THEN u.do = "header"
             ELSE t.first /\ u.do = "write" /\ u.cmd = "query" /\ u.last /\ ~u.first
    /\ t.cmd # "query" => t.first /\ t.last
    /\ t.cmd = "execute" => u.do = "header" /\ name \in {"StmtExec", "StmtQuery"}
    /\ t.cmd = "session" => u.do = "header" /\ name = "BeginTx"
    /\ t.cmd = "commit" => u.do = "header" /\ name = "Commit"
    /\ t.cmd = "prepare" => u.do = "prepared" /\ name = "Prepare"
    /\ t.cmd = "ping" => u.do = "ok" /\ name = "Ping"
    /\ t.cmd = "longdata" => u.do = "write" /\ u.cmd = "execute"
    /\ t.cmd = "content" => u.do = "write" /\ u.cmd = "empty"
    /\ t.cmd = "empty" => u.do \in {"ok", "any"} /\ name \notin {"Ping", "Prepare"}
    /\ t.cmd = "stmtClose" => u.do = "none" /\ name \in {"StmtClose", "Prepare"}
    /\ t.cmd \in {"query", "execute", "session", "commit", "prepare", "ping", "longdata",
                  "content", "empty", "stmtClose"}

(* What is sent for a statement that loads a file; a prepared one does not. *)
IsFile(t) == t.do = "write" /\ t.cmd \in {"content", "empty"}

Starts(u) == u.do = "write" /\ u.first /\ u.cmd \notin {"content", "empty"}

Leads(name, t, u, v) ==
    /\ t.do \in {"open", "buffer", "write", "ok", "any", "header", "eof", "drain", "columns", "row",
                 "prepared", "discard", "next", "nextResult", "more", "closeRows", "finish", "ctx"}
    /\ t.do = "write" => WriteLeads(name, t, u)
    /\ t.do = "open" => Starts(u) \/ u.do = "buffer"
    /\ t.do = "buffer" => Starts(u)
    /\ t.do = "ok" =>
          u.do = IF name = "Ping" THEN "none" ELSE IF name \in QueryLike THEN "nextResult" ELSE "discard"
    /\ t.do = "header" =>
          /\ u.do = IF name \in QueryLike THEN "none" ELSE "discard"
          /\ name \notin {"Ping", "Prepare", "Next"}
    /\ t.do = "eof" =>
          IF name = "Prepare" THEN u.do \in {"eof", "none"} /\ v.do = "none"
          ELSE u.do = "discard" \/ (u.do = "eof" /\ v.do = "discard")
    /\ t.do = "discard" =>
          /\ u.do = "none" \/ (u.do = "open" /\ name = "BeginTx")
          /\ name \notin QueryLike \cup {"Ping", "Prepare", "Next"}
    /\ t.do = "drain" => u.do = "more"
    /\ t.do \in {"any", "columns", "row", "prepared", "next", "nextResult", "more", "closeRows", "ctx"} =>
          u.do = "none"
    /\ t.do \in {"prepared", "ctx"} => name = "Prepare"
    /\ t.do \in {"columns", "nextResult", "drain", "more"} => name \in QueryLike
    /\ t.do \in {"drain", "more"} => name # "StmtQuery"
    /\ t.do \in {"next", "row"} => name = "Next"
    /\ t.do = "closeRows" => name = "RowsClose"
    /\ t.do = "finish" =>
          IF name = "RowsClose" THEN u.do = "closeRows"
          ELSE u.do = "none" \/ (u.do = "ctx" /\ name = "Prepare")
    /\ t.do = "ok" \/ IsFile(t) => name # "StmtQuery"

Shape(name, todo) ==
    \A i \in 1..Len(todo) : Leads(name, todo[i], At(todo, i + 1), At(todo, i + 2))

(* The call whose answer call c reads.                                     *)
OwnerOf(c, h) == IF c.name \in RowCalls THEN h.of ELSE c.n

(* The rows a task is about are those of the call, and held as the task    *)
(* expects; a new command comes when they are not.  A call that has its    *)
(* result does nothing but finish.                                         *)
Sends(t) == t.do \in {"open", "buffer", "write"} /\ ~IsFile(t)

Ready(c, h, t) ==
    /\ t.do \in {"columns", "drain", "row"} => h.of = OwnerOf(c, h) /\ h.open /\ ~h.done
    /\ t.do = "more" => h.of = OwnerOf(c, h) /\ h.open
    /\ t.do = "nextResult" => h.of = OwnerOf(c, h) /\ (c.name = "StmtQuery" => ~h.open)
    /\ t.do = "header" /\ h.of = OwnerOf(c, h) /\ c.name \in QueryLike => h.open /\ c.name # "StmtQuery"
    /\ t.do = "next" => ~h.done
    /\ t.do = "ok" /\ c.name \in QueryLike =>
          h.done /\ (IF c.name = "StmtQuery" THEN ~h.open ELSE h.open)
    /\ Sends(t) => h.of # OwnerOf(c, h) \/ c.err # "running"
    /\ t.do = "ctx" => c.err = "nil"
    /\ t.do = "finish" /\ c.name # "RowsClose" => c.err # "running"
    /\ t.do = "write" /\ t.cmd = "stmtClose" /\ c.name = "Prepare" => c.err # "running"
    /\ c.err # "running" =>
          t.do \in {"finish", "ctx"} \/ (c.name = "Prepare" /\ t.do = "write" /\ t.cmd = "stmtClose")

Sound(c, h, todo) ==
    /\ Shape(c.name, todo)
    /\ \A i \in 1..Len(todo) : Ready(c, h, todo[i])

TasksInv ==
    /\ IF call.name = "pooled" THEN call.todo = <<>> /\ call.err = "running" /\ call.n = 0
       ELSE call.n # 0
    /\ held.of <= call.n
    /\ held.of = call.n /\ call.n # 0 => call.name \in {"Query", "StmtQuery"}
    /\ call.name \in RowCalls => held.of # 0
    /\ Sound(call, held, call.todo)

(* The watcher is handed a context by a call that takes it back: on        *)
(* return, or for rows when they are closed.                               *)
WatchInv ==
    /\ (watcher.at = "armed" \/ watcher.handed) /\ ~mc.closed => mc.watching
    /\ watcher.at = "armed" /\ ~mc.closed => ~watcher.handed
    /\ mc.canceled /\ ~mc.closed => mc.watching /\ watcher.at = "cancel"
    /\ mc.watching /\ ~mc.closed =>
          \/ \E i \in 1..Len(call.todo) : call.todo[i].do = "finish"
          \/ Running /\ call.name \in Watched
          \/ HasRows

-----------------------------------------------------------------------------
(* What has arrived or is under way to the client.                         *)

Stream == net.buf \o net.wire

(* Nothing but, at most, the error of a server that has closed the         *)
(* connection.                                                             *)
Idle(s) == s # <<>> => s[1].of = 0

NextKinds == {"ok", "err", "result", "file", "readonly"}

(* In the answer to a command, packet q comes after packet p.              *)
Follows(p, q) ==
    \/ q.of = 0
    \/ /\ q.seq = p.seq + Span(p)
       /\ \/ p.kind \in {"ok", "eof"} /\ p.flag /\ q.kind \in NextKinds
          \/ p.kind = "result" /\ q.kind = "field"
          \/ p.kind = "field" /\ q.kind = "eof" /\ ~q.flag
          \/ p.kind = "row" /\ q.kind \in {"row", "eof", "err"}
          \/ p.kind = "eof" /\ ~p.flag /\ q.kind \in {"row", "eof", "err"}

(* The rows end with the EOF that is not the one of the columns.           *)
Orderly(s) ==
    /\ \A i \in 1..(Len(s) - 1) : Follows(s[i], s[i + 1])
    /\ \A i \in 1..(Len(s) - 2) :
          s[i].kind \in {"row", "eof"} /\ s[i + 1].kind = "eof" /\ ~s[i + 1].flag => s[i + 2].of = 0

(* The next packet is the first of a result, or one of its columns, ...    *)
AtHeader(c, s) ==
    \/ Idle(s)
    \/ /\ s[1].seq >= 1 /\ s[1].kind \in NextKinds
       /\ c.name = "StmtQuery" => s[1].kind # "file" /\ (s[1].kind = "ok" => ~s[1].flag)

AtColumns(s) ==
    \/ Idle(s)
    \/ s[1].kind = "field" /\ s[1].seq >= 2
    \/ s[1].kind = "eof" /\ ~s[1].flag /\ s[1].seq >= 3

AtRows(s) ==
    \/ Idle(s)
    \/ /\ s[1].seq >= 4
       /\ s[1].kind \in {"row", "err", "eof"}
       /\ s[1].kind = "eof" /\ ~s[1].flag => Idle(Tail(s))

AtOk(c, s) ==
    \/ Idle(s)
    \/ s[1].kind \in {"ok", "err"} /\ (c.name = "Ping" => ~s[1].flag)

MoreAt(m, s) == Idle(s) \/ (s[1].kind \in NextKinds /\ m.more)

(* The parameters and columns of a statement, as many lists as are asked   *)
(* for, each of one packet and an EOF packet.                              *)
Listing(s, lists) ==
    s # <<>> =>
        LET k == IF s[1].kind = "field" THEN 2 * lists ELSE 2 * lists - 1
        IN  \A i \in 1..Len(s) :
                s[i].of = 0 \/ (i <= k /\ s[i].kind = IF k - i \in {1, 3} THEN "field" ELSE "eof")

AtPrepared(s) ==
    \/ Idle(s)
    \/ s[1].kind \in {"err", "prep0"} /\ Idle(Tail(s))
    \/ s[1].kind = "prep1" /\ Listing(Tail(s), 1)
    \/ s[1].kind = "prep2" /\ Listing(Tail(s), 2)

(* What is left of the rows h.                                             *)
RowsLeft(h, m, s) ==
    IF ~h.open THEN Idle(s) ELSE IF h.done THEN MoreAt(m, s) ELSE AtRows(s)

(* What the task that is next has in front of it.                          *)
Phase(c, s) ==
    LET do == At(c.todo, 1).do
    IN  /\ do = "header" => AtHeader(c, s)
        /\ do = "columns" => AtColumns(s)
        /\ do = "eof" => IF At(c.todo, 2).do = "eof" THEN AtColumns(s) ELSE AtRows(s)
        /\ do \in {"drain", "row"} => AtRows(s)
        /\ do = "ok" => AtOk(c, s)

Expected(c, s) ==
    IF c.name = "Prepare"
    THEN IF At(c.todo, 1).do = "prepared" THEN AtPrepared(s) ELSE Listing(s, Len(c.todo))
    ELSE Orderly(s) /\ Phase(c, s)

Of(s, n) == \A i \in 1..Len(s) : s[i].of \in {0, n}

(* Commands of which the server has an answer to send, and the task that   *)
(* reads it.                                                               *)
Asks(a) == a.cmd \notin {"stmtClose", "longdata", "content"}

Silent(o) == \A i \in 1..Len(o) : ~Asks(o[i])

Awaits(name, do, cmd) ==
    \/ do = "header" /\ cmd = "execute" /\ name \notin RowCalls
    \/ do = "header" /\ cmd \in {"query", "session", "commit"} /\ name \notin RowCalls \cup {"StmtQuery"}
    \/ do = "ok" /\ cmd = IF name = "Ping" THEN "ping" ELSE "empty"
    \/ do = "any" /\ cmd = "empty" /\ name # "Prepare"
    \/ do = "prepared" /\ cmd = "prepare"

(* One command is under way, and it is the one whose answer is read.       *)
Alone(c, h, o) ==
    /\ \A i, j \in 1..Len(o) : Asks(o[i]) /\ Asks(o[j]) => i = j
    /\ \A i \in 1..Len(o) :
          Asks(o[i]) => o[i].of = OwnerOf(c, h) /\ Awaits(c.name, At(c.todo, 1).do, o[i].cmd)

(* Rows that somebody has left on the connection are in front.             *)
Blocked(c, h, m, s) ==
    /\ s # <<>> /\ s[1].of \notin {0, OwnerOf(c, h)}
    /\ s[1].seq >= 4 /\ m.sequence \in {1, 2}

(* What there is while nothing is awaited: what is left of the rows held.  *)
Rest(c, h, m, s) ==
    IF h.of = 0 THEN Idle(s)
    ELSE /\ Of(s, h.of) /\ Orderly(s) /\ RowsLeft(h, m, s)
         /\ Idle(s) \/ s[1].seq >= 4 \/ (Runs(c) /\ h.of = OwnerOf(c, h))

(* A cancellation is under way: nothing will be read any more.             *)
Lost(c, m) ==
    \/ m.closed
    \/ m.canceled /\ (c.err = "ctx" \/ c.name = "StmtClose"
                       \/ (c.name = "RowsClose" /\ At(c.todo, 1).do = "finish"))

Rows(c, h) ==
    /\ h.of # 0 /\ c.name # "RowsClose"
    /\ c.name \in {"Query", "StmtQuery"} /\ h.of = c.n => c.err = "nil"

Reports(c) == c.err \in {"running", "nil", "end", "toolarge", "ctx", "mysql"}

Marked(s, up) == \A i \in 1..Len(s) : s[i].of = 0 => i = Len(s) /\ s[i].seq = 0 /\ ~up

Reads(c, h, m, o, s) ==
    /\ Alone(c, h, o)
    /\ \/ Blocked(c, h, m, s)
       \/ Of(s, OwnerOf(c, h)) /\ Expected(c, s) /\ (Silent(o) \/ s = <<>>)

Looks(c, h, m, o, s) == Silent(o) /\ Of(s, OwnerOf(c, h)) /\ Orderly(s) /\ MoreAt(m, s)

Starting == {"open", "buffer", "next", "nextResult", "closeRows", "finish"}

Fits(c, h, m, o, s) ==
    LET t == At(c.todo, 1)
    IN  /\ t.do \in Reading => Reads(c, h, m, o, s)
        /\ t.do \in {"discard", "more"} => Looks(c, h, m, o, s)
        /\ IsFile(t) => Silent(o) /\ Idle(s)
        /\ Runs(c) /\ ~Lost(c, m) /\ (t.do \in Starting \/ (t.do = "write" /\ ~IsFile(t))) =>
              /\ Silent(o) /\ Rest(c, h, m, s)
              /\ t.do = "write" /\ ~t.first => m.sequence = 1
        /\ ~Runs(c) /\ Reports(c) /\ ~Lost(c, m) =>
              Silent(o) /\ IF Rows(c, h) THEN Rest(c, h, m, s) ELSE Idle(s)
        /\ c.name = "Prepare" /\ (c.err = "nil" \/ (t.do = "write" /\ c.err # "running")) =>
              Silent(o) /\ Idle(s)

(* The error of a server that has closed is not in the buffer.             *)
BufferInv ==
    /\ \A i \in 1..Len(net.buf) : net.buf[i].of # 0
    /\ \A i \in 1..Len(net.wire) : net.wire[i].of = 0 => Len(net.wire) = 1

StreamInv ==
    /\ Marked(Stream, net.up) /\ BufferInv
    /\ Fits(call, held, mc, net.out, Stream)

(* Sequence numbers stay small, so that none but a new command starts at   *)
(* 0 again: an answer is at most two results, of 25 columns or fewer.      *)
NumbersInv ==
    /\ Columns <= 25 /\ mc.sequence <= 240
    /\ \A i \in 1..Len(net.out) :
          /\ net.out[i].of # 0 /\ net.out[i].cmd \notin {"ssl", "response", "secret"}
          /\ Asks(net.out[i]) => net.out[i].seq <= IF net.out[i].cmd = "empty" THEN 112 ELSE 1
    /\ \A i \in 1..Len(Stream) :
          Stream[i].of # 0 =>
              Stream[i].seq \in 1..210 /\ (Stream[i].kind = "file" => Stream[i].seq <= 110)
    /\ IsFile(First) => mc.sequence <= IF First.cmd = "content" THEN 111 ELSE 112
    /\ First.do \in Reading \cup {"discard", "more"} => mc.sequence >= 1
    /\ held.of # 0 /\ Reported /\ ~mc.closed => mc.sequence >= 1

(* A connection of the pool. *)
PooledInv == Pooled => TasksInv /\ WatchInv /\ StreamInv /\ NumbersInv

-----------------------------------------------------------------------------
(* A connection that is made: there is only one call, and all there is is  *)
(* of it.                                                                  *)
OfConnect(s) == \A i \in 1..Len(s) : s[i].of = 1 /\ s[i].kind \notin {"readonly", "file", "field"}

LoginCommands == {"ssl", "response", "secret", "query"}

LoginTasks ==
    {"ok", "header", "eof", "authResult", "authResult2", "key", "sysheader", "sysrow", "write",
     "tls", "discard", "cleanup", "finish"}

OfLogin(t) == t.do \in LoginTasks /\ (t.do = "write" => t.cmd \in LoginCommands)

AllLogin(todo) == \A i \in 1..Len(todo) : OfLogin(todo[i])

Ending(todo) == \A i \in 1..Len(todo) : todo[i].do \in {"cleanup", "finish"}

NothingYet == net.out = <<>> /\ server.done = 0

(* Connect is its only call, and until it has read the handshake it sends  *)
(* nothing.                                                                *)
SoloInv ==
    ~Pooled =>
        /\ call.n = IF call.name = "new" THEN 0 ELSE 1
        /\ OfConnect(net.buf) /\ OfConnect(net.wire)
        /\ \A i \in 1..Len(net.out) : net.out[i].of = 1 /\ net.out[i].cmd \in LoginCommands
        /\ ~mc.reset /\ held.of = 0
        /\ \/ /\ call.todo = IF call.name = "new" THEN <<>> ELSE <<Task("handshake")>>
              /\ call.err = "running" /\ NothingYet
           \/ call.name = "Connect" /\ AllLogin(call.todo)
        /\ call.err # "running" => Ending(call.todo)
        /\ call.err = "badconn" => NothingYet

(* What is done for a call before it is told to be tried again.            *)

Harmful == {"query", "execute", "commit", "empty"}

Untouched ==
    /\ server.done = 0
    /\ \A i \in 1..Len(net.out) : net.out[i].of = call.n => net.out[i].cmd \notin Harmful

(* Commands and answers are of this call or an earlier.                    *)
PastInv ==
    /\ \A i \in 1..Len(net.out) : net.out[i].of <= call.n
    /\ \A i \in 1..Len(Stream) : Stream[i].of <= call.n

(* The connection is not one that has to be looked at before it is used.   *)
FreshInv ==
    /\ HasRows => ~mc.reset
    /\ Running /\ ~Sends(First) => ~mc.reset

(* A file is asked for.                                                    *)
FileSeen ==
    \/ \E i \in 1..Len(Stream) : Stream[i].kind = "file" /\ Stream[i].of = call.n
    \/ IsFile(First)

(* The call's answer is next, and says somewhere that the server is        *)
(* read-only.                                                              *)
Denied ==
    /\ Stream # <<>> /\ Stream[1].of = call.n
    /\ \E i \in 1..Len(Stream) : Stream[i].kind = "readonly" /\ Stream[i].of = call.n

(* The call will read on.                                                  *)
Answering ==
    First.do \in Reading \cup {"discard", "more"} \/ (First.do = "nextResult" /\ ~mc.closed)

(* While a command is still to be sent nothing has been done; while its    *)
(* answer is read, not before the server takes it or when it refuses it.   *)
TouchInv ==
    /\ call.err = "badconn" => call.name \in RowCalls \/ server.file \/ server.refused \/ Untouched
    /\ call.name \notin RowCalls /\ ~server.file /\ ~server.refused =>
          /\ ~FileSeen
          /\ Answering /\ Denied => server.done = 0
          /\ Running /\ (Sends(First) \/ call.name = "BeginTx") => Untouched
          /\ First.do \in Reading =>
                \A i \in 1..Len(net.out) :
                    net.out[i].of = call.n /\ net.out[i].cmd \in Harmful => server.done = 0

RetryInv == Pooled => PastInv /\ FreshInv /\ TouchInv

-----------------------------------------------------------------------------
(* That nothing is left of a call.  On a connection of the pool PooledInv  *)
(* says it but for the contents of a file, which the server does not       *)
(* answer: they are followed by the empty packet that ends them, or the    *)
(* network is down and nothing will be read.                               *)
Ended(o) ==
    \A i \in 1..Len(o) : o[i].cmd = "content" => \E j \in 1..Len(o) : i < j /\ o[j].cmd = "empty"

ContentInv ==
    Pooled /\ Reports(call) /\ ~Lost(call, mc) =>
        \/ Ended(net.out)
        \/ Running /\ IsFile(First) /\ First.cmd = "empty"
        \/ Running /\ First.do \in {"ok", "any"} /\ ~net.up /\ Idle(Stream)

(* What a connection that is made has still to do: after each task t come  *)
(* u and v.                                                                *)
IsQuery(t) == t.do = "write" /\ t.cmd = "query" /\ t.first /\ t.last

LoginLeads(plugin, t, u, v) ==
    /\ t.do = "write" =>
          \/ t.cmd = "ssl" /\ u.do = "tls"
          \/ t.cmd = "response" /\ u.do = "authResult"
          \/ t.cmd = "secret" /\ u.do \in {"authResult2", "ok"}
          \/ t.cmd = "secret" /\ u.do = "key" /\ t.arg = "requestKey" /\ plugin = "caching"
          \/ IsQuery(t) /\ u.do \in {"sysheader", "header"}
    /\ t.do = "tls" => u.do = "write" /\ u.cmd = "response"
    /\ t.do = "key" => u.do = "write" /\ u.cmd = "secret" /\ v.do = "ok" /\ plugin = "caching"
    /\ t.do \in {"handshake", "authResult", "authResult2", "discard"} => u.do = "none"
    /\ t.do = "ok" => u.do = "none" \/ (IsQuery(u) /\ v.do = "sysheader")
    /\ t.do = "sysheader" => IsQuery(u) /\ v.do = "header"
    /\ t.do = "header" => u.do = "discard"
    /\ t.do = "eof" => \/ u.do = "eof" /\ v.do = "discard"
                       \/ u.do = "sysrow"
                       \/ u.do = "discard"
                       \/ IsQuery(u) /\ v.do = "header"
    /\ t.do = "sysrow" => u.do = "eof" /\ IsQuery(v)

LoginShape(plugin, todo) ==
    \A i \in 1..Len(todo) : LoginLeads(plugin, todo[i], At(todo, i + 1), At(todo, i + 2))

(* No packet says that more results follow.                                *)
Flagless(s) == \A i \in 1..Len(s) : s[i].kind \in {"ok", "eof"} => ~s[i].flag

(* The server's key is what is asked for.                                  *)
AsksKey(o) == \A i \in 1..Len(o) : o[i].cmd \in {"response", "secret"} => o[i].arg = "requestKey"

(* The answer of a server that accepts.                                    *)
Accepting(plugin, s) ==
    \/ s = <<>>
    \/ s[1].kind = "ok" /\ Len(s) = 1
    \/ /\ s[1].kind = "more" /\ s[1].arg = "fast" /\ plugin = "caching"
       /\ Len(s) = 1 \/ (Len(s) = 2 /\ s[2].kind = "ok")

(* The answer to a statement, from its packet k on.                        *)
AnswerAt(p, n, only) ==
    /\ p.seq = n /\ n <= 5
    /\ n = 1 => p.kind = "result" \/ (p.kind \in {"ok", "err"} /\ only)
    /\ n = 2 => p.kind = "column"
    /\ n \in {3, 5} => p.kind = "eof"
    /\ n = 4 => p.kind = "row"

Answered(s, k) == \A i \in 1..Len(s) : AnswerAt(s[i], k + i - 1, Len(s) = 1)

(* Where in it the task t is, with u after it.                             *)
Place(t, u, k) ==
    /\ t.do \in {"sysheader", "header"} => k = 1
    /\ t.do = "eof" /\ u.do \in {"eof", "sysrow"} => k \in {2, 3}
    /\ t.do = "eof" /\ u.do = "discard" => k \in {4, 5}
    /\ t.do = "eof" /\ IsQuery(u) => k = 5
    /\ t.do = "sysrow" => k = 4

(* One statement, of which nothing has come back.                          *)
Asked(o, s) == s = <<>> /\ Len(o) = 1 /\ o[1].cmd = "query" /\ o[1].seq = 0

Reached(plugin, t, u, k, o, s) ==
    \/ t.do \in {"authResult", "authResult2", "ok"} /\ o = <<>> /\ Accepting(plugin, s)
    \/ /\ t.do \in {"sysheader", "header", "eof", "sysrow"}
       /\ Place(t, u, k) /\ Answered(s, k)
       /\ o = <<>> \/ (t.do \in {"sysheader", "header"} /\ Asked(o, s))
    \/ (IsQuery(t) \/ t.do = "discard") /\ o = <<>> /\ s = <<>>

(* Connect, from the handshake to the last answer to a statement: a call   *)
(* that succeeds has read everything, one that fails closes the            *)
(* connection.                                                             *)
Succeeding ==
    /\ call.todo # <<>> /\ LoginShape(call.plugin, call.todo)
    /\ ~server.accepted /\ First.do = "key" => AsksKey(net.out)
    /\ server.accepted =>
          Reached(call.plugin, First, At(call.todo, 2), mc.sequence, net.out, Stream)

SetupInv ==
    ~Pooled =>
        /\ ~mc.more /\ Flagless(Stream)
        /\ call.name = "new" => ~server.accepted
        /\ call.name = "Connect" =>
              /\ call.err = "running" => Succeeding
              /\ call.err = "nil" => net.out = <<>> /\ Stream = <<>>
              /\ call.err \notin {"running", "nil", "early"} =>
                    mc.closed \/ \E i \in 1..Len(call.todo) : call.todo[i].do = "cleanup"
=============================================================================
