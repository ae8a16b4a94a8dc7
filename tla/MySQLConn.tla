------------------------------ MODULE MySQLConn ------------------------------
(***************************************************************************)
(* The calls on a connection of the MySQL driver, as database/sql makes    *)
(* them: one at a time; rows are closed before the next call, except       *)
(* within a transaction, where an open query can be followed by another    *)
(* command.  After ErrBadConn database/sql drops the connection; after     *)
(* commands out of sync, or a file that could not be sent, it may go on,   *)
(* but a behaviour of this module ends there.                              *)
(* Rows of results are opaque; LOAD DATA LOCAL sends at most one packet.   *)
(***************************************************************************)
EXTENDS MySQLPackets

connVars == connectVars

QueryLike == {"Query", "StmtQuery", "NextResultSet"}

(* Calls on rows, which database/sql never repeats. *)
RowCalls == {"Next", "NextResultSet", "RowsClose"}

(* What a call writes and reads. *)
Program(name) ==
    CASE name = "Connect" -> {<<Task("handshake")>>}
      [] name = "Ping" -> {<<Writing("ping", "none"), Task("ok")>>}
      [] name = "Exec" -> {<<Task("open")>> \o w \o <<Task("header"), Task("discard")>> :
                             w \in {Small("query"), Large("query")}}
      [] name = "Query" -> {<<Task("open")>> \o Small("query") \o <<Task("header")>>}
      [] name = "Prepare" -> {<<Task("open")>> \o Small("prepare") \o <<Task("prepared")>>}
      [] name = "StmtExec" -> {<<Task("open")>> \o w \o <<Task("header"), Task("discard")>> :
                             w \in {Small("execute"), <<Task("buffer")>> \o Small("longdata") \o Small("execute")}}
      [] name = "StmtQuery" -> {<<Task("open")>> \o Small("execute") \o <<Task("header")>>}
      [] name = "BeginTx" ->
            LET begin == <<Task("open")>> \o Small("session") \o <<Task("header"), Task("discard")>>
            IN  {begin, Small("session") \o <<Task("header"), Task("discard")>> \o begin}
      [] name = "Commit" -> {<<Task("open")>> \o Small("commit") \o <<Task("header"), Task("discard")>>}
      [] name = "StmtClose" -> {<<Task("open")>> \o Small("stmtClose")}
      [] name = "Next" -> {<<Task("next")>>}
      [] name = "NextResultSet" -> {<<Task("nextResult")>>}
      [] name = "RowsClose" -> {<<Task("finish"), Task("closeRows")>>}

(* The caller has rows that it has to close, whether or not they hold on   *)
(* to the connection.                                                      *)
HasRows ==
    /\ held.of # 0 /\ call.name # "RowsClose"
    /\ call.name \in {"Query", "StmtQuery"} /\ held.of = call.n => call.err = "nil"

HasStmt == (held.stmt \/ (call.name = "Prepare" /\ call.err = "nil")) /\ call.name # "StmtClose"

InTx == (held.tx \/ (call.name = "BeginTx" /\ call.err = "nil")) /\ call.name # "Commit"

Reported == call.err \in {"running", "nil", "end", "toolarge", "ctx", "mysql"}

(* What database/sql calls next.  Nothing follows ErrBadConn, nor, here,   *)
(* an error that leaves the connection out of step.                        *)
Legal(name) ==
    /\ Over /\ Reported /\ call.n < MaxCalls /\ call.name # "Connect"
    /\ (name = "Connect") = (call.name = "new")
    /\ CASE name \in {"Next", "NextResultSet"} ->
              HasRows /\ call.name \in {"Query", "StmtQuery", "Next", "NextResultSet"}
              /\ call.err \in {"nil", "end"} /\ (name = "Next" => ~held.done)
         [] name = "RowsClose" -> HasRows
         [] name \in {"StmtExec", "StmtQuery", "StmtClose"} -> HasStmt /\ (HasRows => InTx)
         [] name = "Commit" -> InTx /\ ~HasRows
         [] name = "BeginTx" -> ~InTx /\ ~HasRows
         [] OTHER -> HasRows => InTx

Names ==
    {"Connect", "Ping", "Exec", "Query", "Prepare", "StmtExec", "StmtQuery", "BeginTx", "Commit",
     "StmtClose", "Next", "NextResultSet", "RowsClose"}

(* The call with its context, which only some watch. *)
Start(name, c) ==
    /\ Legal(name) /\ (name \notin Watched => c = "none")
    /\ held' = [held EXCEPT !.open = @ /\ HasRows, !.of = IF HasRows THEN @ ELSE 0, !.done = @ /\ HasRows,
                             !.stmt = HasStmt, !.tx = InTx]
    /\ server' = [server EXCEPT !.done = 0, !.file = FALSE, !.refused = FALSE]
    /\ LET new(todo, err) == call' = [name |-> name, n |-> call.n + 1, todo |-> todo, err |-> err,
                                      plugin |-> "none"]
       IN  IF name = "Ping" /\ mc.closed
           THEN new(<<>>, "badconn") /\ UNCHANGED <<mc, net, watcher>>
           ELSE IF c = "done" /\ ~mc.watching
           THEN /\ new(<<>>, IF name = "Connect" THEN "early" ELSE "ctx")
                /\ UNCHANGED <<mc, net, watcher>>
           ELSE LET w == IF name \in Watched THEN WatchCancel(c)
                         ELSE [mc |-> mc, net |-> net, watcher |-> watcher]
                IN  /\ \E todo \in Program(name) : new(todo, "running")
                    /\ mc' = [w.mc EXCEPT !.sequence = IF HasRows THEN @ ELSE 0]
                    /\ net' = w.net /\ watcher' = w.watcher
    /\ UNCHANGED conf

(* ResetSession, before a connection of the pool is used again. *)
ResetSession ==
    /\ Over /\ Reported /\ call.name \notin {"new", "Connect"} /\ ~HasRows /\ ~InTx
    /\ ~mc.closed /\ ~mc.reset /\ call.n < MaxCalls
    /\ mc' = [mc EXCEPT !.reset = TRUE]
    /\ UNCHANGED <<net, call, held, watcher, server, conf>>

-----------------------------------------------------------------------------
(* The steps between two packets. *)

ConnError == IF mc.canceled THEN "ctx" ELSE "invalid"

(* The end of the rows, which a query without a result reports as success. *)
ReturnEnd == Return(IF call.name \in {"Query", "StmtQuery"} THEN "nil" ELSE "end")

Open ==
    /\ Doing("open")
    /\ IF mc.closed THEN Return(IF call.name = "Commit" THEN "invalid" ELSE "badconn")
       ELSE Go(Tail(call.todo))
    /\ UNCHANGED held

(* writeExecutePacket takes the buffer before it writes long data. *)
TakeBuffer ==
    /\ Doing("buffer")
    /\ IF net.buf # <<>> THEN Return("nowrite") ELSE Go(Tail(call.todo))
    /\ UNCHANGED held

Discard ==
    /\ Doing("discard")
    /\ Go(IF mc.more THEN <<Task("header")>> \o call.todo ELSE Tail(call.todo))
    /\ UNCHANGED held

NextRow ==
    /\ Doing("next")
    /\ CASE ~held.open -> Return("end")
         [] held.open /\ mc.closed -> Return(ConnError)
         [] OTHER -> Go(<<Task("row")>>)
    /\ UNCHANGED held

NextResult ==
    /\ Doing("nextResult")
    /\ CASE ~held.open -> ReturnEnd
         [] held.open /\ mc.closed -> Return(ConnError)
         [] OTHER -> Go(IF held.done THEN <<Task("more")>> ELSE <<Task("drain"), Task("more")>>)
    /\ UNCHANGED held

More ==
    /\ Doing("more")
    /\ held' = IF mc.more THEN [held EXCEPT !.done = FALSE] ELSE [held EXCEPT !.open = FALSE]
    /\ IF mc.more THEN Go(<<Task("header")>>) ELSE ReturnEnd

CloseRows ==
    /\ Doing("closeRows")
    /\ CASE ~held.open -> Return("nil")
         [] held.open /\ mc.closed -> Return(ConnError)
         [] OTHER -> Go((IF held.done THEN <<>> ELSE <<Task("eof")>>) \o <<Task("discard")>>)
    /\ UNCHANGED held

(* PrepareContext: a context that is done by now has the statement closed. *)
LookAtContext ==
    /\ Doing("ctx")
    /\ call' = IF watcher.ctx = "done"
               THEN [call EXCEPT !.err = "ctx", !.todo = IF mc.closed THEN <<>> ELSE Small("stmtClose")]
               ELSE [call EXCEPT !.todo = <<>>]
    /\ UNCHANGED held

Step ==
    /\ Open \/ TakeBuffer \/ Discard \/ NextRow \/ NextResult \/ More \/ CloseRows \/ LookAtContext
    /\ UNCHANGED <<mc, net, watcher, server, conf>>

-----------------------------------------------------------------------------
(* What the functions of packets.go make of the packet they have read. *)

(* handleErrorPacket, with RejectReadOnly: a connection to a read-only     *)
(* server is closed and the call tried again on another.                   *)
ErrorOf(p) == IF p.kind = "readonly" THEN "badconn" ELSE "mysql"

IsError(p) == p.kind \in {"err", "readonly"}

(* handleInFileRequest: the contents, or after an error none, an empty     *)
(* packet, and the server's answer.                                        *)
SendFile(rest) ==
    \/ Go(Small("content") \o Small("empty") \o <<Task("ok")>> \o rest)
    \/ Go(Small("empty") \o <<Task("ok")>> \o rest)
    \/ Go(Small("empty") \o <<Task("any")>>)

(* readResultSetHeaderPacket and what its caller does with the number of   *)
(* columns.                                                                *)
Header(p) ==
    LET rest == IF call.name \in QueryLike THEN <<Task("nextResult")>> ELSE Tail(call.todo)
    IN  CASE p.kind = "ok" -> Go(rest)
          [] p.kind = "file" -> SendFile(rest)
          [] p.kind = "result" ->
               Go(IF call.name \in QueryLike THEN <<Task("columns")>>
                  ELSE <<Task("eof"), Task("eof")>> \o rest)
          [] OTHER -> Return(ErrorOf(p))

(* readColumns, readUntilEOF *)
UntilEOF(p) ==
    IF IsError(p) THEN Return(ErrorOf(p))
    ELSE Go(IF p.kind = "eof" THEN Tail(call.todo) ELSE call.todo)

(* readPrepareResultPacket, and the parameters and columns after it. *)
Prepared(p) ==
    CASE p.kind = "prep0" -> Go(Tail(call.todo))
      [] p.kind = "prep1" -> Go(<<Task("eof")>> \o Tail(call.todo))
      [] p.kind = "prep2" -> Go(<<Task("eof"), Task("eof")>> \o Tail(call.todo))
      [] OTHER -> Return(ErrorOf(p))

(* readRow of textRows and binaryRows. *)
Row(p) == Return(CASE p.kind = "row" -> "nil" [] p.kind = "eof" -> "end" [] OTHER -> ErrorOf(p))

CallReads(p) ==
    CASE Doing("ok") -> IF p.kind = "ok" THEN Go(Tail(call.todo)) ELSE Return(ErrorOf(p))
      [] Doing("any") -> Return("file")
      [] Doing("header") -> Header(p)
      [] Doing("eof") \/ Doing("drain") \/ Doing("columns") -> UntilEOF(p)
      [] Doing("row") -> Row(p)
      [] Doing("prepared") -> Prepared(p)
      [] OTHER -> ConnectReads(p)

(* The rows, after a packet. *)
RowsAfter(p) ==
    CASE Doing("header") /\ call.name \in {"Query", "StmtQuery"} /\ ~IsError(p)
         /\ held.of # call.n ->
            [held EXCEPT !.open = call.name = "Query" \/ p.kind = "result",
                         !.done = p.kind # "result", !.of = call.n]
      [] Doing("header") /\ call.name \in QueryLike /\ ~IsError(p) /\ held.of = call.n ->
            [held EXCEPT !.done = p.kind # "result"]
      [] Doing("header") /\ call.name = "NextResultSet" /\ ~IsError(p) ->
            [held EXCEPT !.done = p.kind # "result"]
      [] Doing("drain") /\ p.kind = "eof" -> [held EXCEPT !.done = TRUE]
      [] Doing("row") /\ p.kind = "eof" -> [held EXCEPT !.done = TRUE, !.open = p.flag]
      [] Doing("row") /\ IsError(p) -> [held EXCEPT !.open = FALSE]
      [] OTHER -> held

(* The status: of an OK packet, and of the EOF packet after rows. *)
ConnAfter(p) ==
    [mc EXCEPT
        !.sequence = (@ + Span(p)) % 256,
        !.more = IF p.kind = "ok" \/ (p.kind = "eof" /\ ~Doing("columns")) THEN p.flag ELSE @,
        !.tls = IF Doing("handshake") THEN Encrypted(p) ELSE @,
        !.closed = @ \/ p.kind = "readonly"]

ReadPacket ==
    /\ call.todo # <<>> /\ Head(call.todo).do \in Reading
    /\ \E r \in Arrivals :
          /\ InSequence(r.pkt)
          /\ net' = IF r.pkt.kind = "readonly" THEN Dropped(r.net) ELSE r.net
          /\ mc' = ConnAfter(r.pkt)
          /\ held' = RowsAfter(r.pkt)
          /\ CallReads(r.pkt)
    /\ UNCHANGED <<watcher, server, conf>>

-----------------------------------------------------------------------------
(* The server: one answer to each command, all its packets at once (they   *)
(* may arrive one by one).  A read-only server refuses a statement before  *)
(* it has done anything for it; the statements before it in the same       *)
(* command are done by then.                                               *)
Ok(more) == <<[Packet("ok", "none") EXCEPT !.flag = more]>>

Error == <<Packet("err", "none")>>

Refusal == <<Packet("readonly", "none")>>

Result(n, more) ==
    <<Packet("result", "none"), Packet("field", "none"), Packet("eof", "none")>>
    \o [i \in 1..n |-> Packet("row", "none")] \o <<[Packet("eof", "none") EXCEPT !.flag = more]>>

(* What getSystemVar asks for is one column, whatever Columns is. *)
Variable == [Result(1, FALSE) EXCEPT ![2].kind = "column"]

Last == {Ok(FALSE), Error, Refusal, Result(1, FALSE), <<Packet("file", "none")>>}

Answers(cmd) ==
    CASE cmd = "query" /\ call.name = "Connect" ->
            {Error, Ok(FALSE), Variable}
      [] cmd = "query" /\ call.name # "Connect" ->
            Last \cup {SubSeq(Result(1, FALSE), 1, 4) \o Error}
            \cup {first \o last : first \in {Ok(TRUE), Result(0, TRUE)}, last \in Last}
      [] cmd = "execute" ->
            {Ok(FALSE), Error, Refusal, Result(1, FALSE), Result(0, TRUE) \o Ok(FALSE),
             Result(0, TRUE) \o Refusal}
      [] cmd = "prepare" ->
            {Error, <<Packet("prep0", "none")>>, <<Packet("prep1", "none"), Packet("field", "none"), Packet("eof", "none")>>,
             <<Packet("prep2", "none"), Packet("field", "none"), Packet("eof", "none"),
               Packet("field", "none"), Packet("eof", "none")>>}
      [] cmd \in {"ping", "session", "commit"} -> {Ok(FALSE), Error}
      [] cmd = "empty" -> {Ok(FALSE), Error, Ok(TRUE) \o Ok(FALSE), Ok(TRUE) \o Refusal}
      [] OTHER -> {<<>>}    \* stmtClose, longdata, content, ssl

(* Statements done that matter if they are done twice. *)
Effects(cmd, answer) ==
    IF cmd \in {"query", "execute", "commit", "empty"}
    THEN Cardinality({i \in DOMAIN answer : answer[i].kind \in {"ok", "result"}})
    ELSE 0

ServerAnswers(c) ==
    \E answer \in Answers(c.cmd) :
        /\ server' = [server EXCEPT
                        !.done = @ + IF c.of = Owner THEN Effects(c.cmd, answer) ELSE 0,
                        !.file = @ \/ \E i \in DOMAIN answer : answer[i].kind = "file",
                        !.refused = @ \/ \E i \in DOMAIN answer : i > 1 /\ answer[i].kind = "readonly"]
        /\ net' = [net EXCEPT !.out = Tail(@), !.wire =
                     IF net.up /\ ~mc.closed THEN @ \o Numbering(answer, c) ELSE @]

Server ==
    /\ net.out # <<>>
    /\ LET c == Head(net.out)
       IN  IF c.cmd \in {"response", "secret"} THEN ServerAuthenticates(c) ELSE ServerAnswers(c)
    /\ UNCHANGED <<mc, call, held, watcher, conf>>

(* An idle connection is closed with an error packet (a timeout, a         *)
(* shutdown), or without.                                                  *)
ServerCloses ==
    /\ Over /\ net.up /\ MayFail /\ net.out = <<>> /\ net.wire = <<>> /\ call.name \notin {"new", "Connect"}
    /\ net' = [net EXCEPT !.up = FALSE, !.faulty = TRUE, !.wire = <<Packet("err", "none")>>]
    /\ UNCHANGED <<mc, call, held, watcher, server, conf>>

-----------------------------------------------------------------------------
Init ==
    /\ conf \in Configs
    /\ call \in [name : {"new", "pooled"}, n : {0}, todo : {<<>>}, err : {"running"}, plugin : {"none"}]
    /\ mc = [sequence |-> 0, closed |-> FALSE, canceled |-> FALSE, reset |-> FALSE,
             watching |-> FALSE, more |-> FALSE, tls |-> FALSE]
    /\ held \in [open : {FALSE}, done : {FALSE}, of : {0}, stmt : BOOLEAN, tx : BOOLEAN]
    /\ held.stmt = held.tx
    /\ watcher = [at |-> "select", handed |-> FALSE, ctx |-> "none"]
    /\ server = [done |-> 0, file |-> FALSE, refused |-> FALSE, accepted |-> call.name = "pooled", switched |-> FALSE]
    /\ net \in [out : {<<>>}, wire : Greetings \cup {<<>>}, buf : {<<>>}, up : {TRUE}, faulty : {FALSE}]
    /\ IF call.name = "new" THEN net.wire # <<>> /\ ~held.stmt /\ ~held.tx
       ELSE net.wire = <<>> /\ conf = [tls |-> "none", allow |-> {"old"}, pubKey |-> TRUE,
                                       max |-> TRUE, params |-> 0]

Client ==
    \/ Step \/ ReadPacket \/ TLSHandshake \/ Cleanup
    \/ (OutOfSync \/ ReadFails \/ BusyBuffer \/ Write \/ Finish) /\ UNCHANGED conf

Next ==
    \/ \E name \in Names, c \in {"none", "live", "done"} : Start(name, c)
    \/ ResetSession \/ Client \/ Server \/ ServerCloses
    \/ (Watcher \/ ReadTimeout \/ CancelContext \/ Break) /\ UNCHANGED conf

(* The goroutines of the client are scheduled.  Nothing is assumed of the  *)
(* server, nor that a read times out.                                      *)
Fairness == WF_connVars(Client) /\ WF_connVars(Watcher /\ UNCHANGED conf)

Spec == Init /\ [][Next]_connVars /\ Fairness
-----------------------------------------------------------------------------
(* When a call has returned and the connection may be used for another,    *)
(* every packet of its answer has been read and nothing more will come.    *)
(* The code that has to see to it is in every function that reads          *)
(* (discardResults, rows.Close, the auth plugins); a LOAD DATA whose file  *)
(* fails is the one that does not.                                         *)
InSync ==
    Over /\ ~mc.closed /\ ~HasRows /\ call.err \in {"nil", "end", "mysql", "ctx", "toolarge"} =>
        /\ net.buf = <<>>
        /\ \A i \in DOMAIN net.wire : net.wire[i].of = 0
        /\ \A i \in DOMAIN net.out : net.out[i].cmd \in {"stmtClose", "longdata"}

(* No call takes a packet of another call's answer for its own, also when  *)
(* a command follows an open query: sequence numbers tell (packets.go:46), *)
(* as long as they do not start again within an answer, as they do with    *)
(* 254 columns, where TLC finds this violated.                             *)
OwnAnswers ==
    call.todo # <<>> /\ Head(call.todo).do \in Reading =>
        \A r \in Arrivals : InSequence(r.pkt) =>
            r.pkt.of = Owner

Harmless ==
    /\ server.done = 0
    /\ \A i \in DOMAIN net.out :
          ~(net.out[i].of = call.n /\ net.out[i].cmd \in {"query", "execute", "commit", "empty"})

Repeated == Over /\ call.err = "badconn" /\ call.name \notin RowCalls

(* database/sql repeats a call that returns driver.ErrBadConn: the server  *)
(* has not executed it, nor will it (errors.go:35, "where nothing was sent *)
(* to the database yet"), unless it is a command of several statements of  *)
(* which it has refused a later one.                                       *)
RetryIsSafeUnlessRefused == Repeated /\ ~server.refused => Harmless

(* The same where the command has not made the server ask for a file, but  *)
(* whether or not a read-only server has refused it (packets.go:584): TLC  *)
(* finds it violated by a refusal after a statement that was executed.     *)
RetryIsSafeWithoutFile == Repeated /\ ~server.file => Harmless

(* The same where neither has happened.                                    *)
RetryIsSafeOtherwise == Repeated /\ ~server.file /\ ~server.refused => Harmless

(* A connection is only handed out when the server has let it in.          *)
ConnectIsAccepted == call.name = "Connect" /\ call.err = "nil" => server.accepted

(* A call whose context is done returns, whether the server answers or     *)
(* not, and whatever finish and the watcher do at the same time.           *)
CancelReleases ==
    call.name \in Watched /\ ~Over /\ mc.watching /\ watcher.ctx = "done" ~> Over

(* The watcher goroutine does not outlive the connection. *)
WatcherStops == mc.closed ~> watcher.at = "ended"
=============================================================================
