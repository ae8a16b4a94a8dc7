---------------------------- MODULE MySQLProofs ----------------------------
(***************************************************************************)
(* Theorems about the connection of the MySQL driver: its state keeps its  *)
(* types, and Connect succeeds only on a connection whose server has       *)
(* accepted.  Then the lists of tasks of a pooled connection are sound,    *)
(* its watcher is handed a context only by a call that takes it back, and  *)
(* a call that reads or writes leaves under way what it still expects.     *)
(***************************************************************************)
EXTENDS MySQLInvariant, SequenceTheorems, FiniteSetTheorems, TLAPS

-----------------------------------------------------------------------------
(* Types. *)

(* A field of a record may be given any value of its type. *)
LEMMA TaskFields ==
    ASSUME NEW t \in TaskType
    PROVE  /\ \A c \in Commands : [t EXCEPT !.cmd = c] \in TaskType
           /\ \A a \in Forms : [t EXCEPT !.arg = a] \in TaskType
           /\ \A b \in BOOLEAN : [t EXCEPT !.first = b] \in TaskType
           /\ \A b \in BOOLEAN : [t EXCEPT !.last = b] \in TaskType
<1> DEFINE T == Tasks
           C == Commands
           A == Forms
<1>1. t \in [do : T, cmd : C, arg : A, first : BOOLEAN, last : BOOLEAN]
  BY DEF TaskType
<1> HIDE DEF T, C, A
<1>2. /\ \A c \in C : [t EXCEPT !.cmd = c]
            \in [do : T, cmd : C, arg : A, first : BOOLEAN, last : BOOLEAN]
      /\ \A a \in A : [t EXCEPT !.arg = a]
            \in [do : T, cmd : C, arg : A, first : BOOLEAN, last : BOOLEAN]
      /\ \A b \in BOOLEAN : [t EXCEPT !.first = b]
            \in [do : T, cmd : C, arg : A, first : BOOLEAN, last : BOOLEAN]
      /\ \A b \in BOOLEAN : [t EXCEPT !.last = b]
            \in [do : T, cmd : C, arg : A, first : BOOLEAN, last : BOOLEAN]
  BY <1>1
<1> QED
  BY <1>2 DEF TaskType, T, C, A

LEMMA CallFields ==
    ASSUME NEW c \in CallType
    PROVE  /\ \A todo \in Seq(TaskType) : [c EXCEPT !.todo = todo] \in CallType
           /\ \A err \in Errors : [c EXCEPT !.err = err] \in CallType
           /\ \A p \in Subjects : [c EXCEPT !.plugin = p] \in CallType
BY DEF CallType

LEMMA NetFields ==
    ASSUME NEW m \in NetType
    PROVE  /\ \A out \in Seq(CommandType) : [m EXCEPT !.out = out] \in NetType
           /\ \A wire \in Seq(PacketType) : [m EXCEPT !.wire = wire] \in NetType
           /\ \A buf \in Seq(PacketType) : [m EXCEPT !.buf = buf] \in NetType
           /\ \A b \in BOOLEAN : [m EXCEPT !.up = b] \in NetType
           /\ \A b \in BOOLEAN : [m EXCEPT !.faulty = b] \in NetType
BY DEF NetType

LEMMA ConnFields ==
    ASSUME NEW m \in ConnType
    PROVE  /\ \A k \in Nat : [m EXCEPT !.sequence = k] \in ConnType
           /\ \A b \in BOOLEAN :
                /\ [m EXCEPT !.closed = b] \in ConnType
                /\ [m EXCEPT !.canceled = b] \in ConnType
                /\ [m EXCEPT !.reset = b] \in ConnType
                /\ [m EXCEPT !.watching = b] \in ConnType
                /\ [m EXCEPT !.more = b] \in ConnType
                /\ [m EXCEPT !.tls = b] \in ConnType
BY DEF ConnType

LEMMA PacketFields ==
    ASSUME NEW p \in PacketType
    PROVE  /\ \A b \in BOOLEAN : [p EXCEPT !.flag = b] \in PacketType
           /\ \A k \in Nat : [p EXCEPT !.seq = k] \in PacketType
           /\ \A k \in Nat : [p EXCEPT !.of = k] \in PacketType
BY DEF PacketType

LEMMA TaskTyped ==
    ASSUME NEW do \in Tasks
    PROVE  Task(do) \in TaskType
BY DEF Task, TaskType, Commands, Forms

LEMMA WritingTyped ==
    ASSUME NEW cmd \in Commands, NEW arg \in Forms
    PROVE  /\ Writing(cmd, arg) \in TaskType
           /\ Writing(cmd, arg).do = "write"
           /\ Writing(cmd, arg).cmd = cmd
<1> DEFINE t == Task("write")
<1>1. t \in TaskType /\ t.do = "write"
  BY TaskTyped DEF Tasks, Task
<1> HIDE DEF t
<1>2. [t EXCEPT !.cmd = cmd] \in TaskType
  BY <1>1, TaskFields
<1>3. [[t EXCEPT !.cmd = cmd] EXCEPT !.arg = arg] \in TaskType
  BY <1>2, TaskFields
<1>4. /\ [[t EXCEPT !.cmd = cmd] EXCEPT !.arg = arg].do = "write"
      /\ [[t EXCEPT !.cmd = cmd] EXCEPT !.arg = arg].cmd = cmd
  BY <1>1 DEF TaskType
<1> QED
  BY <1>3, <1>4 DEF Writing, t

LEMMA SmallTyped ==
    ASSUME NEW cmd \in Commands
    PROVE  Small(cmd) \in Seq(TaskType)
BY WritingTyped DEF Small, Forms

LEMMA LargeTyped ==
    ASSUME NEW cmd \in Commands
    PROVE  Large(cmd) \in Seq(TaskType)
<1> DEFINE t == Writing(cmd, "none")
<1>1. t \in TaskType
  BY WritingTyped DEF Forms
<1> HIDE DEF t
<1>2. [t EXCEPT !.last = FALSE] \in TaskType /\ [t EXCEPT !.first = FALSE] \in TaskType
  BY <1>1, TaskFields
<1> DEFINE u == [t EXCEPT !.last = FALSE]
           v == [t EXCEPT !.first = FALSE]
<1> HIDE DEF u, v
<1>3. <<u, v>> \in Seq(TaskType)
  BY <1>2 DEF u, v
<1> QED
  BY <1>3 DEF Large, t, u, v

LEMMA SetupTyped ==
    ASSUME conf \in Configs
    PROVE  Setup \in Seq(TaskType)
<1> DEFINE a == Small("query") \o <<Task("sysheader")>>
           b == Small("query") \o <<Task("header"), Task("discard")>>
<1>1. Small("query") \in Seq(TaskType)
  BY SmallTyped DEF Commands
<1>2. /\ <<Task("sysheader")>> \in Seq(TaskType)
      /\ <<Task("header"), Task("discard")>> \in Seq(TaskType)
  BY TaskTyped DEF Tasks, Reading
<1>3. a \in Seq(TaskType) /\ b \in Seq(TaskType) /\ <<>> \in Seq(TaskType)
  BY <1>1, <1>2
<1> HIDE DEF a, b
<1>4. /\ (IF conf.max THEN <<>> ELSE a) \in Seq(TaskType)
      /\ (IF conf.params = 0 THEN <<>> ELSE b) \in Seq(TaskType)
  BY <1>3
<1> QED
  BY <1>4 DEF Setup, a, b

LEMMA ReturnTyped ==
    ASSUME TypeOK, NEW err \in Errors, Return(err)
    PROVE  call' \in CallType
<1> DEFINE S == Seq(TaskType)
           e == IF call.err = "running" THEN MarkBadConn(call.name, err) ELSE call.err
<1>1. /\ <<>> \in S
      /\ <<Task("finish"), Task("ctx")>> \in S
      /\ <<Task("cleanup"), Task("finish")>> \in S
      /\ <<Task("finish")>> \in S
  BY TaskTyped DEF Tasks
<1>2. call \in CallType /\ call.err \in Errors
  BY DEF TypeOK, CallType
<1>3. e \in Errors
  BY <1>2 DEF MarkBadConn, Errors
<1> HIDE DEF S, e
<1>4. AtReturn(call.name, e) \in S
  <2>1. AtReturn(call.name, e) \in {<<>>, <<Task("finish"), Task("ctx")>>,
                <<Task("cleanup"), Task("finish")>>, <<Task("finish")>>}
    BY DEF AtReturn
  <2> QED
    BY <1>1, <2>1
<1>5. [call EXCEPT !.todo = AtReturn(call.name, e)] \in CallType
  BY <1>2, <1>4, CallFields DEF S
<1>6. [[call EXCEPT !.todo = AtReturn(call.name, e)] EXCEPT !.err = e] \in CallType
  BY <1>5, <1>3, CallFields
<1> QED
  BY <1>6 DEF Return, e

LEMMA GoTyped ==
    ASSUME TypeOK, NEW todo \in Seq(TaskType), Go(todo)
    PROVE  call' \in CallType
<1>1. CASE todo = <<>>
  BY <1>1, ReturnTyped DEF Go, Errors
<1>2. CASE todo # <<>>
  <2>1. call \in CallType
    BY DEF TypeOK
  <2> QED
    BY <1>2, <2>1, CallFields DEF Go
<1> QED
  BY <1>1, <1>2

-----------------------------------------------------------------------------
(* What has arrived is one packet, and the rest stays where it is or goes  *)
(* into the buffer.                                                        *)
LEMMA ArrivalTyped ==
    ASSUME TypeOK, NEW r \in Arrivals
    PROVE  /\ r.pkt \in PacketType
           /\ r.net \in NetType
           /\ r.net.out = net.out
           /\ net.buf = <<>> /\ Len(net.wire) <= 1 =>
                 /\ net.wire # <<>> /\ r.pkt = net.wire[1]
                 /\ r.net.wire = <<>> /\ r.net.buf = <<>>
<1>1. net \in NetType
  BY DEF TypeOK
<1>2. /\ net.out \in Seq(CommandType)
      /\ net.wire \in Seq(PacketType)
      /\ net.buf \in Seq(PacketType)
  BY <1>1 DEF NetType
<1>3. CASE net.buf # <<>>
  <2>1. Head(net.buf) \in PacketType /\ Tail(net.buf) \in Seq(PacketType)
    BY <1>2, <1>3, HeadTailProperties
  <2>2. [net EXCEPT !.buf = Tail(net.buf)] \in NetType
    BY <1>1, <2>1, NetFields
  <2>3. [net EXCEPT !.buf = Tail(net.buf)].out = net.out
    BY <1>1 DEF NetType
  <2>4. /\ r.pkt = Head(net.buf)
        /\ r.net = [net EXCEPT !.buf = Tail(net.buf)]
    BY <1>3 DEF Arrivals
  <2> QED
    BY <1>3, <2>1, <2>2, <2>3, <2>4
<1>4. CASE net.buf = <<>>
  <2>1. PICK k \in {1, Len(net.wire)} :
          /\ net.wire # <<>>
          /\ r = [pkt |-> Head(net.wire),
                  net |-> [net EXCEPT !.buf = SubSeq(net.wire, 2, k),
                                      !.wire = SubSeq(net.wire, k + 1, Len(net.wire))]]
    BY <1>4 DEF Arrivals
  <2> DEFINE buf == SubSeq(net.wire, 2, k)
             wire == SubSeq(net.wire, k + 1, Len(net.wire))
  <2>2. Len(net.wire) \in Nat \ {0} /\ k \in 1..Len(net.wire)
    BY <1>2, <2>1, EmptySeq
  <2>3. \A i \in 1..Len(net.wire) : net.wire[i] \in PacketType
    BY <1>2, ElementOfSeq
  <2>4. buf \in Seq(PacketType) /\ wire \in Seq(PacketType)
    BY <2>2, <2>3, SubSeqProperties
  <2>5. Len(net.wire) <= 1 => buf = <<>> /\ wire = <<>>
    BY <2>2, SubSeqEmpty
  <2>6. Head(net.wire) \in PacketType /\ Head(net.wire) = net.wire[1]
    BY <1>2, <2>1, HeadTailProperties
  <2> HIDE DEF buf, wire
  <2>7. [net EXCEPT !.buf = buf] \in NetType
    BY <1>1, <2>4, NetFields
  <2>8. [[net EXCEPT !.buf = buf] EXCEPT !.wire = wire] \in NetType
    BY <2>7, <2>4, NetFields
  <2>9. /\ [[net EXCEPT !.buf = buf] EXCEPT !.wire = wire].out = net.out
        /\ [[net EXCEPT !.buf = buf] EXCEPT !.wire = wire].wire = wire
        /\ [[net EXCEPT !.buf = buf] EXCEPT !.wire = wire].buf = buf
    BY <1>1 DEF NetType
  <2>10. /\ r.pkt = Head(net.wire)
         /\ r.net = [[net EXCEPT !.buf = buf] EXCEPT !.wire = wire]
    BY <2>1 DEF buf, wire
  <2> QED
    BY <2>1, <2>5, <2>6, <2>8, <2>9, <2>10
<1> QED
  BY <1>3, <1>4

LEMMA DroppedTyped ==
    ASSUME NEW m \in NetType
    PROVE  Dropped(m) \in NetType /\ Dropped(m).out = m.out /\ Dropped(m).wire = <<>>
           /\ Dropped(m).buf = m.buf /\ Dropped(m).up = m.up
<1>1. <<>> \in Seq(PacketType)
  OBVIOUS
<1>2. Dropped(m) \in NetType
  BY <1>1, NetFields DEF Dropped
<1> QED
  BY <1>2 DEF Dropped, NetType

LEMMA ClosedTyped ==
    ASSUME NEW m \in ConnType
    PROVE  Closed(m) \in ConnType /\ Closed(m).closed
<1>1. Closed(m) \in ConnType
  BY ConnFields DEF Closed
<1> QED
  BY <1>1 DEF Closed, ConnType

(* A call with tasks left may drop the first. *)
LEMMA RestTyped ==
    ASSUME TypeOK, call.todo # <<>>
    PROVE  /\ call.todo \in Seq(TaskType)
           /\ Head(call.todo) \in TaskType
           /\ Tail(call.todo) \in Seq(TaskType)
<1>1. call.todo \in Seq(TaskType)
  BY DEF TypeOK, CallType
<1> QED
  BY <1>1, HeadTailProperties
-----------------------------------------------------------------------------
(* The steps of reading and writing keep the types. *)

LEMMA ReadErrorTyped == ReadError \in Errors
BY DEF ReadError, Errors

LEMMA OutOfSyncTypes ==
    ASSUME TypeOK, OutOfSync, UNCHANGED conf
    PROVE  TypeOK'
<1>1. net' \in NetType
  BY ArrivalTyped DEF OutOfSync
<1>2. call' \in CallType
  BY ReturnTyped DEF OutOfSync, Errors
<1> QED
  BY <1>1, <1>2 DEF TypeOK, OutOfSync

LEMMA ReadFailsTypes ==
    ASSUME TypeOK, ReadFails, UNCHANGED conf
    PROVE  TypeOK'
<1>1. net' \in NetType /\ mc' \in ConnType
  BY DroppedTyped, ClosedTyped DEF ReadFails, TypeOK
<1>2. call' \in CallType
  BY ReturnTyped, ReadErrorTyped DEF ReadFails
<1> QED
  BY <1>1, <1>2 DEF TypeOK, ReadFails

LEMMA ReadTimeoutTypes ==
    ASSUME TypeOK, ReadTimeout, UNCHANGED conf
    PROVE  TypeOK'
<1>1. net' \in NetType /\ mc' \in ConnType
  BY NetFields, ClosedTyped DEF ReadTimeout, TypeOK
<1>2. call' \in CallType
  BY ReturnTyped, ReadErrorTyped DEF ReadTimeout
<1> QED
  BY <1>1, <1>2 DEF TypeOK, ReadTimeout

LEMMA NumberedTyped ==
    ASSUME TypeOK, NEW w \in TaskType
    PROVE  Numbered(w) \in Nat
BY DEF Numbered, TypeOK, ConnType

LEMMA BusyBufferTypes ==
    ASSUME TypeOK, BusyBuffer, UNCHANGED conf
    PROVE  TypeOK'
<1>1. Numbered(Head(call.todo)) \in Nat
  BY RestTyped, NumberedTyped DEF BusyBuffer, Doing
<1>2. mc' \in ConnType
  BY <1>1, ConnFields DEF BusyBuffer, TypeOK
<1>3. call' \in CallType
  BY ReturnTyped DEF BusyBuffer, Errors
<1> QED
  BY <1>2, <1>3 DEF TypeOK, BusyBuffer

LEMMA OwnerTyped ==
    ASSUME TypeOK
    PROVE  Owner \in Nat
BY DEF TypeOK, CallType, HeldType, Owner

(* What a write leaves of the connection and of what is on its way. *)
LEMMA SentTyped ==
    ASSUME TypeOK, NEW w \in TaskType, Sent(w)
    PROVE  /\ mc' \in ConnType /\ net' \in NetType
           /\ net'.wire = net.wire /\ net'.buf = net.buf
           /\ \/ net'.out = net.out
              \/ \E c \in CommandType : c.cmd = w.cmd /\ net'.out = Append(net.out, c)
<1>1. Numbered(w) \in Nat
  BY NumberedTyped
<1>2. mc \in ConnType /\ net \in NetType
  BY DEF TypeOK
<1>3. mc' \in ConnType
  <2> DEFINE k == (Numbered(w) + 1) % 256
  <2>1. k \in Nat
    BY <1>1
  <2> HIDE DEF k
  <2>2. [mc EXCEPT !.sequence = k] \in ConnType
    BY <1>2, <2>1, ConnFields
  <2>3. [[mc EXCEPT !.sequence = k] EXCEPT !.reset = FALSE] \in ConnType
    BY <2>2, ConnFields
  <2>4. mc' = [[mc EXCEPT !.sequence = k] EXCEPT !.reset = FALSE]
    BY DEF Sent, k
  <2> QED
    BY <2>3, <2>4
<1> DEFINE c == [cmd |-> w.cmd, arg |-> w.arg, seq |-> Numbered(w), of |-> Owner]
<1>4. c \in CommandType /\ c.cmd = w.cmd
  BY <1>1, OwnerTyped DEF CommandType, TaskType
<1> HIDE DEF c
<1>5. net.out \in Seq(CommandType)
  BY <1>2 DEF NetType
<1>6. Append(net.out, c) \in Seq(CommandType)
  BY <1>4, <1>5
<1> DEFINE out == IF net.up /\ w.last THEN Append(net.out, c) ELSE net.out
<1>7. out \in Seq(CommandType) /\ (out = net.out \/ out = Append(net.out, c))
  BY <1>5, <1>6
<1> HIDE DEF out
<1>8. net' = [net EXCEPT !.out = out]
  BY DEF Sent, out, c
<1>9. net' \in NetType
  BY <1>2, <1>7, <1>8, NetFields
<1>10. net'.wire = net.wire /\ net'.buf = net.buf /\ net'.out = out
  BY <1>2, <1>8 DEF NetType
<1> QED
  BY <1>3, <1>4, <1>7, <1>9, <1>10

LEMMA FailsTyped ==
    ASSUME TypeOK, NEW err \in Errors, call.todo # <<>>, Fails(err)
    PROVE  call' \in CallType
BY RestTyped, GoTyped, ReturnTyped DEF Fails

LEMMA WriteTypes ==
    ASSUME TypeOK, Write, UNCHANGED conf
    PROVE  TypeOK'
<1> DEFINE w == Head(call.todo)
<1>1. call.todo # <<>> /\ w \in TaskType /\ Tail(call.todo) \in Seq(TaskType)
  BY RestTyped DEF Write, Doing
<1>2. mc \in ConnType /\ net \in NetType
  BY DEF TypeOK
<1>3. [mc EXCEPT !.reset = FALSE] \in ConnType /\ [Closed(mc) EXCEPT !.reset = FALSE] \in ConnType
  BY <1>2, ClosedTyped, ConnFields
<1>4. mc' \in ConnType /\ net' \in NetType /\ held' = held
  <2>1. CASE TooLarge(w)
    BY <1>2, <2>1 DEF TooLarge
  <2>2. CASE Stale
    BY <1>2, <1>3, <2>2, DroppedTyped DEF Stale
  <2>3. CASE Sent(w)
    <3>1. held' = held
      BY <2>3 DEF Sent
    <3> QED
      BY <1>1, <2>3, <3>1, SentTyped
  <2>4. CASE NothingWritten
    BY <1>2, <1>3, <2>4 DEF NothingWritten
  <2>5. CASE PartWritten
    BY <1>2, <1>3, <2>5, DroppedTyped DEF PartWritten
  <2> QED
    BY <2>1, <2>2, <2>3, <2>4, <2>5 DEF Write
<1>5. call' \in CallType
  <2>1. CASE TooLarge(w)
    BY <2>1, ReturnTyped DEF TooLarge, Errors
  <2>2. CASE Stale
    BY <2>2, ReturnTyped DEF Stale, Errors
  <2>3. CASE Sent(w)
    BY <1>1, <2>3, GoTyped DEF Sent
  <2>4. CASE NothingWritten
    BY <1>1, <2>4, FailsTyped DEF NothingWritten, Errors
  <2>5. CASE PartWritten
    BY <1>1, <2>5, FailsTyped DEF PartWritten, Errors
  <2> QED
    BY <2>1, <2>2, <2>3, <2>4, <2>5 DEF Write
<1> QED
  BY <1>4, <1>5 DEF TypeOK, Write

-----------------------------------------------------------------------------
(* The steps of the watcher, the network and the caller keep the types.    *)

LEMMA FinishTypes ==
    ASSUME TypeOK, Finish, UNCHANGED conf
    PROVE  TypeOK'
<1>1. call.todo # <<>>
  BY DEF Finish, Doing
<1>2. call' \in CallType
  BY <1>1, RestTyped, CallFields DEF Finish, TypeOK
<1>3. mc' \in ConnType
  BY ConnFields DEF Finish, TypeOK
<1>4. watcher' \in WatcherType
  BY DEF Finish, TypeOK, WatcherType
<1> QED
  BY <1>2, <1>3, <1>4 DEF TypeOK, Finish

LEMMA WatcherTypes ==
    ASSUME TypeOK, Watcher, UNCHANGED conf
    PROVE  TypeOK'
<1>1. CASE WatcherTakes
  <2>1. watcher' \in WatcherType
    BY <1>1 DEF WatcherTakes, TypeOK, WatcherType
  <2> QED
    BY <1>1, <2>1 DEF TypeOK, WatcherTakes
<1>2. CASE WatcherEnds
  <2>1. watcher' \in WatcherType
    BY <1>2 DEF WatcherEnds, TypeOK, WatcherType
  <2> QED
    BY <1>2, <2>1 DEF TypeOK, WatcherEnds
<1>3. CASE WatcherSees
  <2>1. watcher' \in WatcherType /\ mc' \in ConnType
    BY <1>3, ConnFields DEF WatcherSees, TypeOK, WatcherType
  <2> QED
    BY <1>3, <2>1 DEF TypeOK, WatcherSees
<1>4. CASE WatcherCloses
  <2>1. watcher' \in WatcherType
    BY <1>4 DEF WatcherCloses, TypeOK, WatcherType
  <2>2. mc' \in ConnType /\ net' \in NetType
    BY <1>4, ClosedTyped, DroppedTyped DEF WatcherCloses, TypeOK
  <2> QED
    BY <1>4, <2>1, <2>2 DEF TypeOK, WatcherCloses
<1> QED
  BY <1>1, <1>2, <1>3, <1>4 DEF Watcher

LEMMA CancelContextTypes ==
    ASSUME TypeOK, CancelContext, UNCHANGED conf
    PROVE  TypeOK'
<1>1. watcher' \in WatcherType
  BY DEF CancelContext, TypeOK, WatcherType
<1> QED
  BY <1>1 DEF TypeOK, CancelContext

(* A connection that breaks loses a part of what was on its way.           *)
LEMMA BreakTyped ==
    ASSUME TypeOK, Break
    PROVE  /\ net' \in NetType
           /\ net'.buf = net.buf
           /\ net'.out \in {net.out, <<>>}
           /\ Len(net'.wire) <= Len(net.wire)
           /\ \A i \in 1..Len(net'.wire) : net'.wire[i] = net.wire[i]
           /\ net.wire = <<>> => net'.wire = <<>>
<1>1. PICK k \in 0..Len(net.wire), out \in {net.out, <<>>} :
        net' = [net EXCEPT !.up = FALSE, !.faulty = TRUE,
                           !.wire = SubSeq(net.wire, 1, k), !.out = out]
  BY DEF Break
<1>2. net \in NetType
  BY DEF TypeOK
<1>3. net.out \in Seq(CommandType) /\ net.wire \in Seq(PacketType)
  BY <1>2 DEF NetType
<1> DEFINE wire == SubSeq(net.wire, 1, k)
<1>4. Len(net.wire) \in Nat /\ \A i \in 1..Len(net.wire) : net.wire[i] \in PacketType
  BY <1>3, ElementOfSeq
<1>5. /\ wire \in Seq(PacketType) /\ Len(wire) = k
      /\ \A i \in 1..k : wire[i] = net.wire[i]
  <2>1. \A i \in 1..k : net.wire[i] \in PacketType
    BY <1>4
  <2>2. /\ wire \in Seq(PacketType) /\ Len(wire) = (IF 1 <= k THEN k - 1 + 1 ELSE 0)
        /\ \A i \in 1..(k - 1 + 1) : wire[i] = net.wire[1 + i - 1]
    BY <2>1, SubSeqProperties
  <2> QED
    BY <1>4, <2>2
<1> HIDE DEF wire
<1>6. [net EXCEPT !.up = FALSE] \in NetType
  BY <1>2, NetFields
<1>7. [[net EXCEPT !.up = FALSE] EXCEPT !.faulty = TRUE] \in NetType
  BY <1>6, NetFields
<1>8. [[[net EXCEPT !.up = FALSE] EXCEPT !.faulty = TRUE] EXCEPT !.wire = wire] \in NetType
  BY <1>7, <1>5, NetFields
<1>9. out \in Seq(CommandType)
  BY <1>3, EmptySeq
<1> DEFINE m == [[[net EXCEPT !.up = FALSE] EXCEPT !.faulty = TRUE] EXCEPT !.wire = wire]
<1>10. m.buf = net.buf /\ m.wire = wire
  BY <1>2 DEF NetType
<1>11. [m EXCEPT !.out = out] \in NetType
  BY <1>8, <1>9, NetFields
<1> HIDE DEF m
<1>12. /\ [m EXCEPT !.out = out].buf = m.buf
       /\ [m EXCEPT !.out = out].wire = m.wire
       /\ [m EXCEPT !.out = out].out = out
  BY <1>8 DEF NetType, m
<1>13. net' = [m EXCEPT !.out = out]
  BY <1>1 DEF m, wire
<1>14. net.wire = <<>> => wire = <<>>
  BY <1>5, <1>4, EmptySeq
<1> QED
  BY <1>4, <1>5, <1>10, <1>11, <1>12, <1>13, <1>14

LEMMA BreakTypes ==
    ASSUME TypeOK, Break, UNCHANGED conf
    PROVE  TypeOK'
BY BreakTyped DEF TypeOK, Break

LEMMA CleanupTypes ==
    ASSUME TypeOK, Cleanup
    PROVE  TypeOK'
<1>1. call.todo # <<>>
  BY DEF Cleanup, Doing
<1>2. call' \in CallType
  BY <1>1, RestTyped, CallFields DEF Cleanup, TypeOK
<1> QED
  BY <1>2, ClosedTyped, DroppedTyped DEF TypeOK, Cleanup

LEMMA TLSHandshakeTypes ==
    ASSUME TypeOK, TLSHandshake
    PROVE  TypeOK'
<1>1. call.todo # <<>>
  BY DEF TLSHandshake, Doing
<1>2. call' \in CallType
  BY <1>1, RestTyped, GoTyped, ReturnTyped DEF TLSHandshake, Errors
<1> QED
  BY <1>2 DEF TypeOK, TLSHandshake

LEMMA ResetSessionTypes ==
    ASSUME TypeOK, ResetSession
    PROVE  TypeOK'
BY ConnFields DEF TypeOK, ResetSession

(* Single tasks. *)
LEMMA TasksTyped ==
    \A do \in Tasks :
        /\ <<Task(do)>> \in Seq(TaskType)
        /\ \A e \in Tasks : <<Task(do), Task(e)>> \in Seq(TaskType)
BY TaskTyped

LEMMA StepTypes ==
    ASSUME TypeOK, Step
    PROVE  TypeOK'
<1>1. call.todo # <<>>
  BY DEF Step, Open, TakeBuffer, Discard, NextRow, NextResult, More, CloseRows,
         LookAtContext, Doing
<1>2. call.todo \in Seq(TaskType) /\ Tail(call.todo) \in Seq(TaskType)
  BY <1>1, RestTyped
<1>3. held' \in HeldType
  <2>1. CASE More
    BY <2>1 DEF More, TypeOK, HeldType
  <2> QED
    BY <2>1 DEF Step, Open, TakeBuffer, Discard, NextRow, NextResult, CloseRows,
                LookAtContext, TypeOK
<1>4. call' \in CallType
  <2>1. CASE Open
    BY <1>2, <2>1, GoTyped, ReturnTyped DEF Open, Errors
  <2>2. CASE TakeBuffer
    BY <1>2, <2>2, GoTyped, ReturnTyped DEF TakeBuffer, Errors
  <2>3. CASE Discard
    <3>1. <<Task("header")>> \in Seq(TaskType)
      BY TasksTyped DEF Tasks, Reading
    <3>2. <<Task("header")>> \o call.todo \in Seq(TaskType)
      BY <3>1, <1>2, ConcatProperties
    <3> QED
      BY <1>2, <2>3, <3>2, GoTyped DEF Discard
  <2>4. CASE NextRow
    <3>1. <<Task("row")>> \in Seq(TaskType)
      BY TasksTyped DEF Tasks, Reading
    <3>2. ConnError \in Errors
      BY DEF ConnError, Errors
    <3>3. Return("end") \/ Return(ConnError) \/ Go(<<Task("row")>>)
      BY <2>4 DEF NextRow
    <3> QED
      BY <3>1, <3>2, <3>3, GoTyped, ReturnTyped DEF Errors
  <2>5. CASE NextResult
    <3>1. <<Task("more")>> \in Seq(TaskType) /\ <<Task("drain"), Task("more")>> \in Seq(TaskType)
      BY TasksTyped DEF Tasks, Reading
    <3>2. ConnError \in Errors
      BY DEF ConnError, Errors
    <3>3. ReturnEnd \/ Return(ConnError)
          \/ Go(<<Task("more")>>) \/ Go(<<Task("drain"), Task("more")>>)
      BY <2>5 DEF NextResult
    <3> QED
      BY <3>1, <3>2, <3>3, GoTyped, ReturnTyped DEF Errors, ReturnEnd
  <2>6. CASE More
    <3>1. <<Task("header")>> \in Seq(TaskType)
      BY TasksTyped DEF Tasks, Reading
    <3> QED
      BY <2>6, <3>1, GoTyped, ReturnTyped DEF More, ReturnEnd, Errors
  <2>7. CASE CloseRows
    <3>1. /\ <<Task("discard")>> \in Seq(TaskType)
          /\ <<Task("eof")>> \in Seq(TaskType)
      BY TasksTyped DEF Tasks, Reading
    <3>2. /\ <<Task("eof")>> \o <<Task("discard")>> \in Seq(TaskType)
          /\ <<>> \o <<Task("discard")>> \in Seq(TaskType)
      BY <3>1, ConcatProperties, EmptySeq
    <3>3. ConnError \in Errors
      BY DEF ConnError, Errors
    <3>4. Return("nil") \/ Return(ConnError)
          \/ Go(<<Task("eof")>> \o <<Task("discard")>>) \/ Go(<<>> \o <<Task("discard")>>)
      BY <2>7 DEF CloseRows
    <3> QED
      BY <3>2, <3>3, <3>4, GoTyped, ReturnTyped DEF Errors
  <2>8. CASE LookAtContext
    <3>1. Small("stmtClose") \in Seq(TaskType) /\ <<>> \in Seq(TaskType)
      BY SmallTyped DEF Commands
    <3> DEFINE todo == IF mc.closed THEN <<>> ELSE Small("stmtClose")
    <3>2. todo \in Seq(TaskType)
      BY <3>1
    <3> HIDE DEF todo
    <3>3. call \in CallType
      BY DEF TypeOK
    <3>4. [call EXCEPT !.err = "ctx"] \in CallType
      BY <3>3, CallFields DEF Errors
    <3>5. [[call EXCEPT !.err = "ctx"] EXCEPT !.todo = todo] \in CallType
      BY <3>2, <3>4, CallFields
    <3>6. [call EXCEPT !.todo = <<>>] \in CallType
      BY <3>1, <3>3, CallFields
    <3> QED
      BY <2>8, <3>5, <3>6 DEF LookAtContext, todo
  <2> QED
    BY <2>1, <2>2, <2>3, <2>4, <2>5, <2>6, <2>7, <2>8 DEF Step
<1> QED
  BY <1>3, <1>4 DEF TypeOK, Step

-----------------------------------------------------------------------------
(* What is made of a packet keeps the types.                               *)

LEMMA SendFileTyped ==
    ASSUME TypeOK, NEW rest \in Seq(TaskType), SendFile(rest)
    PROVE  call' \in CallType
<1>1. /\ Small("content") \in Seq(TaskType)
      /\ Small("empty") \in Seq(TaskType)
  BY SmallTyped DEF Commands
<1>2. <<Task("ok")>> \in Seq(TaskType) /\ <<Task("any")>> \in Seq(TaskType)
  BY TasksTyped DEF Tasks, Reading
<1> DEFINE a == Small("content")
           b == Small("empty")
           c == <<Task("ok")>>
           d == <<Task("any")>>
<1> HIDE DEF a, b, c, d
<1>3. /\ a \in Seq(TaskType) /\ b \in Seq(TaskType)
      /\ c \in Seq(TaskType) /\ d \in Seq(TaskType)
  BY <1>1, <1>2 DEF a, b, c, d
<1>4. /\ a \o b \o c \o rest \in Seq(TaskType)
      /\ b \o c \o rest \in Seq(TaskType)
      /\ b \o d \in Seq(TaskType)
  BY <1>3, ConcatProperties
<1>5. \/ Go(a \o b \o c \o rest)
      \/ Go(b \o c \o rest)
      \/ Go(b \o d)
  BY DEF SendFile, a, b, c, d
<1> QED
  BY <1>4, <1>5, GoTyped

LEMMA HeaderTyped ==
    ASSUME TypeOK, call.todo # <<>>, NEW p \in PacketType, Header(p)
    PROVE  call' \in CallType
<1> DEFINE rest == IF call.name \in QueryLike THEN <<Task("nextResult")>> ELSE Tail(call.todo)
           a == <<Task("columns")>>
           b == <<Task("eof"), Task("eof")>>
<1>1. /\ <<Task("nextResult")>> \in Seq(TaskType)
      /\ a \in Seq(TaskType) /\ b \in Seq(TaskType)
  BY TasksTyped DEF Tasks, Reading
<1>2. rest \in Seq(TaskType)
  BY <1>1, RestTyped
<1>3. \/ Go(rest) \/ SendFile(rest) \/ Go(a) \/ Go(b \o rest)
      \/ Return(ErrorOf(p))
  BY DEF Header
<1> HIDE DEF rest, a, b
<1>4. b \o rest \in Seq(TaskType)
  BY <1>1, <1>2, ConcatProperties
<1>5. ErrorOf(p) \in Errors
  BY DEF ErrorOf, Errors
<1> QED
  BY <1>1, <1>2, <1>3, <1>4, <1>5, GoTyped, ReturnTyped, SendFileTyped

LEMMA PreparedTyped ==
    ASSUME TypeOK, call.todo # <<>>, NEW p \in PacketType, Prepared(p)
    PROVE  call' \in CallType
<1> DEFINE a == <<Task("eof")>>
           b == <<Task("eof"), Task("eof")>>
           rest == Tail(call.todo)
<1>1. a \in Seq(TaskType) /\ b \in Seq(TaskType)
  BY TasksTyped DEF Tasks, Reading
<1>2. rest \in Seq(TaskType)
  BY RestTyped
<1>3. Go(rest) \/ Go(a \o rest) \/ Go(b \o rest) \/ Return(ErrorOf(p))
  BY DEF Prepared
<1> HIDE DEF rest, a, b
<1>4. a \o rest \in Seq(TaskType) /\ b \o rest \in Seq(TaskType)
  BY <1>1, <1>2, ConcatProperties
<1>5. ErrorOf(p) \in Errors
  BY DEF ErrorOf, Errors
<1> QED
  BY <1>2, <1>3, <1>4, <1>5, GoTyped, ReturnTyped

LEMMA SystemVarTyped ==
    ASSUME TypeOK, call.todo # <<>>, NEW p \in PacketType, SystemVar(p)
    PROVE  call' \in CallType
<1> DEFINE a == <<Task("eof"), Task("sysrow"), Task("eof")>>
           rest == Tail(call.todo)
<1>1. a \in Seq(TaskType)
  BY TaskTyped DEF Tasks, Reading
<1>2. rest \in Seq(TaskType)
  BY RestTyped
<1>3. Go(a \o rest) \/ Go(rest) \/ Return("mysql")
  BY DEF SystemVar
<1> HIDE DEF rest, a
<1>4. a \o rest \in Seq(TaskType)
  BY <1>1, <1>2, ConcatProperties
<1> QED
  BY <1>2, <1>3, <1>4, GoTyped, ReturnTyped DEF Errors

LEMMA AuthTyped ==
    ASSUME NEW plugin, NEW tls
    PROVE  Auth(plugin, tls) \in Forms
BY DEF Auth, Forms

LEMMA LoginTyped ==
    ASSUME TypeOK, NEW plugin \in Subjects, NEW tls, Login(plugin, tls)
    PROVE  call' \in CallType
<1> DEFINE a == <<Writing("ssl", "none"), Task("tls")>>
           b == <<Writing("response", Auth(plugin, tls)), Task("authResult")>>
           todo == (IF tls THEN a ELSE <<>>) \o b
<1>1. /\ Writing("ssl", "none") \in TaskType /\ Task("tls") \in TaskType
      /\ Writing("response", Auth(plugin, tls)) \in TaskType /\ Task("authResult") \in TaskType
  BY WritingTyped, TaskTyped, AuthTyped DEF Commands, Forms, Tasks, Reading
<1>2. a \in Seq(TaskType) /\ b \in Seq(TaskType) /\ <<>> \in Seq(TaskType)
  BY <1>1
<1> HIDE DEF a, b
<1>3. todo \in Seq(TaskType)
  BY <1>2, ConcatProperties
<1> HIDE DEF todo
<1>4. call \in CallType
  BY DEF TypeOK
<1>5. [call EXCEPT !.plugin = plugin] \in CallType
  BY <1>4, CallFields
<1>6. [[call EXCEPT !.plugin = plugin] EXCEPT !.todo = todo] \in CallType
  BY <1>3, <1>5, CallFields
<1> QED
  BY <1>6 DEF Login, todo, a, b

LEMMA HandshakeTyped ==
    ASSUME TypeOK, NEW p \in PacketType, Handshake(p)
    PROVE  call' \in CallType
<1> DEFINE wanted == IF p.arg = "none" THEN "native" ELSE p.arg
<1>1. \/ Return("mysql") \/ Return("notls") \/ Return("plugin")
      \/ /\ p.kind = "handshake"
         /\ Login(wanted, Encrypted(p)) \/ Login("native", Encrypted(p))
  BY DEF Handshake
<1>2. CASE Return("mysql") \/ Return("notls") \/ Return("plugin")
  BY <1>2, ReturnTyped DEF Errors
<1>3. CASE Login("native", Encrypted(p))
  BY <1>3, LoginTyped DEF Plugins, Subjects
<1>4. CASE Login(wanted, Encrypted(p))
  <2>1. wanted \in Subjects
    BY DEF PacketType, Plugins, Subjects
  <2> QED
    BY <1>4, <2>1, LoginTyped
<1> QED
  BY <1>1, <1>2, <1>3, <1>4

(* The tasks that are left for what the server has answered. *)
LEMMA CachingSha2Typed ==
    ASSUME TypeOK, NEW data
    PROVE  CachingSha2(data) \in Seq(TaskType)
<1> DEFINE ok == <<Task("ok")>>
           a == <<Writing("secret", "clear"), Task("ok")>>
           b == <<Writing("secret", "encrypted"), Task("ok")>>
           c == <<Writing("secret", "requestKey"), Task("key"),
                  Writing("secret", "encrypted"), Task("ok")>>
           S == Seq(TaskType)
<1>1. /\ Writing("secret", "clear") \in TaskType
      /\ Writing("secret", "encrypted") \in TaskType
      /\ Writing("secret", "requestKey") \in TaskType
      /\ Task("ok") \in TaskType /\ Task("key") \in TaskType
  BY WritingTyped, TaskTyped DEF Commands, Forms, Tasks, Reading
<1>2. ok \in S /\ a \in S /\ b \in S /\ c \in S
  BY <1>1
<1>3. Setup \in S
  BY SetupTyped DEF TypeOK
<1> HIDE DEF ok, a, b, c
<1>4. ok \o Setup \in S /\ a \o Setup \in S /\ b \o Setup \in S /\ c \o Setup \in S
  BY <1>2, <1>3, ConcatProperties
<1>5. CachingSha2(data) \in {Setup, ok \o Setup, a \o Setup, b \o Setup, c \o Setup}
  BY DEF CachingSha2, ok, a, b, c
<1> QED
  BY <1>3, <1>4, <1>5

LEMMA AuthenticatedTyped ==
    ASSUME TypeOK, NEW plugin, NEW data, Authenticated(plugin, data)
    PROVE  call' \in CallType
<1> DEFINE b == <<Writing("secret", "encrypted"), Task("ok")>>
<1>1. /\ Writing("secret", "encrypted") \in TaskType
      /\ Task("ok") \in TaskType
  BY WritingTyped, TaskTyped DEF Commands, Forms, Tasks, Reading
<1>2. b \in Seq(TaskType)
  BY <1>1
<1>3. Setup \in Seq(TaskType)
  BY SetupTyped DEF TypeOK
<1>4. Go(CachingSha2(data)) \/ Go(b \o Setup) \/ Go(Setup)
  BY DEF Authenticated
<1> HIDE DEF b
<1>5. b \o Setup \in Seq(TaskType)
  BY <1>2, <1>3, ConcatProperties
<1> QED
  BY <1>3, <1>4, <1>5, GoTyped, CachingSha2Typed

LEMMA SwitchTyped ==
    ASSUME TypeOK, NEW p \in PacketType, NEW c,
           c = [call EXCEPT !.plugin = p.arg,
                  !.todo = <<Writing("secret", Auth(p.arg, mc.tls)), Task("authResult2")>>]
    PROVE  /\ c \in CallType /\ c.name = call.name /\ c.err = call.err /\ c.plugin = p.arg
           /\ c.todo = <<Writing("secret", Auth(p.arg, mc.tls)), Task("authResult2")>>
<1> DEFINE todo == <<Writing("secret", Auth(p.arg, mc.tls)), Task("authResult2")>>
<1>1. /\ Writing("secret", Auth(p.arg, mc.tls)) \in TaskType
      /\ Task("authResult2") \in TaskType
  BY WritingTyped, TaskTyped, AuthTyped DEF Commands, Tasks, Reading
<1>2. todo \in Seq(TaskType)
  BY <1>1
<1> HIDE DEF todo
<1>3. call \in CallType /\ p.arg \in Subjects
  BY DEF TypeOK, PacketType
<1>4. [call EXCEPT !.plugin = p.arg] \in CallType
  BY <1>3, CallFields
<1>5. [[call EXCEPT !.plugin = p.arg] EXCEPT !.todo = todo] \in CallType
  BY <1>2, <1>4, CallFields
<1>6. c = [[call EXCEPT !.plugin = p.arg] EXCEPT !.todo = todo]
  BY DEF todo
<1>7. c.name = call.name /\ c.err = call.err /\ c.plugin = p.arg /\ c.todo = todo
  BY <1>3, <1>6 DEF CallType
<1> QED
  BY <1>5, <1>6, <1>7 DEF todo

LEMMA AuthResultTyped ==
    ASSUME TypeOK, NEW p \in PacketType, NEW first, AuthResult(p, first)
    PROVE  call' \in CallType
<1>1. \/ Authenticated(call.plugin, "none") \/ Authenticated(call.plugin, p.arg)
      \/ call' = [call EXCEPT !.plugin = p.arg,
                    !.todo = <<Writing("secret", Auth(p.arg, mc.tls)), Task("authResult2")>>]
      \/ Return("plugin") \/ Return("mysql")
  BY DEF AuthResult
<1> QED
  BY <1>1, AuthenticatedTyped, SwitchTyped, ReturnTyped DEF Errors

LEMMA CallReadsTyped ==
    ASSUME TypeOK, call.todo # <<>>, NEW p \in PacketType, CallReads(p)
    PROVE  call' \in CallType
<1>1. ErrorOf(p) \in Errors
  BY DEF ErrorOf, Errors
<1>2. call.todo \in Seq(TaskType) /\ Tail(call.todo) \in Seq(TaskType)
  BY RestTyped
<1>3. \/ Go(Tail(call.todo)) \/ Go(call.todo)
      \/ Return(ErrorOf(p)) \/ Return("file") \/ Return("nil") \/ Return("end")
      \/ Header(p) \/ Prepared(p)
      \/ Handshake(p) \/ AuthResult(p, TRUE) \/ AuthResult(p, FALSE) \/ SystemVar(p)
  BY DEF CallReads, ConnectReads, UntilEOF, Row
<1>4. CASE Go(Tail(call.todo)) \/ Go(call.todo)
  BY <1>2, <1>4, GoTyped
<1>5. CASE Return(ErrorOf(p)) \/ Return("file") \/ Return("nil") \/ Return("end")
  BY <1>1, <1>5, ReturnTyped DEF Errors
<1> QED
  BY <1>3, <1>4, <1>5, HeaderTyped, PreparedTyped, HandshakeTyped, AuthResultTyped,
     SystemVarTyped

LEMMA HeldFields ==
    ASSUME NEW h \in HeldType
    PROVE  /\ \A b \in BOOLEAN : /\ [h EXCEPT !.open = b] \in HeldType
                                 /\ [h EXCEPT !.done = b] \in HeldType
                                 /\ [h EXCEPT !.stmt = b] \in HeldType
                                 /\ [h EXCEPT !.tx = b] \in HeldType
           /\ \A k \in Nat : [h EXCEPT !.of = k] \in HeldType
BY DEF HeldType

LEMMA RowsAfterTyped ==
    ASSUME TypeOK, NEW p \in PacketType
    PROVE  RowsAfter(p) \in HeldType
<1> DEFINE a == call.name = "Query" \/ p.kind = "result"
           b == p.kind # "result"
           opened == [held EXCEPT !.open = a, !.done = b, !.of = call.n]
           ended == [held EXCEPT !.done = TRUE, !.open = p.flag]
<1>1. held \in HeldType /\ call.n \in Nat /\ p.flag \in BOOLEAN
  BY DEF TypeOK, CallType, PacketType
<1>2. a \in BOOLEAN /\ b \in BOOLEAN
  OBVIOUS
<1> HIDE DEF a, b
<1>3. opened \in HeldType
  <2>1. [held EXCEPT !.open = a] \in HeldType
    BY <1>1, <1>2, HeldFields
  <2>2. [[held EXCEPT !.open = a] EXCEPT !.done = b] \in HeldType
    BY <1>2, <2>1, HeldFields
  <2>3. [[[held EXCEPT !.open = a] EXCEPT !.done = b] EXCEPT !.of = call.n] \in HeldType
    BY <1>1, <2>2, HeldFields
  <2> QED
    BY <2>3
<1>4. ended \in HeldType
  <2>1. [held EXCEPT !.done = TRUE] \in HeldType
    BY <1>1, HeldFields
  <2>2. [[held EXCEPT !.done = TRUE] EXCEPT !.open = p.flag] \in HeldType
    BY <1>1, <2>1, HeldFields
  <2> QED
    BY <2>2
<1>5. /\ [held EXCEPT !.done = b] \in HeldType
      /\ [held EXCEPT !.done = TRUE] \in HeldType
      /\ [held EXCEPT !.open = FALSE] \in HeldType
  BY <1>1, <1>2, HeldFields
<1>6. RowsAfter(p) \in {opened, ended, [held EXCEPT !.done = b], [held EXCEPT !.done = TRUE],
                        [held EXCEPT !.open = FALSE], held}
  BY DEF RowsAfter, a, b
<1> HIDE DEF opened, ended
<1> QED
  BY <1>1, <1>3, <1>4, <1>5, <1>6

LEMMA Spans ==
    ASSUME NEW p
    PROVE  Span(p) \in Nat /\ Span(p) >= 1 /\ (Columns <= 25 => Span(p) <= 25)
BY ColumnsAssumption DEF Span

LEMMA ConnAfterTyped ==
    ASSUME TypeOK, NEW p \in PacketType
    PROVE  ConnAfter(p) \in ConnType
<1> DEFINE d == Span(p)
           k == (mc.sequence + d) % 256
           more == IF p.kind = "ok" \/ (p.kind = "eof" /\ ~Doing("columns")) THEN p.flag ELSE mc.more
           tls == IF Doing("handshake") THEN Encrypted(p) ELSE mc.tls
           closed == mc.closed \/ p.kind = "readonly"
<1>1. mc \in ConnType /\ p.flag \in BOOLEAN /\ mc.more \in BOOLEAN /\ mc.tls \in BOOLEAN
      /\ mc.closed \in BOOLEAN /\ mc.sequence \in Nat
  BY DEF TypeOK, ConnType, PacketType
<1>21. d \in Nat
  BY Spans
<1> HIDE DEF d
<1>2. k \in Nat /\ more \in BOOLEAN /\ closed \in BOOLEAN
  BY <1>1, <1>21
<1>3. tls \in BOOLEAN
  BY <1>1 DEF Encrypted
<1> HIDE DEF k, more, tls, closed
<1>4. [mc EXCEPT !.sequence = k] \in ConnType
  BY <1>1, <1>2, ConnFields
<1>5. [[mc EXCEPT !.sequence = k] EXCEPT !.more = more] \in ConnType
  BY <1>2, <1>4, ConnFields
<1>6. [[[mc EXCEPT !.sequence = k] EXCEPT !.more = more] EXCEPT !.tls = tls] \in ConnType
  BY <1>3, <1>5, ConnFields
<1>7. [[[[mc EXCEPT !.sequence = k] EXCEPT !.more = more] EXCEPT !.tls = tls]
        EXCEPT !.closed = closed] \in ConnType
  BY <1>2, <1>6, ConnFields
<1> QED
  BY <1>7 DEF ConnAfter, d, k, more, tls, closed

LEMMA ReadPacketTypes ==
    ASSUME TypeOK, ReadPacket
    PROVE  TypeOK'
<1>1. PICK r \in Arrivals :
          /\ net' = IF r.pkt.kind = "readonly" THEN Dropped(r.net) ELSE r.net
          /\ mc' = ConnAfter(r.pkt)
          /\ held' = RowsAfter(r.pkt)
          /\ CallReads(r.pkt)
  BY DEF ReadPacket
<1>2. call.todo # <<>> /\ UNCHANGED <<watcher, server, conf>>
  BY DEF ReadPacket
<1>3. r.pkt \in PacketType /\ r.net \in NetType
  BY ArrivalTyped
<1>4. net' \in NetType /\ mc' \in ConnType /\ held' \in HeldType /\ call' \in CallType
  BY <1>1, <1>2, <1>3, DroppedTyped, ConnAfterTyped, RowsAfterTyped, CallReadsTyped
<1> QED
  BY <1>2, <1>4 DEF TypeOK

-----------------------------------------------------------------------------
(* A call begins.                                                          *)

LEMMA ProgramTyped ==
    ASSUME NEW name \in Names, NEW todo \in Program(name)
    PROVE  todo \in Seq(TaskType)
<1> DEFINE S == Seq(TaskType)
           open == <<Task("open")>>
           ends == <<Task("header"), Task("discard")>>
           header == <<Task("header")>>
           session == Small("session")
           begin == open \o session \o ends
<1>1. /\ <<Task("handshake")>> \in S /\ open \in S /\ ends \in S /\ header \in S
      /\ <<Task("prepared")>> \in S /\ <<Task("next")>> \in S /\ <<Task("nextResult")>> \in S
      /\ <<Task("buffer")>> \in S /\ <<Task("finish"), Task("closeRows")>> \in S
  BY TasksTyped DEF Tasks, Reading
<1>2. <<Writing("ping", "none"), Task("ok")>> \in S
  <2>1. Writing("ping", "none") \in TaskType /\ Task("ok") \in TaskType
    BY WritingTyped, TaskTyped DEF Commands, Forms, Tasks, Reading
  <2> QED
    BY <2>1
<1>3. /\ \A cmd \in Commands : Small(cmd) \in S /\ Large(cmd) \in S
      /\ session \in S
  BY SmallTyped, LargeTyped DEF Commands
<1>4. \A s, t \in S : s \o t \in S
  BY ConcatProperties
<1> HIDE DEF S, open, ends, header, session
<1>5. begin \in S
  BY <1>1, <1>3, <1>4
<1>6. session \o ends \o begin \in S
  BY <1>1, <1>3, <1>4, <1>5
<1>7. CASE name = "Connect"
  BY <1>1, <1>7 DEF Program, S
<1>8. CASE name = "Ping"
  BY <1>2, <1>8 DEF Program, S
<1>9. CASE name = "Exec"
  <2>1. todo \in {open \o w \o ends : w \in {Small("query"), Large("query")}}
    BY <1>9 DEF Program, open, ends
  <2>2. Small("query") \in S /\ Large("query") \in S
    BY <1>3 DEF Commands
  <2>3. PICK w \in S : todo = open \o w \o ends
    BY <2>1, <2>2
  <2>4. open \o w \in S
    BY <1>1, <1>4
  <2> QED
    BY <2>3, <2>4, <1>1, <1>4 DEF S
<1>10. CASE name = "Query"
  <2>1. todo = open \o Small("query") \o header
    BY <1>10 DEF Program, open, header
  <2>2. Small("query") \in S
    BY <1>3 DEF Commands
  <2> QED
    BY <2>1, <2>2, <1>1, <1>4 DEF S
<1>11. CASE name = "Prepare"
  <2>1. todo = open \o Small("prepare") \o <<Task("prepared")>>
    BY <1>11 DEF Program, open
  <2>2. Small("prepare") \in S
    BY <1>3 DEF Commands
  <2> QED
    BY <2>1, <2>2, <1>1, <1>4 DEF S
<1>12. CASE name = "StmtExec"
  <2> DEFINE long == <<Task("buffer")>> \o Small("longdata") \o Small("execute")
  <2>1. todo \in {open \o w \o ends : w \in {Small("execute"), long}}
    BY <1>12 DEF Program, open, ends
  <2>2. Small("execute") \in S /\ Small("longdata") \in S
    BY <1>3 DEF Commands
  <2>3. long \in S
    BY <2>2, <1>1, <1>4
  <2> HIDE DEF long
  <2>4. PICK w \in S : todo = open \o w \o ends
    BY <2>1, <2>2, <2>3
  <2>5. open \o w \in S
    BY <1>1, <1>4
  <2> QED
    BY <2>4, <2>5, <1>1, <1>4 DEF S
<1>13. CASE name = "StmtQuery"
  <2>1. todo = open \o Small("execute") \o header
    BY <1>13 DEF Program, open, header
  <2>2. Small("execute") \in S
    BY <1>3 DEF Commands
  <2> QED
    BY <2>1, <2>2, <1>1, <1>4 DEF S
<1>14. CASE name = "BeginTx"
  <2>1. todo \in {begin, session \o ends \o begin}
    BY <1>14 DEF Program, open, ends, session
  <2> QED
    BY <2>1, <1>5, <1>6 DEF S
<1>15. CASE name = "Commit"
  <2>1. todo = open \o Small("commit") \o ends
    BY <1>15 DEF Program, open, ends
  <2>2. Small("commit") \in S
    BY <1>3 DEF Commands
  <2> QED
    BY <2>1, <2>2, <1>1, <1>4 DEF S
<1>16. CASE name = "StmtClose"
  <2>1. todo = open \o Small("stmtClose")
    BY <1>16 DEF Program, open
  <2>2. Small("stmtClose") \in S
    BY <1>3 DEF Commands
  <2> QED
    BY <2>1, <2>2, <1>1, <1>4 DEF S
<1>17. CASE name \in {"Next", "NextResultSet", "RowsClose"}
  BY <1>1, <1>17 DEF Program, S
<1> QED
  BY <1>7, <1>8, <1>9, <1>10, <1>11, <1>12, <1>13, <1>14, <1>15, <1>16, <1>17 DEF Names

NewCall(name, todo, err) ==
    [name |-> name, n |-> call.n + 1, todo |-> todo, err |-> err, plugin |-> "none"]

LEMMA StartCases ==
    ASSUME NEW name, NEW c, Start(name, c)
    PROVE  \/ /\ call' = NewCall(name, <<>>, "badconn") /\ name = "Ping"
              /\ UNCHANGED <<mc, net, watcher>>
           \/ /\ \E err \in {"early", "ctx"} : call' = NewCall(name, <<>>, err)
              /\ UNCHANGED <<mc, net, watcher>>
           \/ LET w == IF name \in Watched THEN WatchCancel(c)
                       ELSE [mc |-> mc, net |-> net, watcher |-> watcher]
              IN  /\ \E todo \in Program(name) : call' = NewCall(name, todo, "running")
                  /\ mc' = [w.mc EXCEPT !.sequence = IF HasRows THEN @ ELSE 0]
                  /\ net' = w.net /\ watcher' = w.watcher
BY DEF Start, NewCall

LEMMA WatchCancelTyped ==
    ASSUME TypeOK, NEW c \in {"none", "live", "done"}
    PROVE  /\ WatchCancel(c).mc \in ConnType
           /\ WatchCancel(c).net \in NetType
           /\ WatchCancel(c).watcher \in WatcherType
           /\ WatchCancel(c).net \in {net, Dropped(net)}
<1>1. mc \in ConnType /\ net \in NetType /\ watcher \in WatcherType
  BY DEF TypeOK
<1>2. /\ [mc EXCEPT !.watching = TRUE] \in ConnType
      /\ Closed(mc) \in ConnType
      /\ Dropped(net) \in NetType
  BY <1>1, ConnFields, ClosedTyped, DroppedTyped
<1> DEFINE w == [watcher EXCEPT !.handed = TRUE, !.ctx = "live"]
<1>3. \A x \in {"none", "live", "done"} : [watcher EXCEPT !.ctx = x] \in WatcherType
  BY <1>1 DEF WatcherType
<1>4. w \in WatcherType
  <2>1. [watcher EXCEPT !.handed = TRUE] \in WatcherType
    BY <1>1 DEF WatcherType
  <2>2. [[watcher EXCEPT !.handed = TRUE] EXCEPT !.ctx = "live"] \in WatcherType
    BY <2>1 DEF WatcherType
  <2> QED
    BY <2>2
<1> HIDE DEF w
<1>5. CASE mc.watching
  BY <1>1, <1>2, <1>5 DEF WatchCancel
<1>6. CASE ~mc.watching /\ c = "live"
  <2>1. WatchCancel(c) = [mc |-> [mc EXCEPT !.watching = TRUE], net |-> net, watcher |-> w]
    BY <1>6 DEF WatchCancel, w
  <2> QED
    BY <1>1, <1>2, <1>4, <2>1
<1>7. CASE ~mc.watching /\ c # "live"
  <2>1. WatchCancel(c) = [mc |-> mc, net |-> net, watcher |-> [watcher EXCEPT !.ctx = c]]
    BY <1>7 DEF WatchCancel
  <2> QED
    BY <1>1, <1>3, <2>1
<1> QED
  BY <1>5, <1>6, <1>7

LEMMA NewCallTyped ==
    ASSUME TypeOK, NEW name \in Names, NEW todo \in Seq(TaskType), NEW err \in Errors
    PROVE  NewCall(name, todo, err) \in CallType
<1> DEFINE S == Seq(TaskType)
<1>1. todo \in S /\ call.n \in Nat
  BY DEF TypeOK, CallType
<1> HIDE DEF S
<1>2. NewCall(name, todo, err) \in
        [name : Names \cup {"new", "pooled"}, n : Nat, todo : S, err : Errors, plugin : Subjects]
  BY <1>1 DEF NewCall, Subjects
<1> QED
  BY <1>2 DEF CallType, S

LEMMA StartTypes ==
    ASSUME TypeOK, NEW name \in Names, NEW c \in {"none", "live", "done"}, Start(name, c)
    PROVE  TypeOK'
<1>1. held' \in HeldType
  <2> DEFINE o == held.open /\ HasRows
             f == IF HasRows THEN held.of ELSE 0
             d == held.done /\ HasRows
             s == HasStmt
             t == InTx
  <2>1. held \in HeldType /\ o \in BOOLEAN /\ d \in BOOLEAN /\ f \in Nat
    BY DEF TypeOK, HeldType
  <2>2. s \in BOOLEAN /\ t \in BOOLEAN
    BY DEF HasStmt, InTx
  <2>3. held' = [held EXCEPT !.open = o, !.of = f, !.done = d, !.stmt = s, !.tx = t]
    BY DEF Start
  <2> HIDE DEF o, f, d, s, t
  <2>4. [held EXCEPT !.open = o] \in HeldType
    BY <2>1, HeldFields
  <2>5. [[held EXCEPT !.open = o] EXCEPT !.of = f] \in HeldType
    BY <2>1, <2>4, HeldFields
  <2>6. [[[held EXCEPT !.open = o] EXCEPT !.of = f] EXCEPT !.done = d] \in HeldType
    BY <2>1, <2>5, HeldFields
  <2>7. [[[[held EXCEPT !.open = o] EXCEPT !.of = f] EXCEPT !.done = d] EXCEPT !.stmt = s]
            \in HeldType
    BY <2>2, <2>6, HeldFields
  <2>8. [[[[[held EXCEPT !.open = o] EXCEPT !.of = f] EXCEPT !.done = d] EXCEPT !.stmt = s]
            EXCEPT !.tx = t] \in HeldType
    BY <2>2, <2>7, HeldFields
  <2> QED
    BY <2>3, <2>8
<1>2. server' \in ServerType
  BY DEF Start, TypeOK, ServerType
<1>3. mc \in ConnType /\ net \in NetType /\ watcher \in WatcherType /\ <<>> \in Seq(TaskType)
  BY DEF TypeOK
<1>4. mc' \in ConnType /\ net' \in NetType /\ watcher' \in WatcherType /\ call' \in CallType
  <2>1. CASE /\ call' = NewCall(name, <<>>, "badconn")
             /\ UNCHANGED <<mc, net, watcher>>
    BY <1>3, <2>1, NewCallTyped DEF Errors
  <2>2. CASE /\ \E err \in {"early", "ctx"} : call' = NewCall(name, <<>>, err)
             /\ UNCHANGED <<mc, net, watcher>>
    BY <1>3, <2>2, NewCallTyped DEF Errors
  <2>3. ASSUME NEW w, w = IF name \in Watched THEN WatchCancel(c)
                          ELSE [mc |-> mc, net |-> net, watcher |-> watcher],
               \E todo \in Program(name) : call' = NewCall(name, todo, "running"),
               mc' = [w.mc EXCEPT !.sequence = IF HasRows THEN @ ELSE 0],
               net' = w.net, watcher' = w.watcher
        PROVE  mc' \in ConnType /\ net' \in NetType /\ watcher' \in WatcherType
               /\ call' \in CallType
    <3>1. w.mc \in ConnType /\ w.net \in NetType /\ w.watcher \in WatcherType
      BY <1>3, <2>3, WatchCancelTyped
    <3> DEFINE k == IF HasRows THEN w.mc.sequence ELSE 0
    <3>2. k \in Nat
      BY <3>1 DEF ConnType
    <3> HIDE DEF k
    <3>3. mc' = [w.mc EXCEPT !.sequence = k]
      BY <2>3 DEF k
    <3>4. mc' \in ConnType
      BY <3>1, <3>2, <3>3, ConnFields
    <3>5. call' \in CallType
      BY <2>3, ProgramTyped, NewCallTyped DEF Errors
    <3> QED
      BY <2>3, <3>1, <3>4, <3>5
  <2> QED
    BY StartCases, <2>1, <2>2, <2>3
<1> QED
  BY <1>1, <1>2, <1>4 DEF TypeOK, Start

-----------------------------------------------------------------------------
(* The server's packets.                                                   *)

LEMMA PacketTyped ==
    ASSUME NEW kind \in Kinds, NEW arg \in Subjects
    PROVE  /\ Packet(kind, arg) \in PacketType
           /\ Packet(kind, arg).kind = kind /\ Packet(kind, arg).arg = arg
BY DEF Packet, PacketType

(* How many columns there are before a packet of an answer. *)
LEMMA FieldsBefore ==
    ASSUME NEW a, NEW i \in Nat, i >= 1
    PROVE  /\ Fields(a, i) \in Nat /\ Fields(a, i) <= i - 1
           /\ Fields(a, i + 1) = Fields(a, i) + IF a[i].kind = "field" THEN 1 ELSE 0
<1> DEFINE S(k) == {j \in 1..(k - 1) : a[j].kind = "field"}
           T == S(i)
           U == S(i + 1)
           m == i - 1
<1>1. m \in Nat /\ IsFiniteSet(1..m) /\ Cardinality(1..m) = m
  <2>1. m \in Nat
    OBVIOUS
  <2> HIDE DEF m
  <2> QED
    BY <2>1, FS_Interval
<1>2. T \subseteq 1..m
  OBVIOUS
<1>3. U = IF a[i].kind = "field" THEN T \cup {i} ELSE T
  <2>1. 1..((i + 1) - 1) = 1..(i - 1) \cup {i}
    OBVIOUS
  <2> QED
    BY <2>1
<1>4. i \notin T
  OBVIOUS
<1> HIDE DEF T, U, m
<1>5. IsFiniteSet(T) /\ Cardinality(T) <= m
  BY <1>1, <1>2, FS_Subset
<1>6. Cardinality(T) \in Nat /\ Cardinality(T \cup {i}) = Cardinality(T) + 1
  BY <1>4, <1>5, FS_CardinalityType, FS_AddElement
<1>7. Cardinality(U) = Cardinality(T) + IF a[i].kind = "field" THEN 1 ELSE 0
  BY <1>3, <1>6
<1>8. Fields(a, i) = Cardinality(T) /\ Fields(a, i + 1) = Cardinality(U)
  BY DEF Fields, T, U
<1> QED
  BY <1>5, <1>6, <1>7, <1>8 DEF m

LEMMA NumberTyped ==
    ASSUME NEW a, NEW seq \in Nat, NEW i \in Nat, i >= 1
    PROVE  Number(a, seq, i) \in Nat
<1> DEFINE f == Fields(a, i)
           d == (Columns - 1) * f
           k == seq + i + d
<1>1. f \in Nat
  BY FieldsBefore
<1> HIDE DEF f
<1>2. Columns - 1 \in Nat
  BY ColumnsAssumption
<1>3. d \in Nat
  BY <1>1, <1>2
<1> HIDE DEF d
<1>4. k \in Nat
  BY <1>3
<1> HIDE DEF k
<1>5. k % 256 \in Nat
  BY <1>4
<1> QED
  BY <1>5 DEF Number, f, d, k

LEMMA NumberingTyped ==
    ASSUME NEW answer \in Seq(PacketType), NEW c \in CommandType
    PROVE  /\ Numbering(answer, c) \in Seq(PacketType)
           /\ Len(Numbering(answer, c)) = Len(answer)
           /\ \A i \in 1..Len(answer) :
                 /\ Numbering(answer, c)[i].kind = answer[i].kind
                 /\ Numbering(answer, c)[i].arg = answer[i].arg
<1> DEFINE n == Len(answer)
           f == Numbering(answer, c)
<1>1. n \in Nat /\ DOMAIN answer = 1..n /\ \A i \in 1..n : answer[i] \in PacketType
  BY LenProperties, ElementOfSeq
<1>2. c.seq \in Nat /\ c.of \in Nat
  BY DEF CommandType
<1>3. ASSUME NEW i \in 1..n
      PROVE  /\ f[i] \in PacketType
             /\ f[i].kind = answer[i].kind /\ f[i].arg = answer[i].arg
  <2> DEFINE p == answer[i]
             k == Number(answer, c.seq, i)
  <2>0. i \in Nat /\ i >= 1
    BY <1>1
  <2>1. p \in PacketType /\ k \in Nat
    BY <1>1, <1>2, <2>0, NumberTyped
  <2>2. f[i] = [[p EXCEPT !.seq = k] EXCEPT !.of = c.of]
    BY <1>1 DEF Numbering
  <2> HIDE DEF p, k, f
  <2>3. [p EXCEPT !.seq = k] \in PacketType
    BY <2>1, PacketFields
  <2>4. [[p EXCEPT !.seq = k] EXCEPT !.of = c.of] \in PacketType
    BY <2>3, <1>2, PacketFields
  <2>5. /\ [[p EXCEPT !.seq = k] EXCEPT !.of = c.of].kind = p.kind
        /\ [[p EXCEPT !.seq = k] EXCEPT !.of = c.of].arg = p.arg
    BY <2>1 DEF PacketType
  <2> QED
    BY <2>2, <2>4, <2>5 DEF p
<1>4. f = [i \in 1..n |-> f[i]]
  BY <1>1 DEF Numbering
<1> HIDE DEF f, n
<1>5. f \in [1..n -> PacketType]
  BY <1>3, <1>4
<1>6. f \in Seq(PacketType) /\ Len(f) = n
  BY <1>1, <1>5
<1> QED
  BY <1>3, <1>6 DEF f, n

LEMMA OkTyped ==
    ASSUME NEW b \in BOOLEAN
    PROVE  Ok(b) \in Seq(PacketType)
<1> DEFINE p == Packet("ok", "none")
<1>1. p \in PacketType
  BY PacketTyped DEF Kinds, Subjects
<1> HIDE DEF p
<1>2. [p EXCEPT !.flag = b] \in PacketType
  BY <1>1, PacketFields
<1> DEFINE q == [p EXCEPT !.flag = b]
<1> HIDE DEF q
<1>3. <<q>> \in Seq(PacketType)
  BY <1>2 DEF q
<1> QED
  BY <1>3 DEF Ok, p, q

LEMMA SinglesTyped ==
    \A kind \in Kinds, arg \in Subjects : <<Packet(kind, arg)>> \in Seq(PacketType)
BY PacketTyped

LEMMA ErrorTyped == Error \in Seq(PacketType)
BY SinglesTyped DEF Error, Kinds, Subjects

LEMMA ResultTyped ==
    ASSUME NEW n \in Nat, NEW b \in BOOLEAN
    PROVE  Result(n, b) \in Seq(PacketType) /\ Len(Result(n, b)) = n + 4
<1> DEFINE header == <<Packet("result", "none"), Packet("field", "none"), Packet("eof", "none")>>
           row == Packet("row", "none")
           rows == [i \in 1..n |-> Packet("row", "none")]
           eof == Packet("eof", "none")
           last == [eof EXCEPT !.flag = b]
<1>1. /\ Packet("result", "none") \in PacketType /\ Packet("field", "none") \in PacketType
      /\ eof \in PacketType /\ row \in PacketType
  BY PacketTyped DEF Kinds, Subjects
<1>2. header \in Seq(PacketType) /\ Len(header) = 3
  BY <1>1
<1> HIDE DEF header, row, eof
<1>3. rows \in Seq(PacketType) /\ Len(rows) = n
  <2>1. rows = [i \in 1..n |-> row]
    BY DEF row
  <2>2. [i \in 1..n |-> row] \in [1..n -> PacketType]
    BY <1>1
  <2> QED
    BY <2>1, <2>2
<1>4. last \in PacketType
  BY <1>1, PacketFields
<1> HIDE DEF rows, last
<1>5. <<last>> \in Seq(PacketType) /\ Len(<<last>>) = 1
  BY <1>4
<1> DEFINE lines == header \o rows
<1>6. lines \in Seq(PacketType) /\ Len(lines) = Len(header) + Len(rows)
  BY <1>2, <1>3, ConcatProperties
<1> HIDE DEF lines
<1>7. /\ lines \o <<last>> \in Seq(PacketType)
      /\ Len(lines \o <<last>>) = Len(lines) + Len(<<last>>)
  BY <1>5, <1>6, ConcatProperties
<1>8. Result(n, b) = lines \o <<last>>
  BY DEF Result, header, rows, last, eof, lines
<1> QED
  BY <1>2, <1>3, <1>5, <1>6, <1>7, <1>8

LEMMA VariableIs == Variable \in Seq(PacketType)
<1> DEFINE a == Result(1, FALSE)
           p == a[2]
           q == [p EXCEPT !.kind = "column"]
<1>1. a \in Seq(PacketType) /\ Len(a) = 1 + 4
  BY ResultTyped
<1>2. Variable = [a EXCEPT ![2] = q]
  BY DEF Variable
<1> HIDE DEF a
<1>3. p \in PacketType
  BY <1>1, ElementOfSeq
<1> HIDE DEF p
<1>4. q \in PacketType
  BY <1>3 DEF PacketType, Kinds
<1> HIDE DEF q
<1>5. [a EXCEPT ![2] = q] \in Seq(PacketType)
  BY <1>1, <1>4
<1> QED
  BY <1>2, <1>5

LEMMA AnswersTyped ==
    ASSUME NEW cmd \in Commands, NEW answer \in Answers(cmd)
    PROVE  answer \in Seq(PacketType)
<1> DEFINE S == Seq(PacketType)
<1>1. /\ \A b \in BOOLEAN : Ok(b) \in S /\ Result(0, b) \in S /\ Result(1, b) \in S
      /\ Error \in S /\ <<>> \in S
      /\ \A kind \in Kinds : <<Packet(kind, "none")>> \in S
  BY OkTyped, ErrorTyped, ResultTyped, SinglesTyped DEF Subjects
<1>2. \A s, t \in S : s \o t \in S
  BY ConcatProperties
<1>3. SubSeq(Result(1, FALSE), 1, 4) \in S
  <2> DEFINE s == Result(1, FALSE)
  <2>1. s \in S /\ Len(s) = 1 + 4
    BY ResultTyped
  <2> HIDE DEF s
  <2>2. \A i \in 1..Len(s) : s[i] \in PacketType
    BY <2>1, ElementOfSeq
  <2>3. \A i \in 1..4 : s[i] \in PacketType
    BY <2>1, <2>2
  <2>4. SubSeq(s, 1, 4) \in S
    BY <2>3, SubSeqProperties
  <2> QED
    BY <2>4 DEF s
<1> HIDE DEF S
<1>4. \A b \in BOOLEAN, s \in Last : s \in S /\ Ok(b) \o s \in S /\ Result(0, b) \o s \in S
  <2>1. \A s \in Last : s \in S
    BY <1>1 DEF Last, Refusal, Kinds
  <2> QED
    BY <1>1, <1>2, <2>1
<1>5. CASE cmd = "query" /\ call.name = "Connect"
  <2>1. Answers("query") = {Error, Ok(FALSE), Variable}
    BY <1>5 DEF Answers
  <2> QED
    BY <1>1, <1>5, <2>1, VariableIs DEF S
<1>6. CASE cmd = "query" /\ call.name # "Connect"
  <2> DEFINE C == {SubSeq(Result(1, FALSE), 1, 4) \o Error}
             F == {Ok(TRUE), Result(0, TRUE)}
  <2>1. Answers("query") = Last \cup C \cup {first \o last : first \in F, last \in Last}
    BY <1>6 DEF Answers
  <2>2. C \subseteq S
    BY <1>1, <1>2, <1>3 DEF Kinds
  <2>3. F \subseteq S
    BY <1>1
  <2> HIDE DEF C, F
  <2>4. CASE answer \in {first \o last : first \in F, last \in Last}
    <3>1. PICK first \in F, last \in Last : answer = first \o last
      BY <2>4
    <3> QED
      BY <1>2, <1>4, <2>3, <3>1 DEF S
  <2>5. CASE answer \in Last \cup C
    BY <1>4, <2>2, <2>5 DEF S
  <2> DEFINE D == {first \o last : first \in F, last \in Last}
  <2> HIDE DEF D
  <2>6. Answers("query") = Last \cup C \cup D
    BY <2>1 DEF D
  <2>7. answer \in Last \cup C \/ answer \in D
    BY <1>6, <2>6
  <2> QED
    BY <2>4, <2>5, <2>7 DEF D
<1>7. CASE cmd = "execute"
  <2>1. Answers("execute") = {Ok(FALSE), Error, Refusal, Result(1, FALSE), Result(0, TRUE) \o Ok(FALSE),
                              Result(0, TRUE) \o Refusal}
    BY DEF Answers
  <2>2. Refusal \in S /\ Result(0, TRUE) \o Ok(FALSE) \in S /\ Result(0, TRUE) \o Refusal \in S
    BY <1>1, <1>2 DEF Refusal, Kinds
  <2> QED
    BY <1>1, <1>7, <2>1, <2>2 DEF S
<1>8. CASE cmd = "prepare"
  <2> DEFINE a == <<Packet("prep1", "none"), Packet("field", "none"), Packet("eof", "none")>>
             b == <<Packet("prep2", "none"), Packet("field", "none"), Packet("eof", "none"),
                    Packet("field", "none"), Packet("eof", "none")>>
  <2>1. Answers("prepare") = {Error, <<Packet("prep0", "none")>>, a, b}
    BY DEF Answers
  <2>2. /\ Packet("prep1", "none") \in PacketType /\ Packet("prep2", "none") \in PacketType
        /\ Packet("field", "none") \in PacketType /\ Packet("eof", "none") \in PacketType
    BY PacketTyped DEF Kinds, Subjects
  <2>3. a \in S /\ b \in S /\ <<Packet("prep0", "none")>> \in S
    BY <1>1, <2>2 DEF S, Kinds
  <2> HIDE DEF a, b
  <2> QED
    BY <1>1, <1>8, <2>1, <2>3 DEF S
<1>9. CASE cmd \in {"ping", "session", "commit"}
  <2>1. /\ Answers("ping") = {Ok(FALSE), Error}
        /\ Answers("session") = {Ok(FALSE), Error}
        /\ Answers("commit") = {Ok(FALSE), Error}
    BY DEF Answers
  <2> QED
    BY <1>1, <1>9, <2>1 DEF S
<1>10. CASE cmd = "empty"
  <2>1. Answers("empty") = {Ok(FALSE), Error, Ok(TRUE) \o Ok(FALSE), Ok(TRUE) \o Refusal}
    BY DEF Answers
  <2>2. Refusal \in S /\ Ok(TRUE) \o Refusal \in S
    BY <1>1, <1>2 DEF Refusal, Kinds
  <2> QED
    BY <1>1, <1>2, <1>10, <2>1, <2>2 DEF S
<1>11. CASE cmd \in {"stmtClose", "longdata", "content", "ssl"}
  <2>1. Answers("stmtClose") = {<<>>} /\ Answers("longdata") = {<<>>}
    BY DEF Answers
  <2>2. Answers("content") = {<<>>} /\ Answers("ssl") = {<<>>}
    BY DEF Answers
  <2> QED
    BY <1>1, <1>11, <2>1, <2>2 DEF S
<1>12. CASE cmd \in {"none", "response", "secret"}
  <2>1. Answers("none") = {<<>>} /\ Answers("response") = {<<>>} /\ Answers("secret") = {<<>>}
    BY DEF Answers
  <2> QED
    BY <1>1, <1>12, <2>1 DEF S
<1> QED
  BY <1>5, <1>6, <1>7, <1>8, <1>9, <1>10, <1>11, <1>12 DEF Commands

(* What a server answers to a packet of the login: it accepts, or sends    *)
(* one packet that does not.                                               *)
AuthAnswer(answer, p, f) ==
    /\ answer \in Seq(PacketType) /\ answer # <<>>
    /\ \/ /\ Len(answer) = 1 /\ ~answer[1].flag
          /\ answer[1].kind \in {"ok", "err", "key", "switch", "more"}
          /\ answer[1].kind = "more" =>
                \/ answer[1].arg = "key" /\ p = "sha256"
                \/ answer[1].arg = "full" /\ p = "caching"
       \/ /\ Len(answer) = 2 /\ ~answer[1].flag /\ ~answer[2].flag
          /\ answer[1].kind = "more" /\ answer[1].arg = "fast" /\ answer[2].kind = "ok"
          /\ p = "caching" /\ f = "scramble"

LEMMA AuthAnswerIs ==
    ASSUME NEW seen, NEW p, NEW f, NEW answer \in AuthAnswers(p, f) \cup Switches(seen)
    PROVE  AuthAnswer(answer, p, f)
<1> DEFINE single(kind, arg) == <<Packet(kind, arg)>>
           S == Seq(PacketType)
           fast == <<Packet("more", "fast"), Packet("ok", "none")>>
<1>1. \A kind \in Kinds, arg \in Subjects :
          /\ single(kind, arg) \in S /\ single(kind, arg) # <<>>
          /\ Len(single(kind, arg)) = 1
          /\ single(kind, arg)[1].kind = kind /\ single(kind, arg)[1].arg = arg
          /\ ~single(kind, arg)[1].flag
  <2>1. \A kind, arg : ~Packet(kind, arg).flag
    BY DEF Packet
  <2> QED
    BY <2>1, PacketTyped
<1>2. /\ fast \in S /\ fast # <<>> /\ Len(fast) = 2 /\ fast[2].kind = "ok"
      /\ fast[1].kind = "more" /\ fast[1].arg = "fast" /\ ~fast[1].flag /\ ~fast[2].flag
  <2>1. /\ Packet("more", "fast") \in PacketType /\ Packet("ok", "none") \in PacketType
        /\ Packet("ok", "none").kind = "ok"
        /\ Packet("more", "fast").kind = "more" /\ Packet("more", "fast").arg = "fast"
    BY PacketTyped DEF Kinds, Subjects
  <2>2. ~Packet("more", "fast").flag /\ ~Packet("ok", "none").flag
    BY DEF Packet
  <2> QED
    BY <2>1, <2>2
<1>3. \/ answer \in {single("ok", "none"), single("err", "none"), single("key", "none")}
      \/ answer = fast /\ p = "caching" /\ f = "scramble"
      \/ answer = single("more", "key") /\ p = "sha256"
      \/ answer = single("more", "full") /\ p = "caching"
      \/ \E plugin \in Plugins : answer = single("switch", plugin)
  <2>1. CASE answer \in Switches(seen)
    BY <2>1 DEF Switches
  <2>2. CASE answer \in AuthAnswers(p, f)
    <3>1. Verdicts = {single("ok", "none"), single("err", "none")}
      BY DEF Verdicts
    <3> HIDE DEF single, fast
    <3>2. CASE f = "requestKey" /\ p = "sha256"
      <4>1. AuthAnswers(p, f) = {single("more", "key"), single("err", "none")}
        BY <3>2 DEF AuthAnswers, single
      <4> QED
        BY <2>2, <3>2, <4>1
    <3>3. CASE f = "requestKey" /\ p = "caching"
      <4>1. AuthAnswers(p, f) = {single("key", "none")}
        BY <3>3 DEF AuthAnswers, single
      <4> QED
        BY <2>2, <4>1
    <3>4. CASE f = "scramble" /\ p = "caching"
      <4>1. AuthAnswers(p, f) = Verdicts \cup {fast, single("more", "full")}
        BY <3>4 DEF AuthAnswers, single, fast
      <4> QED
        BY <2>2, <3>1, <3>4, <4>1
    <3>5. CASE /\ ~(f = "requestKey" /\ p = "sha256")
               /\ ~(f = "requestKey" /\ p = "caching")
               /\ ~(f = "scramble" /\ p = "caching")
      <4>1. AuthAnswers(p, f) = Verdicts
        BY <3>5 DEF AuthAnswers
      <4> QED
        BY <2>2, <3>1, <4>1
    <3> QED
      BY <3>2, <3>3, <3>4, <3>5
  <2> QED
    BY <2>1, <2>2
<1> HIDE DEF single, fast
<1>4. \A arg \in Subjects :
         /\ "ok" \in Kinds /\ "err" \in Kinds /\ "key" \in Kinds
         /\ "more" \in Kinds /\ "switch" \in Kinds
         /\ "none" \in Subjects /\ "key" \in Subjects /\ "full" \in Subjects
         /\ Plugins \subseteq Subjects
  BY DEF Kinds, Subjects
<1>5. CASE answer \in {single("ok", "none"), single("err", "none"), single("key", "none")}
  BY <1>1, <1>4, <1>5 DEF AuthAnswer, Subjects, Kinds
<1>6. CASE answer = fast /\ p = "caching" /\ f = "scramble"
  BY <1>2, <1>6 DEF AuthAnswer
<1>7. CASE answer = single("more", "key") /\ p = "sha256"
  BY <1>1, <1>7 DEF AuthAnswer, Subjects, Kinds
<1>8. CASE answer = single("more", "full") /\ p = "caching"
  BY <1>1, <1>8 DEF AuthAnswer, Subjects, Kinds
<1>9. CASE \E plugin \in Plugins : answer = single("switch", plugin)
  BY <1>1, <1>9 DEF AuthAnswer, Subjects, Kinds
<1> QED
  BY <1>3, <1>5, <1>6, <1>7, <1>8, <1>9

LEMMA AuthAnswerCases ==
    ASSUME NEW seen, NEW p, NEW f, NEW answer \in AuthAnswers(p, f) \cup Switches(seen)
    PROVE  /\ answer \in Seq(PacketType) /\ answer # <<>>
           /\ \/ answer[Len(answer)].kind = "ok"
              \/ /\ Len(answer) = 1
                 /\ answer[1].kind # "ok"
                 /\ answer[1].kind = "more" =>
                       \/ answer[1].arg = "key" /\ p = "sha256"
                       \/ answer[1].arg = "full" /\ p = "caching"
<1>1. AuthAnswer(answer, p, f)
  BY AuthAnswerIs, Zenon
<1> QED
  BY <1>1 DEF AuthAnswer

(* How an answer leaves the server. *)
LEMMA AnswerTyped ==
    ASSUME TypeOK, net.out # <<>>, NEW answer \in Seq(PacketType), NEW m,
           m = [net EXCEPT !.out = Tail(@), !.wire =
                  IF net.up /\ ~mc.closed
                  THEN @ \o Numbering(answer, Head(net.out))
                  ELSE @]
    PROVE  /\ m \in NetType /\ Head(net.out) \in CommandType
           /\ m.out = Tail(net.out) /\ m.buf = net.buf
           /\ m.wire \in {net.wire, net.wire \o Numbering(answer, Head(net.out))}
<1> DEFINE c == Head(net.out)
           out == Tail(net.out)
           wire == IF net.up /\ ~mc.closed THEN net.wire \o Numbering(answer, c) ELSE net.wire
<1>1. net \in NetType
  BY DEF TypeOK
<1>2. net.out \in Seq(CommandType) /\ net.wire \in Seq(PacketType)
  BY <1>1 DEF NetType
<1>3. c \in CommandType /\ out \in Seq(CommandType)
  BY <1>2, HeadTailProperties
<1>4. net.wire \o Numbering(answer, c) \in Seq(PacketType)
  BY <1>2, <1>3, NumberingTyped, ConcatProperties
<1>5. m = [[net EXCEPT !.out = out] EXCEPT !.wire = wire]
  BY DEF Numbering
<1>6. wire \in Seq(PacketType) /\ wire \in {net.wire, net.wire \o Numbering(answer, c)}
  BY <1>2, <1>4
<1> HIDE DEF wire, out
<1>7. [net EXCEPT !.out = out] \in NetType
  BY <1>1, <1>3, NetFields
<1>8. m \in NetType
  BY <1>5, <1>6, <1>7, NetFields, ZenonT(60)
<1>9. m.out = out /\ m.buf = net.buf /\ m.wire = wire
  BY <1>1, <1>5 DEF NetType
<1> QED
  BY <1>3, <1>6, <1>8, <1>9 DEF out

LEMMA ServerFields ==
    ASSUME NEW s \in ServerType
    PROVE  /\ \A k \in Nat : [s EXCEPT !.done = k] \in ServerType
           /\ \A b \in BOOLEAN : /\ [s EXCEPT !.file = b] \in ServerType
                                 /\ [s EXCEPT !.refused = b] \in ServerType
                                 /\ [s EXCEPT !.accepted = b] \in ServerType
                                 /\ [s EXCEPT !.switched = b] \in ServerType
BY DEF ServerType

LEMMA EffectsTyped ==
    ASSUME NEW cmd, NEW answer \in Seq(PacketType)
    PROVE  Effects(cmd, answer) \in Nat
<1> DEFINE D == {i \in DOMAIN answer : answer[i].kind \in {"ok", "result"}}
<1>1. DOMAIN answer = 1..Len(answer) /\ Len(answer) \in Nat
  BY LenProperties
<1>2. IsFiniteSet(1..Len(answer))
  BY <1>1, FS_Interval
<1>3. D \subseteq 1..Len(answer)
  BY <1>1
<1>4. IsFiniteSet(D)
  BY <1>2, <1>3, FS_Subset
<1>5. Cardinality(D) \in Nat
  BY <1>4, FS_CardinalityType
<1> HIDE DEF D
<1> QED
  BY <1>5 DEF Effects, D

LEMMA ServerTypes ==
    ASSUME TypeOK, Server
    PROVE  TypeOK'
<1> DEFINE c == Head(net.out)
<1>1. net.out # <<>> /\ UNCHANGED <<mc, call, held, watcher, conf>>
  BY DEF Server
<1>2. server \in ServerType
  BY DEF TypeOK
<1>3. CASE ServerAuthenticates(c)
  <2>1. PICK answer \in AuthAnswers(call.plugin, c.arg) \cup Switches(c.cmd) :
          /\ server' = [server EXCEPT !.accepted = @ \/ answer[Len(answer)].kind = "ok",
                                      !.switched = @ \/ answer[1].kind = "switch"]
          /\ net' = [net EXCEPT !.out = Tail(@), !.wire =
                       IF net.up /\ ~mc.closed
                       THEN @ \o Numbering(answer, c)
                       ELSE @]
    BY <1>3 DEF ServerAuthenticates
  <2>2. answer \in Seq(PacketType)
    BY AuthAnswerCases
  <2>3. net' \in NetType
    BY <1>1, <2>1, <2>2, AnswerTyped
  <2> DEFINE a == server.accepted \/ answer[Len(answer)].kind = "ok"
             s == server.switched \/ answer[1].kind = "switch"
  <2>4. a \in BOOLEAN /\ s \in BOOLEAN
    BY <1>2 DEF ServerType
  <2>5. server' = [[server EXCEPT !.accepted = a] EXCEPT !.switched = s]
    BY <2>1
  <2> HIDE DEF a, s
  <2>6. [server EXCEPT !.accepted = a] \in ServerType
    BY <1>2, <2>4, ServerFields
  <2>7. server' \in ServerType
    BY <2>4, <2>5, <2>6, ServerFields
  <2> QED
    BY <1>1, <2>3, <2>7 DEF TypeOK
<1>4. CASE ServerAnswers(c)
  <2>1. PICK answer \in Answers(c.cmd) :
          /\ server' = [server EXCEPT
                          !.done = @ + IF c.of = Owner THEN Effects(c.cmd, answer) ELSE 0,
                          !.file = @ \/ \E i \in DOMAIN answer : answer[i].kind = "file",
                          !.refused = @ \/ \E i \in DOMAIN answer : i > 1 /\ answer[i].kind = "readonly"]
          /\ net' = [net EXCEPT !.out = Tail(@), !.wire =
                       IF net.up /\ ~mc.closed
                       THEN @ \o Numbering(answer, c)
                       ELSE @]
    BY <1>4 DEF ServerAnswers
  <2>2. c \in CommandType
    BY <1>1, HeadTailProperties DEF TypeOK, NetType
  <2>3. answer \in Seq(PacketType)
    BY <2>2, AnswersTyped DEF CommandType
  <2>4. net' \in NetType
    BY <1>1, <2>1, <2>3, AnswerTyped
  <2> DEFINE d == server.done + (IF c.of = Owner THEN Effects(c.cmd, answer) ELSE 0)
             f == server.file \/ \E i \in DOMAIN answer : answer[i].kind = "file"
             r == server.refused \/ \E i \in DOMAIN answer : i > 1 /\ answer[i].kind = "readonly"
  <2>5. Effects(c.cmd, answer) \in Nat
    BY <2>3, EffectsTyped
  <2>6. d \in Nat /\ f \in BOOLEAN /\ r \in BOOLEAN
    BY <1>2, <2>5 DEF ServerType
  <2>7. server' = [[[server EXCEPT !.done = d] EXCEPT !.file = f] EXCEPT !.refused = r]
    BY <2>1
  <2> HIDE DEF d, f, r
  <2>8. [[server EXCEPT !.done = d] EXCEPT !.file = f] \in ServerType
    BY <1>2, <2>6, ServerFields
  <2>9. server' \in ServerType
    BY <2>6, <2>7, <2>8, ServerFields
  <2> QED
    BY <1>1, <2>4, <2>9 DEF TypeOK
<1> QED
  BY <1>3, <1>4 DEF Server

LEMMA ServerClosesTypes ==
    ASSUME TypeOK, ServerCloses
    PROVE  TypeOK'
<1> DEFINE wire == <<Packet("err", "none")>>
<1>1. wire \in Seq(PacketType)
  BY SinglesTyped DEF Kinds, Subjects
<1>2. net \in NetType
  BY DEF TypeOK
<1> HIDE DEF wire
<1>3. net' = [[[net EXCEPT !.up = FALSE] EXCEPT !.faulty = TRUE] EXCEPT !.wire = wire]
  BY DEF ServerCloses, wire
<1>4. [net EXCEPT !.up = FALSE] \in NetType
  BY <1>2, NetFields
<1>5. [[net EXCEPT !.up = FALSE] EXCEPT !.faulty = TRUE] \in NetType
  BY <1>4, NetFields
<1>6. net' \in NetType
  BY <1>1, <1>3, <1>5, NetFields
<1> QED
  BY <1>6 DEF TypeOK, ServerCloses

LEMMA GreetingTyped ==
    ASSUME NEW wire \in Greetings
    PROVE  /\ wire \in Seq(PacketType) /\ Len(wire) = 1
           /\ wire[1].kind \in {"handshake", "err"}
<1>1. ASSUME NEW kind \in {"handshake", "err"}, NEW arg \in Subjects, NEW f \in BOOLEAN
      PROVE  /\ Greeting(kind, arg, f) \in Seq(PacketType)
             /\ Len(Greeting(kind, arg, f)) = 1
             /\ Greeting(kind, arg, f)[1].kind = kind
  <2> DEFINE p == Packet(kind, arg)
             q == [[p EXCEPT !.flag = f] EXCEPT !.of = 1]
  <2>1. p \in PacketType /\ p.kind = kind
    BY PacketTyped DEF Kinds
  <2>2. Greeting(kind, arg, f) = <<q>>
    BY DEF Greeting
  <2> HIDE DEF p
  <2>3. [p EXCEPT !.flag = f] \in PacketType
    BY <2>1, PacketFields
  <2>4. q \in PacketType
    BY <2>3, PacketFields
  <2>5. q.kind = kind
    BY <2>1 DEF PacketType
  <2> HIDE DEF q
  <2> QED
    BY <2>2, <2>4, <2>5
<1> DEFINE S == Plugins \cup {"none"}
           D == {Greeting("handshake", p, f) : p \in S, f \in BOOLEAN}
           E == {Greeting("err", "none", FALSE)}
<1>2. "none" \in Subjects /\ S \subseteq Subjects
  BY DEF Subjects
<1>3. Greetings = D \cup E
  BY DEF Greetings
<1> HIDE DEF S, D, E
<1>4. wire \in D \/ wire \in E
  BY <1>3
<1>5. CASE wire \in D
  <2>1. wire \in {Greeting("handshake", p, f) : p \in S, f \in BOOLEAN}
    BY <1>5 DEF D
  <2>2. PICK p \in S, f \in BOOLEAN : wire = Greeting("handshake", p, f)
    BY <2>1
  <2> QED
    BY <1>1, <1>2, <2>2
<1>6. CASE wire \in E
  BY <1>1, <1>2, <1>6 DEF E
<1> QED
  BY <1>4, <1>5, <1>6

-----------------------------------------------------------------------------
(* TypeOK is an invariant.                                                 *)

LEMMA InitTypes ==
    ASSUME Init
    PROVE  TypeOK
<1>1. mc \in ConnType
  BY DEF Init, ConnType
<1>2. net \in NetType
  <2> DEFINE G == Greetings \cup {<<>>}
  <2>1. G \subseteq Seq(PacketType)
    <3>1. \A w \in Greetings : w \in Seq(PacketType)
      BY GreetingTyped
    <3>2. <<>> \in Seq(PacketType)
      OBVIOUS
    <3> QED
      BY <3>1, <3>2
  <2>2. net \in [out : {<<>>}, wire : G, buf : {<<>>}, up : {TRUE}, faulty : {FALSE}]
    BY DEF Init
  <2>3. <<>> \in Seq(CommandType) /\ <<>> \in Seq(PacketType)
    OBVIOUS
  <2> HIDE DEF G
  <2>4. /\ net = [out |-> net.out, wire |-> net.wire, buf |-> net.buf, up |-> net.up,
                  faulty |-> net.faulty]
        /\ net.out = <<>> /\ net.wire \in G /\ net.buf = <<>>
        /\ net.up \in BOOLEAN /\ net.faulty \in BOOLEAN
    BY <2>2
  <2>5. net.out \in Seq(CommandType) /\ net.wire \in Seq(PacketType) /\ net.buf \in Seq(PacketType)
    BY <2>1, <2>3, <2>4
  <2> QED
    BY <2>4, <2>5 DEF NetType
<1>3. call \in CallType
  <2>1. call \in [name : {"new", "pooled"}, n : {0}, todo : {<<>>}, err : {"running"},
                  plugin : {"none"}]
    BY DEF Init
  <2>2. /\ call = [name |-> call.name, n |-> call.n, todo |-> call.todo, err |-> call.err,
                   plugin |-> call.plugin]
        /\ call.name \in {"new", "pooled"} /\ call.n = 0 /\ call.todo = <<>>
        /\ call.err = "running" /\ call.plugin = "none"
    BY <2>1
  <2>3. "running" \in Errors /\ "none" \in Subjects /\ <<>> \in Seq(TaskType)
    BY DEF Errors, Subjects
  <2>4. /\ call.name \in Names \cup {"new", "pooled"} /\ call.n \in Nat
        /\ call.todo \in Seq(TaskType) /\ call.err \in Errors /\ call.plugin \in Subjects
    BY <2>2, <2>3
  <2> QED
    BY <2>2, <2>4 DEF CallType
<1>4. held \in HeldType
  <2>1. held \in [open : {FALSE}, done : {FALSE}, of : {0}, stmt : BOOLEAN, tx : BOOLEAN]
    BY DEF Init
  <2>2. /\ held = [open |-> held.open, done |-> held.done, of |-> held.of, stmt |-> held.stmt,
                   tx |-> held.tx]
        /\ held.open \in BOOLEAN /\ held.done \in BOOLEAN /\ held.of = 0
        /\ held.stmt \in BOOLEAN /\ held.tx \in BOOLEAN
    BY <2>1
  <2> QED
    BY <2>2 DEF HeldType
<1>5. watcher \in WatcherType
  BY DEF Init, WatcherType
<1>6. server \in ServerType
  BY DEF Init, ServerType
<1> QED
  BY <1>1, <1>2, <1>3, <1>4, <1>5, <1>6 DEF TypeOK, Init

LEMMA NextTypes ==
    ASSUME TypeOK, [Next]_connVars
    PROVE  TypeOK'
<1>1. CASE \E name \in Names, c \in {"none", "live", "done"} : Start(name, c)
  BY <1>1, StartTypes
<1>2. CASE ResetSession
  BY <1>2, ResetSessionTypes
<1>3. CASE Client
  BY <1>3, StepTypes, ReadPacketTypes, TLSHandshakeTypes, CleanupTypes, OutOfSyncTypes,
     ReadFailsTypes, BusyBufferTypes, WriteTypes, FinishTypes
     DEF Client
<1>4. CASE Server
  BY <1>4, ServerTypes
<1>5. CASE ServerCloses
  BY <1>5, ServerClosesTypes
<1>6. CASE (Watcher \/ ReadTimeout \/ CancelContext \/ Break) /\ UNCHANGED conf
  BY <1>6, WatcherTypes, ReadTimeoutTypes, CancelContextTypes, BreakTypes
<1>7. CASE UNCHANGED connVars
  BY <1>7 DEF connVars, connectVars, vars, TypeOK
<1> QED
  BY <1>1, <1>2, <1>3, <1>4, <1>5, <1>6, <1>7 DEF Next

(* The state of the connection keeps its types: every call, and what the   *)
(* server, the watcher and the network do with it, whatever packets        *)
(* arrive.                                                                 *)
THEOREM ConnectionTypeCorrect == Spec => []TypeOK
<1>1. Init => TypeOK
  BY InitTypes
<1>2. TypeOK /\ [Next]_connVars => TypeOK'
  BY NextTypes
<1> QED
  BY <1>1, <1>2, PTL DEF Spec

-----------------------------------------------------------------------------
(* The tasks of the login.                                                 *)

(* What is added behind a gate does not take it away. *)
LEMMA GatedConcat ==
    ASSUME NEW s \in Seq(TaskType), NEW t \in Seq(TaskType), Gated(s)
    PROVE  Gated(s \o t) /\ s \o t \in Seq(TaskType) /\ s \o t # <<>>
<1>1. PICK i \in 1..Len(s) :
          /\ s[i].do \in Gates
          /\ \A j \in 1..(i - 1) :
                \/ s[j].do \in {"tls", "key"}
                \/ s[j].do = "write" /\ s[j].cmd = "ssl"
                \/ /\ s[j].do = "write" /\ s[j].cmd \in {"response", "secret"}
                   /\ s[j + 1].do \in LoginReads
  BY DEF Gated
<1> DEFINE u == s \o t
<1>2. u \in Seq(TaskType) /\ Len(u) = Len(s) + Len(t)
  BY ConcatProperties
<1>3. Len(s) \in Nat /\ Len(t) \in Nat
  OBVIOUS
<1>4. \A k \in 1..Len(s) : u[k] = s[k]
  BY <1>3, ConcatProperties
<1> HIDE DEF u
<1>5. i \in 1..Len(u) /\ u[i] = s[i]
  BY <1>2, <1>3, <1>4
<1>6. ASSUME NEW j \in 1..(i - 1)
      PROVE  u[j] = s[j] /\ u[j + 1] = s[j + 1]
  BY <1>3, <1>4
<1>7. Gated(u)
  BY <1>1, <1>5, <1>6, SMTT(30) DEF Gated
<1> QED
  BY <1>2, <1>3, <1>5, <1>7 DEF u

(* As long as there is a gate, the next task is it, or one after which     *)
(* there still is one.                                                     *)
LEMMA GatedCases ==
    ASSUME NEW todo \in Seq(TaskType), Gated(todo)
    PROVE  /\ todo # <<>>
           /\ \/ Head(todo).do \in Gates
              \/ /\ Tail(todo) # <<>> /\ Gated(Tail(todo))
                 /\ \/ Head(todo).do \in {"tls", "key"}
                    \/ Head(todo).do = "write" /\ Head(todo).cmd = "ssl"
                    \/ /\ Head(todo).do = "write" /\ Head(todo).cmd \in {"response", "secret"}
                       /\ Head(Tail(todo)).do \in LoginReads
<1>1. PICK i \in 1..Len(todo) :
          /\ todo[i].do \in Gates
          /\ \A j \in 1..(i - 1) :
                \/ todo[j].do \in {"tls", "key"}
                \/ todo[j].do = "write" /\ todo[j].cmd = "ssl"
                \/ /\ todo[j].do = "write" /\ todo[j].cmd \in {"response", "secret"}
                   /\ todo[j + 1].do \in LoginReads
  BY DEF Gated
<1>2. todo # <<>> /\ Head(todo) = todo[1] /\ Len(todo) \in Nat
  OBVIOUS
<1>3. CASE i = 1
  BY <1>1, <1>2, <1>3
<1>4. CASE i > 1
  <2> DEFINE t == Tail(todo)
  <2>1. t \in Seq(TaskType) /\ Len(t) = Len(todo) - 1
    BY <1>2, HeadTailProperties
  <2>2. \A k \in 1..Len(t) : t[k] = todo[k + 1]
    BY <1>2, HeadTailProperties
  <2> HIDE DEF t
  <2>3. i - 1 \in 1..Len(t) /\ t[i - 1] = todo[i]
    BY <1>2, <1>4, <2>1, <2>2
  <2>4. ASSUME NEW j \in 1..((i - 1) - 1)
        PROVE  t[j] = todo[j + 1] /\ t[j + 1] = todo[j + 2] /\ j + 1 \in 1..(i - 1)
               /\ (j + 1) + 1 = j + 2
    BY <1>2, <2>1, <2>2, SMTT(30)
  <2>5. Gated(t)
    <3> DEFINE k == i - 1
    <3>1. k \in 1..Len(t) /\ t[k].do \in Gates
      BY <1>1, <2>3
    <3>2. ASSUME NEW j \in 1..(k - 1)
          PROVE  \/ t[j].do \in {"tls", "key"}
                 \/ t[j].do = "write" /\ t[j].cmd = "ssl"
                 \/ /\ t[j].do = "write" /\ t[j].cmd \in {"response", "secret"}
                    /\ t[j + 1].do \in LoginReads
      <4>1. \/ todo[j + 1].do \in {"tls", "key"}
            \/ todo[j + 1].do = "write" /\ todo[j + 1].cmd = "ssl"
            \/ /\ todo[j + 1].do = "write" /\ todo[j + 1].cmd \in {"response", "secret"}
               /\ todo[(j + 1) + 1].do \in LoginReads
        BY <1>1, <2>4
      <4> QED
        BY <2>4, <4>1, Zenon
    <3> HIDE DEF k
    <3> QED
      BY <3>1, <3>2 DEF Gated
  <2>6. t # <<>> /\ Head(t) = todo[2]
    BY <1>2, <1>4, <2>1, <2>2
  <2>7. 1 \in 1..(i - 1) /\ 1 + 1 = 2
    BY <1>4
  <2> QED
    BY <1>1, <1>2, <2>5, <2>6, <2>7 DEF t
<1> QED
  BY <1>3, <1>4

(* The lists of tasks that Connect makes are gated. *)
LEMMA AnswerGated ==
    ASSUME NEW w \in TaskType, NEW g \in TaskType,
           w.do = "write", w.cmd \in {"response", "secret"}, g.do \in Gates
    PROVE  <<w, g>> \in Seq(TaskType) /\ Gated(<<w, g>>)
<1> DEFINE l == <<w, g>>
<1>1. l \in Seq(TaskType) /\ Len(l) = 2 /\ l[1] = w /\ l[2] = g
  OBVIOUS
<1> HIDE DEF l
<1>2. 2 \in 1..Len(l) /\ \A j \in 1..(2 - 1) : j = 1 /\ j + 1 = 2
  BY <1>1
<1>3. Gated(l)
  BY <1>1, <1>2 DEF Gated, LoginReads
<1> QED
  BY <1>1, <1>3 DEF l

LEMMA TLSGated ==
    ASSUME NEW s \in TaskType, NEW t \in TaskType, NEW w \in TaskType, NEW g \in TaskType,
           s.do = "write", s.cmd = "ssl", t.do = "tls",
           w.do = "write", w.cmd \in {"response", "secret"}, g.do \in Gates
    PROVE  <<s, t, w, g>> \in Seq(TaskType) /\ Gated(<<s, t, w, g>>)
<1> DEFINE l == <<s, t, w, g>>
<1>1. l \in Seq(TaskType) /\ Len(l) = 4 /\ l[1] = s /\ l[2] = t /\ l[3] = w /\ l[4] = g
  OBVIOUS
<1> HIDE DEF l
<1>2. 4 \in 1..Len(l) /\ \A j \in 1..(4 - 1) : j \in {1, 2, 3} /\ (j = 3 => j + 1 = 4)
  BY <1>1
<1>3. Gated(l)
  BY <1>1, <1>2 DEF Gated, LoginReads
<1> QED
  BY <1>1, <1>3 DEF l

LEMMA KeyGated ==
    ASSUME NEW w \in TaskType, NEW k \in TaskType, NEW x \in TaskType, NEW g \in TaskType,
           w.do = "write", w.cmd = "secret", k.do = "key",
           x.do = "write", x.cmd = "secret", g.do \in Gates
    PROVE  <<w, k, x, g>> \in Seq(TaskType) /\ Gated(<<w, k, x, g>>)
<1> DEFINE l == <<w, k, x, g>>
<1>1. l \in Seq(TaskType) /\ Len(l) = 4 /\ l[1] = w /\ l[2] = k /\ l[3] = x /\ l[4] = g
  OBVIOUS
<1> HIDE DEF l
<1>2. /\ 4 \in 1..Len(l)
      /\ \A j \in 1..(4 - 1) : j \in {1, 2, 3} /\ (j = 3 => j + 1 = 4) /\ (j = 1 => j + 1 = 2)
  BY <1>1
<1>3. Gated(l)
  BY <1>1, <1>2 DEF Gated, LoginReads
<1> QED
  BY <1>1, <1>3 DEF l

-----------------------------------------------------------------------------
(* A Connect that has failed stays failed.                                 *)

Failed == call.name = "Connect" /\ call.err \notin {"nil", "running"}

LEMMA ReturnFails ==
    ASSUME TypeOK, call.name = "Connect", NEW err, Return(err),
           Failed \/ (call.err = "running" /\ err \notin {"nil", "running"})
    PROVE  Failed'
<1> DEFINE e == IF call.err = "running" THEN MarkBadConn(call.name, err) ELSE call.err
           todo == AtReturn(call.name, e)
<1>1. call \in CallType /\ call' = [call EXCEPT !.todo = todo, !.err = e]
  BY DEF TypeOK, Return
<1>2. e \notin {"nil", "running"}
  BY DEF MarkBadConn, Failed
<1> HIDE DEF e, todo
<1>3. call'.name = call.name /\ call'.err = e
  BY <1>1 DEF CallType
<1> QED
  BY <1>2, <1>3 DEF Failed

(* The steps of a call are of the same call, and it stays failed. *)
Stays ==
    /\ call'.name = call.name /\ call'.n = call.n
    /\ Failed => Failed'

LEMMA MovesStay ==
    ASSUME TypeOK,
           \/ \E todo : Go(todo)
           \/ \E err : Return(err)
           \/ \E todo : call' = [call EXCEPT !.todo = todo]
           \/ \E todo, plugin : call' = [call EXCEPT !.plugin = plugin, !.todo = todo]
           \/ \E todo : call' = [call EXCEPT !.err = "ctx", !.todo = todo]
           \/ UNCHANGED call
    PROVE  Stays
<1>1. ASSUME NEW err, Return(err) PROVE Stays
  <2>1. call'.name = call.name /\ call'.n = call.n
    BY <1>1 DEF Return, TypeOK, CallType
  <2> QED
    BY <1>1, <2>1, ReturnFails DEF Stays, Failed
<1>2. ASSUME NEW todo, Go(todo) PROVE Stays
  <2>1. CASE todo = <<>>
    BY <1>1, <1>2, <2>1 DEF Go
  <2>2. CASE todo # <<>>
    BY <1>2, <2>2 DEF Go, Failed, Stays, TypeOK, CallType
  <2> QED
    BY <2>1, <2>2
<1>3. ASSUME NEW todo, call' = [call EXCEPT !.todo = todo] PROVE Stays
  BY <1>3 DEF Failed, Stays, TypeOK, CallType
<1>4. ASSUME NEW todo, NEW plugin, call' = [call EXCEPT !.plugin = plugin, !.todo = todo]
      PROVE  Stays
  BY <1>4 DEF Failed, Stays, TypeOK, CallType
<1>5. ASSUME NEW todo, call' = [call EXCEPT !.err = "ctx", !.todo = todo] PROVE Stays
  BY <1>5 DEF Failed, Stays, TypeOK, CallType
<1>6. CASE UNCHANGED call
  BY <1>6 DEF Failed, Stays
<1> QED
  BY <1>1, <1>2, <1>3, <1>4, <1>5, <1>6

(* What is done with a packet, the steps between packets, and the writes.  *)
LEMMA ReadsStay ==
    ASSUME TypeOK, NEW p, CallReads(p)
    PROVE  Stays
<1>1. ASSUME Header(p) PROVE Stays
  <2>1. CASE p.kind = "file"
    <3>1. \A rest : SendFile(rest) => Stays
      BY MovesStay DEF SendFile
    <3> QED
      BY <1>1, <2>1, <3>1 DEF Header
  <2>2. CASE p.kind # "file"
    BY <1>1, <2>2, MovesStay DEF Header
  <2> QED
    BY <2>1, <2>2
<1>2. ASSUME UntilEOF(p) PROVE Stays
  BY <1>2, MovesStay DEF UntilEOF
<1>3. ASSUME Row(p) PROVE Stays
  BY <1>3, MovesStay DEF Row
<1>4. ASSUME Prepared(p) PROVE Stays
  BY <1>4, MovesStay DEF Prepared
<1>5. ASSUME NEW plugin, NEW tls, Login(plugin, tls) PROVE Stays
  BY <1>5, MovesStay DEF Login
<1>6. ASSUME Handshake(p) PROVE Stays
  <2>1. (\E plugin, tls : Login(plugin, tls)) \/ (\E err : Return(err))
    BY <1>6 DEF Handshake
  <2> QED
    BY <1>5, <2>1, MovesStay
<1>7. ASSUME NEW plugin, NEW data, Authenticated(plugin, data) PROVE Stays
  BY <1>7, MovesStay DEF Authenticated
<1>8. ASSUME NEW first, AuthResult(p, first) PROVE Stays
  <2>1. CASE p.kind \in {"ok", "more"}
    BY <1>7, <1>8, <2>1 DEF AuthResult
  <2>2. CASE p.kind = "switch"
    BY <1>8, <2>2, MovesStay DEF AuthResult
  <2>3. CASE p.kind \notin {"ok", "more", "switch"}
    BY <1>8, <2>3, MovesStay DEF AuthResult
  <2> QED
    BY <2>1, <2>2, <2>3
<1>9. ASSUME SystemVar(p) PROVE Stays
  BY <1>9, MovesStay DEF SystemVar
<1>10. ASSUME ConnectReads(p) PROVE Stays
  <2>1. \/ Handshake(p) \/ AuthResult(p, TRUE) \/ AuthResult(p, FALSE) \/ SystemVar(p)
        \/ \E todo : Go(todo)
    BY <1>10 DEF ConnectReads
  <2> QED
    BY <1>6, <1>8, <1>9, <2>1, MovesStay
<1> QED
  <2>1. \/ Header(p) \/ UntilEOF(p) \/ Row(p) \/ Prepared(p) \/ ConnectReads(p)
        \/ (\E todo : Go(todo)) \/ \E err : Return(err)
    BY DEF CallReads
  <2> QED
    BY <1>1, <1>2, <1>3, <1>4, <1>10, <2>1, MovesStay

LEMMA StepStays ==
    ASSUME TypeOK, Step
    PROVE  Stays
<1>1. CASE Open
  BY <1>1, MovesStay DEF Open
<1>2. CASE TakeBuffer
  BY <1>2, MovesStay DEF TakeBuffer
<1>3. CASE Discard
  BY <1>3, MovesStay DEF Discard
<1>4. CASE NextRow
  BY <1>4, MovesStay DEF NextRow
<1>5. ASSUME ReturnEnd PROVE Stays
  BY <1>5, MovesStay DEF ReturnEnd
<1>6. CASE NextResult
  BY <1>5, <1>6, MovesStay DEF NextResult
<1>7. CASE More
  BY <1>5, <1>7, MovesStay DEF More
<1>8. CASE CloseRows
  BY <1>8, MovesStay DEF CloseRows
<1>9. CASE LookAtContext
  BY <1>9, MovesStay DEF LookAtContext
<1> QED
  BY <1>1, <1>2, <1>3, <1>4, <1>6, <1>7, <1>8, <1>9 DEF Step

LEMMA WriteStays ==
    ASSUME TypeOK, Write
    PROVE  Stays
<1>1. ASSUME NEW err, Fails(err) PROVE Stays
  BY <1>1, MovesStay DEF Fails
<1>2. ASSUME NEW w, TooLarge(w) PROVE Stays
  BY <1>2, MovesStay DEF TooLarge
<1>3. ASSUME Stale PROVE Stays
  BY <1>3, MovesStay DEF Stale
<1>4. ASSUME NEW w, Sent(w) PROVE Stays
  BY <1>4, MovesStay DEF Sent
<1>5. ASSUME NothingWritten PROVE Stays
  BY <1>1, <1>5 DEF NothingWritten
<1>6. ASSUME PartWritten PROVE Stays
  BY <1>1, <1>6 DEF PartWritten
<1> QED
  BY <1>2, <1>3, <1>4, <1>5, <1>6 DEF Write

(* The steps of the client but Finish.                                     *)
Moves ==
    Step \/ ReadPacket \/ OutOfSync \/ ReadFails \/ ReadTimeout \/ BusyBuffer \/ Write \/ Cleanup
    \/ TLSHandshake

LEMMA ClientStays ==
    ASSUME TypeOK, Moves \/ Finish
    PROVE  Stays
<1>1. CASE Step
  BY <1>1, StepStays
<1>2. CASE ReadPacket
  BY <1>2, ReadsStay DEF ReadPacket
<1>3. CASE TLSHandshake
  BY <1>3, MovesStay DEF TLSHandshake
<1>4. CASE Cleanup \/ Finish
  BY <1>4, MovesStay DEF Cleanup, Finish
<1>5. CASE OutOfSync \/ ReadFails \/ BusyBuffer \/ ReadTimeout
  BY <1>5, MovesStay DEF OutOfSync, ReadFails, BusyBuffer, ReadTimeout
<1>6. CASE Write
  BY <1>6, WriteStays
<1> QED
  BY <1>1, <1>2, <1>3, <1>4, <1>5, <1>6 DEF Moves

LEMMA FailedStays ==
    ASSUME TypeOK, Failed, [Next]_connVars
    PROVE  Failed'
<1>1. ASSUME NEW name, NEW c, Start(name, c) PROVE Failed'
  BY <1>1 DEF Start, Legal, Failed
<1>2. CASE ResetSession
  BY <1>2 DEF ResetSession, Failed
<1>3. CASE Client \/ ReadTimeout
  BY <1>3, ClientStays DEF Stays, Client, Moves
<1>4. CASE Server \/ ServerCloses \/ Watcher \/ CancelContext \/ Break \/ UNCHANGED connVars
  <2>1. UNCHANGED call
    BY <1>4 DEF Server, ServerCloses, Watcher, WatcherTakes, WatcherEnds, WatcherSees, WatcherCloses,
       CancelContext, Break, connVars, connectVars, vars
  <2> QED
    BY <2>1 DEF Failed
<1> QED
  BY <1>1, <1>2, <1>3, <1>4 DEF Next

-----------------------------------------------------------------------------
(* A Connect that waits goes on to wait, or fails, until it is accepted.   *)

Waiting == call.name = "Connect" /\ call.err = "running" /\ Gated(call.todo)

LEMMA GoWaits ==
    ASSUME TypeOK, call.name = "Connect", call.err = "running",
           NEW todo \in Seq(TaskType), Gated(todo), Go(todo)
    PROVE  Waiting' /\ call'.todo = todo
<1>1. todo # <<>>
  BY GatedCases
<1>2. call \in CallType /\ call' = [call EXCEPT !.todo = todo]
  BY <1>1 DEF TypeOK, Go
<1>3. call'.name = call.name /\ call'.err = call.err /\ call'.todo = todo
  BY <1>2 DEF CallType
<1> QED
  BY <1>3 DEF Waiting

(* What is left to do when the server wants a second answer. *)
LEMMA SecretGated ==
    ASSUME TypeOK, NEW f \in Forms
    PROVE  /\ Gated(<<Writing("secret", f), Task("ok")>> \o Setup)
           /\ Gated(<<Writing("secret", "requestKey"), Task("key"),
                      Writing("secret", "encrypted"), Task("ok")>> \o Setup)
           /\ <<Writing("secret", f), Task("ok")>> \o Setup \in Seq(TaskType)
           /\ <<Writing("secret", "requestKey"), Task("key"),
                Writing("secret", "encrypted"), Task("ok")>> \o Setup \in Seq(TaskType)
<1> DEFINE w == Writing("secret", f)
           r == Writing("secret", "requestKey")
           k == Task("key")
           e == Writing("secret", "encrypted")
           g == Task("ok")
<1>1. /\ w \in TaskType /\ w.do = "write" /\ w.cmd = "secret"
      /\ r \in TaskType /\ r.do = "write" /\ r.cmd = "secret"
      /\ e \in TaskType /\ e.do = "write" /\ e.cmd = "secret"
  BY WritingTyped DEF Commands, Forms
<1>2. k \in TaskType /\ g \in TaskType
  BY TaskTyped DEF Tasks, Reading
<1>3. k.do = "key" /\ g.do = "ok"
  BY DEF Task
<1>4. Setup \in Seq(TaskType)
  BY SetupTyped DEF TypeOK
<1> HIDE DEF w, r, k, e, g
<1>5. <<w, g>> \in Seq(TaskType) /\ Gated(<<w, g>>)
  BY <1>1, <1>2, <1>3, AnswerGated DEF Gates
<1>6. <<r, k, e, g>> \in Seq(TaskType) /\ Gated(<<r, k, e, g>>)
  BY <1>1, <1>2, <1>3, KeyGated DEF Gates
<1>7. /\ Gated(<<w, g>> \o Setup) /\ Gated(<<r, k, e, g>> \o Setup)
      /\ <<w, g>> \o Setup \in Seq(TaskType) /\ <<r, k, e, g>> \o Setup \in Seq(TaskType)
  BY <1>4, <1>5, <1>6, GatedConcat
<1> QED
  BY <1>7 DEF w, r, k, e, g

LEMMA LoginWaits ==
    ASSUME TypeOK, call.name = "Connect", call.err = "running",
           NEW plugin \in Subjects, NEW tls, Login(plugin, tls)
    PROVE  Waiting'
<1> DEFINE s == Writing("ssl", "none")
           t == Task("tls")
           w == Writing("response", Auth(plugin, tls))
           g == Task("authResult")
           todo == (IF tls THEN <<s, t>> ELSE <<>>) \o <<w, g>>
<1>1. /\ s \in TaskType /\ s.do = "write" /\ s.cmd = "ssl"
      /\ w \in TaskType /\ w.do = "write" /\ w.cmd = "response"
  BY WritingTyped, AuthTyped DEF Commands, Forms
<1>2. t \in TaskType /\ g \in TaskType
  BY TaskTyped DEF Tasks, Reading
<1>3. t.do = "tls" /\ g.do = "authResult"
  BY DEF Task
<1>4. call \in CallType /\ call' = [call EXCEPT !.plugin = plugin, !.todo = todo]
  BY DEF TypeOK, Login
<1> HIDE DEF s, t, w, g
<1>5. todo = IF tls THEN <<s, t, w, g>> ELSE <<w, g>>
  <2>1. <<s, t>> \o <<w, g>> = <<s, t, w, g>>
    <3> DEFINE l == <<s, t>> \o <<w, g>>
               m == <<s, t, w, g>>
    <3>1. <<s, t>> \in Seq(TaskType) /\ <<w, g>> \in Seq(TaskType) /\ m \in Seq(TaskType)
      BY <1>1, <1>2
    <3>2. /\ l \in Seq(TaskType) /\ Len(l) = 4
          /\ l[1] = s /\ l[2] = t /\ l[3] = w /\ l[4] = g
      BY <3>1, ConcatProperties
    <3>3. Len(m) = 4 /\ m[1] = s /\ m[2] = t /\ m[3] = w /\ m[4] = g
      OBVIOUS
    <3> HIDE DEF l, m
    <3>4. \A i \in 1..Len(l) : l[i] = m[i]
      BY <3>2, <3>3
    <3>5. l = m
      BY <3>1, <3>2, <3>3, <3>4, SeqEqual
    <3> QED
      BY <3>5 DEF l, m
  <2>2. <<>> \o <<w, g>> = <<w, g>>
    BY <1>1, <1>2, ConcatEmptySeq
  <2> QED
    BY <2>1, <2>2, Zenon
<1>6. Gated(todo)
  BY <1>1, <1>2, <1>3, <1>5, AnswerGated, TLSGated DEF Gates
<1> HIDE DEF todo
<1>7. call'.name = call.name /\ call'.err = call.err /\ call'.todo = todo
  BY <1>4 DEF CallType
<1> QED
  BY <1>6, <1>7 DEF Waiting

(* A packet that does not accept leaves a gate, or is an error. *)
LEMMA ReadWaits ==
    ASSUME TypeOK, Waiting, NEW p \in PacketType, NotAccepting(p), CallReads(p),
           Head(call.todo).do \in LoginReads
    PROVE  Waiting' \/ Failed'
<1>1. /\ call.name = "Connect" /\ call.err = "running" /\ Gated(call.todo)
      /\ call.todo \in Seq(TaskType) /\ call.todo # <<>>
  BY GatedCases DEF Waiting, TypeOK, CallType
<1>2. ASSUME NEW err, err \notin {"nil", "running"}, Return(err) PROVE Failed'
  BY <1>1, <1>2, ReturnFails
<1>3. ErrorOf(p) \notin {"nil", "running"}
  BY DEF ErrorOf
<1>4. ASSUME NEW todo \in Seq(TaskType), Gated(todo), Go(todo) PROVE Waiting'
  BY <1>1, <1>4, GoWaits
<1>5. CASE Doing("ok")
  <2>1. IF p.kind = "ok" THEN Go(Tail(call.todo)) ELSE Return(ErrorOf(p))
    BY <1>5 DEF CallReads, Doing
  <2>2. p.kind # "ok"
    BY DEF NotAccepting
  <2> QED
    BY <1>2, <1>3, <2>1, <2>2
<1>6. CASE Doing("handshake")
  <2>1. Handshake(p)
    BY <1>6 DEF CallReads, ConnectReads, Doing
  <2>2. p.arg \in Subjects /\ "native" \in Subjects
    BY DEF PacketType, Subjects, Plugins
  <2>3. \/ \E plugin \in Subjects : \E tls : Login(plugin, tls)
        \/ \E err \in {"mysql", "notls", "plugin"} : Return(err)
    BY <2>1, <2>2 DEF Handshake
  <2> QED
    BY <1>1, <1>2, <2>3, LoginWaits
<1>7. CASE Doing("key")
  <2>1. Go(Tail(call.todo))
    BY <1>7 DEF CallReads, ConnectReads, Doing
  <2>2. Gated(Tail(call.todo)) /\ Tail(call.todo) \in Seq(TaskType)
    BY <1>1, <1>7, GatedCases, RestTyped DEF Doing, Gates
  <2> QED
    BY <1>4, <2>1, <2>2
<1>8. ASSUME NEW first \in BOOLEAN, AuthResult(p, first) PROVE Waiting' \/ Failed'
  <2>1. CASE p.kind = "more"
    <3>1. Authenticated(call.plugin, p.arg)
      BY <1>8, <2>1 DEF AuthResult
    <3>2. CASE p.arg = "key" /\ call.plugin = "sha256"
      <4>1. Go(<<Writing("secret", "encrypted"), Task("ok")>> \o Setup)
        BY <3>1, <3>2 DEF Authenticated
      <4> QED
        BY <1>4, <4>1, SecretGated DEF Forms
    <3>3. CASE p.arg = "full" /\ call.plugin = "caching"
      <4>1. Go(CachingSha2("full"))
        BY <3>1, <3>3 DEF Authenticated
      <4>2. CachingSha2("full") \in
               {<<Writing("secret", "clear"), Task("ok")>> \o Setup,
                <<Writing("secret", "encrypted"), Task("ok")>> \o Setup,
                <<Writing("secret", "requestKey"), Task("key"),
                  Writing("secret", "encrypted"), Task("ok")>> \o Setup}
        BY DEF CachingSha2
      <4>3. CachingSha2("full") \in Seq(TaskType) /\ Gated(CachingSha2("full"))
        BY <4>2, SecretGated DEF Forms
      <4> QED
        BY <1>4, <4>1, <4>3
    <3> QED
      BY <2>1, <3>2, <3>3 DEF NotAccepting
  <2>2. CASE p.kind = "switch" /\ MaySwitch(p, first)
    <3>1. call' = [call EXCEPT !.plugin = p.arg,
                     !.todo = <<Writing("secret", Auth(p.arg, mc.tls)), Task("authResult2")>>]
      BY <1>8, <2>2 DEF AuthResult
    <3> DEFINE w == Writing("secret", Auth(p.arg, mc.tls))
               g == Task("authResult2")
    <3>2. call'.name = call.name /\ call'.err = call.err /\ call'.todo = <<w, g>>
      BY <3>1, SwitchTyped
    <3>3. w \in TaskType /\ w.do = "write" /\ w.cmd = "secret"
      BY WritingTyped, AuthTyped DEF Commands
    <3>4. g \in TaskType
      BY TaskTyped DEF Tasks, Reading
    <3>5. g.do = "authResult2"
      BY DEF Task
    <3> HIDE DEF w, g
    <3>6. Gated(<<w, g>>)
      BY <3>3, <3>4, <3>5, AnswerGated DEF Gates
    <3> QED
      BY <1>1, <3>2, <3>6 DEF Waiting
  <2>3. CASE p.kind # "more" /\ ~(p.kind = "switch" /\ MaySwitch(p, first))
    <3>1. Return("plugin") \/ Return("mysql")
      BY <1>8, <2>3 DEF AuthResult, NotAccepting
    <3> QED
      BY <1>2, <3>1
  <2> QED
    BY <2>1, <2>2, <2>3
<1>9. CASE Doing("authResult")
  <2>1. AuthResult(p, TRUE)
    BY <1>9 DEF CallReads, ConnectReads, Doing
  <2> QED
    BY <1>8, <2>1
<1>10. CASE Doing("authResult2")
  <2>1. AuthResult(p, FALSE)
    BY <1>10 DEF CallReads, ConnectReads, Doing
  <2> QED
    BY <1>8, <2>1
<1> QED
  BY <1>1, <1>5, <1>6, <1>7, <1>9, <1>10 DEF LoginReads, Gates, Doing

-----------------------------------------------------------------------------
(* LoginInv is kept.                                                       *)

LEMMA FailedIsLogin ==
    ASSUME Failed'
    PROVE  LoginInv'
BY DEF Failed, LoginInv

LEMMA QuietIsLogin ==
    ASSUME Waiting', net'.out = <<>>, net'.wire = <<>>, net'.buf = <<>>
    PROVE  LoginInv'
<1>1. Len(<<>>) = 0 /\ 1..0 = {}
  OBVIOUS
<1>2. OneExchange'
  BY <1>1 DEF OneExchange
<1> QED
  BY <1>1, <1>2 DEF Waiting, LoginInv

(* Nothing is under way but the request for TLS, and what may have been    *)
(* written behind it if a read comes next.                                 *)
LEMMA WrittenIsLogin ==
    ASSUME Waiting', net'.wire = <<>>, net'.buf = <<>>,
           \A i \in 1..Len(net'.out) :
              /\ net'.out[i].cmd \in {"ssl", "response", "secret"}
              /\ i # Len(net'.out) => net'.out[i].cmd = "ssl",
           \/ Head(call'.todo).do \in LoginReads
           \/ \A i \in 1..Len(net'.out) : net'.out[i].cmd = "ssl"
    PROVE  LoginInv'
<1>1. Len(<<>>) = 0 /\ 1..0 = {}
  OBVIOUS
<1>2. OneExchange'
  BY <1>1 DEF OneExchange
<1> QED
  BY <1>1, <1>2 DEF Waiting, LoginInv

Attempt == Waiting /\ OneExchange /\ \A i \in 1..Len(net.wire) : NotAccepting(net.wire[i])

(* A Connect that is not over waits for the server, before anything is     *)
(* written.                                                                *)
LEMMA LoginCases ==
    ASSUME LoginInv, ~server.accepted
    PROVE  \/ /\ call.name = "new" /\ call.todo = <<>>
              /\ net.buf = <<>> /\ Len(net.wire) <= 1 /\ net.out = <<>>
              /\ \A i \in 1..Len(net.wire) : net.wire[i].kind \in {"handshake", "err"}
           \/ Failed
           \/ Attempt
BY DEF LoginInv, Failed, Attempt, Waiting

LEMMA ReadLogin ==
    ASSUME TypeOK, Attempt, ReadPacket
    PROVE  LoginInv'
<1>1. PICK r \in Arrivals :
          /\ net' = IF r.pkt.kind = "readonly" THEN Dropped(r.net) ELSE r.net
          /\ CallReads(r.pkt)
  BY DEF ReadPacket
<1>2. call.todo # <<>> /\ Head(call.todo).do \in Reading
  BY DEF ReadPacket
<1>3. r.pkt \in PacketType /\ r.net \in NetType
  BY ArrivalTyped
<1>4. /\ net.wire # <<>> /\ r.pkt = net.wire[1] /\ r.net.out = <<>>
      /\ r.net.wire = <<>> /\ r.net.buf = <<>>
  BY ArrivalTyped DEF Attempt, OneExchange
<1>5. net'.out = <<>> /\ net'.wire = <<>> /\ net'.buf = <<>>
  BY <1>1, <1>3, <1>4, DroppedTyped
<1>6. NotAccepting(r.pkt)
  <2>1. net.wire \in Seq(PacketType)
    BY DEF TypeOK, NetType
  <2>2. 1 \in 1..Len(net.wire)
    BY <1>4, <2>1, EmptySeq
  <2> QED
    BY <1>4, <2>2 DEF Attempt
<1>7. Head(call.todo).do \in LoginReads
  BY <1>4 DEF Attempt, OneExchange
<1>8. Waiting' \/ Failed'
  BY <1>1, <1>3, <1>6, <1>7, ReadWaits DEF Attempt
<1> QED
  BY <1>5, <1>8, QuietIsLogin, FailedIsLogin

LEMMA AttemptCases ==
    ASSUME TypeOK, Attempt
    PROVE  /\ call.todo \in Seq(TaskType) /\ call.todo # <<>>
           /\ \/ Head(call.todo).do \in Gates
              \/ /\ Tail(call.todo) # <<>> /\ Gated(Tail(call.todo))
                 /\ Tail(call.todo) \in Seq(TaskType)
                 /\ \/ Head(call.todo).do \in {"tls", "key"}
                    \/ Head(call.todo).do = "write" /\ Head(call.todo).cmd = "ssl"
                    \/ /\ Head(call.todo).do = "write"
                       /\ Head(call.todo).cmd \in {"response", "secret"}
                       /\ Head(Tail(call.todo)).do \in LoginReads
<1>1. call.todo \in Seq(TaskType)
  BY DEF TypeOK, CallType
<1> QED
  BY <1>1, GatedCases, RestTyped DEF Attempt, Waiting

LEMMA TLSLogin ==
    ASSUME TypeOK, Attempt, TLSHandshake
    PROVE  LoginInv'
<1>1. call.name = "Connect" /\ call.err = "running" /\ Head(call.todo).do = "tls"
  BY DEF Attempt, Waiting, TLSHandshake, Doing
<1>2. CASE Return("tls")
  BY <1>1, <1>2, ReturnFails, FailedIsLogin
<1>3. CASE Go(Tail(call.todo))
  <2>1. Waiting'
    BY <1>1, <1>3, AttemptCases, GoWaits DEF Gates
  <2>2. UNCHANGED net
    BY DEF TLSHandshake
  <2>3. /\ net.buf = <<>> /\ net.wire = <<>>
        /\ \A i \in 1..Len(net.out) : net.out[i].cmd = "ssl"
    BY <1>1 DEF Attempt, OneExchange, LoginReads, Gates
  <2> QED
    BY <2>1, <2>2, <2>3, WrittenIsLogin
<1> QED
  BY <1>2, <1>3 DEF TLSHandshake

LEMMA WriteLogin ==
    ASSUME TypeOK, Attempt, Write
    PROVE  LoginInv'
<1> DEFINE w == Head(call.todo)
<1>1. call.name = "Connect" /\ call.err = "running" /\ w.do = "write"
  BY DEF Attempt, Waiting, Write, Doing
<1>2. /\ net.buf = <<>> /\ net.wire = <<>>
      /\ \A i \in 1..Len(net.out) : net.out[i].cmd = "ssl"
  BY <1>1 DEF Attempt, OneExchange, LoginReads, Gates
<1>3. /\ call.todo \in Seq(TaskType) /\ call.todo # <<>> /\ w \in TaskType
      /\ Tail(call.todo) # <<>> /\ Gated(Tail(call.todo)) /\ Tail(call.todo) \in Seq(TaskType)
      /\ \/ w.cmd = "ssl"
         \/ w.cmd \in {"response", "secret"} /\ Head(Tail(call.todo)).do \in LoginReads
  BY <1>1, AttemptCases, RestTyped DEF Gates
<1>4. net.out \in Seq(CommandType) /\ net \in NetType
  BY DEF TypeOK, NetType
<1>5. ASSUME NEW err, err \notin {"nil", "running"}, Return(err) PROVE LoginInv'
  BY <1>1, <1>5, ReturnFails, FailedIsLogin
<1>6. ASSUME Go(Tail(call.todo)) PROVE Waiting' /\ call'.todo = Tail(call.todo)
  BY <1>1, <1>3, <1>6, GoWaits
<1>7. CASE TooLarge(w)
  BY <1>5, <1>7 DEF TooLarge
<1>8. CASE Stale
  BY <1>5, <1>8 DEF Stale
<1>9. ASSUME NEW err, err \notin {"nil", "running"}, Fails(err), net' \in {net, Dropped(net)}
      PROVE  LoginInv'
  <2>1. net'.out = net.out /\ net'.buf = <<>> /\ net'.wire = <<>>
    BY <1>2, <1>4, <1>9, DroppedTyped
  <2>2. CASE Go(Tail(call.todo))
    BY <1>2, <1>6, <2>1, <2>2, WrittenIsLogin
  <2> QED
    BY <1>5, <1>9, <2>2 DEF Fails
<1>10. CASE NothingWritten
  <2>1. \E err \in {"ctx", "nowrite"} : Fails(err)
    BY <1>10 DEF NothingWritten
  <2>2. UNCHANGED net
    BY <1>10 DEF NothingWritten
  <2> QED
    BY <1>9, <2>1, <2>2
<1>11. CASE PartWritten
  <2>1. \E err \in {"ctx", "invalid"} : Fails(err)
    BY <1>11 DEF PartWritten
  <2>2. net' \in {net, Dropped(net)}
    BY <1>11 DEF PartWritten
  <2> QED
    BY <1>9, <2>1, <2>2
<1>12. CASE Sent(w)
  <2>1. Waiting' /\ call'.todo = Tail(call.todo)
    BY <1>6, <1>12 DEF Sent
  <2>2. /\ net'.wire = <<>> /\ net'.buf = <<>>
        /\ \/ net'.out = net.out
           \/ \E c \in CommandType : c.cmd = w.cmd /\ net'.out = Append(net.out, c)
    BY <1>2, <1>3, <1>12, SentTyped
  <2>3. CASE net'.out = net.out
    BY <1>2, <2>1, <2>2, <2>3, WrittenIsLogin
  <2>4. ASSUME NEW c \in CommandType, c.cmd = w.cmd, net'.out = Append(net.out, c)
        PROVE  LoginInv'
    <3> DEFINE out == net'.out
    <3>1. Len(out) = Len(net.out) + 1 /\ Len(net.out) \in Nat
      BY <1>4, <2>4, AppendProperties
    <3>2. \A i \in 1..Len(net.out) : out[i] = net.out[i]
      BY <1>4, <2>4, AppendProperties
    <3>3. out[Len(net.out) + 1] = c
      BY <1>4, <2>4, AppendProperties
    <3> HIDE DEF out
    <3>4. \A i \in 1..Len(out) :
             IF i = Len(out) THEN out[i].cmd = w.cmd ELSE out[i].cmd = "ssl"
      BY <1>2, <2>4, <3>1, <3>2, <3>3
    <3>5. \A i \in 1..Len(out) :
              /\ out[i].cmd \in {"ssl", "response", "secret"}
              /\ i # Len(out) => out[i].cmd = "ssl"
      BY <1>3, <3>4
    <3>6. \/ Head(call'.todo).do \in LoginReads
          \/ \A i \in 1..Len(out) : out[i].cmd = "ssl"
      BY <1>3, <2>1, <3>4
    <3> QED
      BY <2>1, <2>2, <3>5, <3>6, WrittenIsLogin DEF out
  <2> QED
    BY <2>2, <2>3, <2>4
<1> QED
  BY <1>7, <1>8, <1>10, <1>11, <1>12 DEF Write

(* The server answers the one packet of the login that is under way. *)
LEMMA ServerLogin ==
    ASSUME TypeOK, Attempt, Server, ~server.accepted'
    PROVE  LoginInv'
<1> DEFINE c == Head(net.out)
           out == Tail(net.out)
<1>1. net.out # <<>> /\ UNCHANGED call
  BY DEF Server
<1>2. net.out \in Seq(CommandType) /\ net \in NetType /\ server \in ServerType
  BY DEF TypeOK, NetType
<1>3. net.wire = <<>> /\ net.buf = <<>> /\ Waiting'
  BY <1>1 DEF Attempt, OneExchange, Waiting
<1>4. c = net.out[1] /\ Len(net.out) \in Nat /\ Len(net.out) >= 1
  BY <1>1, <1>2, EmptySeq
<1>5. Len(out) = Len(net.out) - 1 /\ \A i \in 1..Len(out) : out[i] = net.out[i + 1]
  BY <1>1, <1>2, HeadTailProperties
<1>6. \A i \in 1..Len(net.out) :
          /\ net.out[i].cmd \in {"ssl", "response", "secret"}
          /\ i # Len(net.out) => net.out[i].cmd = "ssl"
  BY DEF Attempt, OneExchange
<1>7. \/ Head(call'.todo).do \in LoginReads
      \/ \A i \in 1..Len(net.out) : net.out[i].cmd = "ssl"
  BY <1>1 DEF Attempt, OneExchange
<1> HIDE DEF c, out
<1>8. CASE c.cmd = "ssl"
  <2>1. ServerAnswers(c)
    BY <1>8 DEF Server, c
  <2>2. Answers("ssl") = {<<>>}
    BY DEF Answers
  <2>3. PICK answer \in Answers(c.cmd) :
          net' = [net EXCEPT !.out = Tail(@), !.wire =
                   IF net.up /\ ~mc.closed
                   THEN @ \o Numbering(answer, c)
                   ELSE @]
    BY <2>1 DEF ServerAnswers
  <2>4. <<>> \in Seq(PacketType) /\ Len(<<>>) = 0
    OBVIOUS
  <2>5. answer \in Seq(PacketType) /\ Len(answer) = 0
    BY <1>8, <2>2, <2>3, <2>4
  <2>6. /\ net'.out = out /\ net'.buf = <<>>
        /\ net'.wire \in {net.wire, net.wire \o Numbering(answer, c)}
        /\ c \in CommandType
    BY <1>1, <1>3, <2>3, <2>5, AnswerTyped DEF out, c
  <2>7. Numbering(answer, c) = <<>>
    BY <2>5, <2>6, NumberingTyped, EmptySeq, ZenonT(60)
  <2>8. <<>> \o <<>> = <<>>
    BY <2>4, ConcatEmptySeq
  <2>9. net'.wire = <<>>
    BY <1>3, <2>6, <2>7, <2>8
  <2>10. \A i \in 1..Len(out) : i + 1 \in 1..Len(net.out) /\ (i # Len(out) => i + 1 # Len(net.out))
    BY <1>4, <1>5
  <2>11. \A i \in 1..Len(out) :
             /\ out[i].cmd \in {"ssl", "response", "secret"}
             /\ i # Len(out) => out[i].cmd = "ssl"
    BY <1>5, <1>6, <2>10
  <2>12. \/ Head(call'.todo).do \in LoginReads
         \/ \A i \in 1..Len(out) : out[i].cmd = "ssl"
    BY <1>5, <1>7, <2>10
  <2> QED
    BY <1>3, <2>6, <2>9, <2>11, <2>12, WrittenIsLogin
<1>9. CASE c.cmd \in {"response", "secret"}
  <2>1. Len(net.out) = 1 /\ Head(call'.todo).do \in LoginReads
    <3>1. 1 \in 1..Len(net.out) /\ net.out[1].cmd # "ssl"
      BY <1>4, <1>9
    <3> QED
      BY <1>6, <1>7, <3>1
  <2>2. ServerAuthenticates(c)
    BY <1>9 DEF Server, c
  <2>3. PICK answer \in AuthAnswers(call.plugin, c.arg) \cup Switches(c.cmd) :
          /\ server' = [server EXCEPT !.accepted = @ \/ answer[Len(answer)].kind = "ok",
                                      !.switched = @ \/ answer[1].kind = "switch"]
          /\ net' = [net EXCEPT !.out = Tail(@), !.wire =
                       IF net.up /\ ~mc.closed
                       THEN @ \o Numbering(answer, c)
                       ELSE @]
    BY <2>2 DEF ServerAuthenticates
  <2>4. answer[Len(answer)].kind # "ok"
    BY <1>2, <2>3 DEF ServerType
  <2>5. /\ answer \in Seq(PacketType) /\ Len(answer) = 1 /\ answer[1].kind # "ok"
        /\ answer[1].kind = "more" =>
              \/ answer[1].arg = "key" /\ call.plugin = "sha256"
              \/ answer[1].arg = "full" /\ call.plugin = "caching"
    BY <2>4, AuthAnswerCases
  <2>6. /\ net'.out = out /\ net'.buf = <<>>
        /\ net'.wire \in {net.wire, net.wire \o Numbering(answer, c)}
        /\ c \in CommandType
    BY <1>1, <1>3, <2>3, <2>5, AnswerTyped DEF out, c
  <2> DEFINE a == Numbering(answer, c)
  <2>7. /\ a \in Seq(PacketType) /\ Len(a) = 1
        /\ a[1].kind = answer[1].kind /\ a[1].arg = answer[1].arg
    BY <2>5, <2>6, NumberingTyped
  <2> HIDE DEF a
  <2>8. <<>> \o a = a
    BY <2>7, ConcatEmptySeq
  <2>9. net'.wire \in {<<>>, a}
    BY <1>3, <2>6, <2>8 DEF a
  <2>10. net'.out = <<>>
    <3>1. out \in Seq(CommandType) /\ Len(out) = 0
      BY <1>1, <1>2, <1>5, <2>1, HeadTailProperties DEF out
    <3> QED
      BY <2>6, <3>1, EmptySeq
  <2>11. CASE net'.wire = <<>>
    BY <1>3, <2>6, <2>10, <2>11, QuietIsLogin
  <2>12. CASE net'.wire = a
    <3>1. Len(<<>>) = 0 /\ 1..0 = {} /\ 1..1 = {1}
      OBVIOUS
    <3>2. OneExchange'
      <4>1. Len(net'.wire) = 1 /\ Len(net'.out) = Len(<<>>)
        BY <2>7, <2>10, <2>12
      <4> QED
        BY <2>1, <2>6, <2>10, <3>1, <4>1 DEF OneExchange
    <3>3. call' = call /\ Len(net'.wire) = 1 /\ net'.wire[1] = a[1]
      BY <1>1, <2>7, <2>12
    <3>4. NotAccepting(net.wire[1])'
      BY <2>5, <2>7, <3>3 DEF NotAccepting
    <3> QED
      BY <1>3, <3>1, <3>2, <3>3, <3>4 DEF Waiting, LoginInv
  <2> QED
    BY <2>9, <2>11, <2>12
<1> QED
  BY <1>4, <1>6, <1>8, <1>9

(* The network loses what is under way, or nothing. *)
LEMMA LossLogin ==
    ASSUME TypeOK, LoginInv, ~server.accepted, UNCHANGED <<call, server>>,
           \/ net' \in {net, Dropped(net)}
           \/ Break
    PROVE  LoginInv'
<1>1. net \in NetType /\ net.wire \in Seq(PacketType) /\ Len(net.wire) \in Nat
  BY DEF TypeOK, NetType
<1>2. /\ net'.out \in {net.out, <<>>} /\ net'.buf = net.buf
      /\ Len(net'.wire) \in Nat /\ Len(net'.wire) <= Len(net.wire)
      /\ \A i \in 1..Len(net'.wire) : net'.wire[i] = net.wire[i]
      /\ net.wire = <<>> => net'.wire = <<>>
  <2>1. CASE net' = net
    BY <1>1, <2>1
  <2>2. CASE net' = Dropped(net)
    <3>1. Len(<<>>) = 0 /\ 1..0 = {}
      OBVIOUS
    <3> QED
      BY <1>1, <2>2, <3>1, DroppedTyped
  <2>3. CASE Break
    <3>1. net'.wire \in Seq(PacketType)
      BY <2>3, BreakTyped DEF NetType
    <3> QED
      BY <2>3, <3>1, BreakTyped
  <2> QED
    BY <2>1, <2>2, <2>3
<1>3. \A i \in 1..Len(net'.wire) : i \in 1..Len(net.wire)
  BY <1>1, <1>2
<1>4. CASE call.name = "new"
  <2>1. /\ net'.out = <<>> /\ net'.buf = <<>> /\ Len(net'.wire) <= 1
        /\ \A i \in 1..Len(net'.wire) : net'.wire[i].kind \in {"handshake", "err"}
    BY <1>1, <1>2, <1>3, <1>4 DEF LoginInv
  <2> QED
    BY <1>4, <2>1 DEF LoginInv
<1>5. CASE call.name = "Connect" /\ call.err # "running"
  BY <1>5 DEF LoginInv
<1>6. CASE call.name = "Connect" /\ call.err = "running"
  <2>1. OneExchange /\ \A i \in 1..Len(net.wire) : NotAccepting(net.wire[i])
    BY <1>6 DEF LoginInv
  <2>2. Len(<<>>) = 0 /\ 1..0 = {}
    OBVIOUS
  <2>3. ASSUME net'.out = net.out PROVE OneExchange'
    <3>1. net'.buf = <<>> /\ Len(net'.wire) <= 1 /\ (net'.wire # <<>> => net'.out = <<>>)
      BY <1>1, <1>2, <2>1, <2>3 DEF OneExchange
    <3>2. \A i \in 1..Len(net'.out) :
             /\ net'.out[i].cmd \in {"ssl", "response", "secret"}
             /\ i # Len(net'.out) => net'.out[i].cmd = "ssl"
      BY <2>1, <2>3 DEF OneExchange
    <3>3. Head(call'.todo).do \notin LoginReads =>
             net'.wire = <<>> /\ \A i \in 1..Len(net'.out) : net'.out[i].cmd = "ssl"
      BY <1>2, <2>1, <2>3 DEF OneExchange
    <3> QED
      BY <3>1, <3>2, <3>3 DEF OneExchange
  <2>4. ASSUME net'.out = <<>> PROVE OneExchange'
    <3>1. net'.buf = <<>> /\ Len(net'.wire) <= 1
      BY <1>1, <1>2, <2>1 DEF OneExchange
    <3>2. Head(call'.todo).do \notin LoginReads => net'.wire = <<>>
      BY <1>2, <2>1 DEF OneExchange
    <3> QED
      BY <2>2, <2>4, <3>1, <3>2 DEF OneExchange
  <2>5. (\A i \in 1..Len(net.wire) : NotAccepting(net.wire[i]))'
    BY <1>2, <1>3, <2>1 DEF NotAccepting
  <2>6. OneExchange'
    BY <1>2, <2>3, <2>4
  <2> QED
    BY <1>6, <2>5, <2>6 DEF LoginInv
<1> QED
  BY <1>4, <1>5, <1>6 DEF LoginInv

LEMMA StartLogin ==
    ASSUME TypeOK, LoginInv, ~server.accepted, NEW name \in Names, NEW c \in {"none", "live", "done"},
           Start(name, c)
    PROVE  LoginInv'
<1>1. Legal(name) /\ call.name # "Connect"
  BY DEF Start, Legal
<1>2. /\ call.name = "new" /\ name = "Connect"
      /\ net.buf = <<>> /\ Len(net.wire) <= 1 /\ net.out = <<>>
      /\ \A i \in 1..Len(net.wire) : net.wire[i].kind \in {"handshake", "err"}
  BY <1>1 DEF LoginInv, Legal
<1>3. CASE \E err \in {"early", "ctx"} : call' = NewCall(name, <<>>, err)
  BY <1>2, <1>3, FailedIsLogin DEF NewCall, Failed
<1>4. ASSUME NEW w, w = IF name \in Watched THEN WatchCancel(c)
                        ELSE [mc |-> mc, net |-> net, watcher |-> watcher],
             \E todo \in Program(name) : call' = NewCall(name, todo, "running"),
             net' = w.net
      PROVE  LoginInv'
  <2> DEFINE g == Task("handshake")
  <2>1. Program("Connect") = {<<g>>}
    BY DEF Program
  <2>2. g \in TaskType
    BY TaskTyped DEF Tasks, Reading
  <2>3. g.do = "handshake"
    BY DEF Task
  <2>4. call' = NewCall(name, <<g>>, "running")
    BY <1>2, <1>4, <2>1
  <2> HIDE DEF g
  <2>5. Len(<<g>>) = 1 /\ <<g>>[1] = g /\ Head(<<g>>) = g
    OBVIOUS
  <2>6. Gated(<<g>>)
    BY <2>3, <2>5 DEF Gated, Gates
  <2>7. call'.name = "Connect" /\ call'.err = "running" /\ call'.todo = <<g>>
    BY <1>2, <2>4 DEF NewCall
  <2>8. Waiting' /\ Head(call'.todo).do \in LoginReads
    BY <2>3, <2>5, <2>6, <2>7 DEF Waiting, LoginReads, Gates
  <2>9. net \in NetType /\ net.wire \in Seq(PacketType)
    BY DEF TypeOK, NetType
  <2>10. Len(<<>>) = 0 /\ 1..0 = {}
    OBVIOUS
  <2>11. net' = net \/ net' = Dropped(net)
    BY <1>4, WatchCancelTyped
  <2>12. CASE net' = Dropped(net)
    BY <1>2, <2>8, <2>9, <2>12, DroppedTyped, QuietIsLogin
  <2>13. CASE net' = net
    <3>1. OneExchange'
      BY <1>2, <2>8, <2>10, <2>13 DEF OneExchange
    <3>2. ASSUME NEW i \in 1..Len(net.wire)
          PROVE  NotAccepting(net.wire[i])'
      BY <1>2, <2>13 DEF NotAccepting
    <3> QED
      BY <2>8, <2>13, <3>1, <3>2 DEF Waiting, LoginInv
  <2> QED
    BY <2>11, <2>12, <2>13
<1>5. \/ \E err \in {"early", "ctx"} : call' = NewCall(name, <<>>, err)
      \/ \E w : /\ w = IF name \in Watched THEN WatchCancel(c)
                       ELSE [mc |-> mc, net |-> net, watcher |-> watcher]
               /\ \E todo \in Program(name) : call' = NewCall(name, todo, "running")
               /\ net' = w.net
  <2>1. "Connect" # "Ping"
    OBVIOUS
  <2>2. CASE name = "Ping"
    BY <1>2, <2>1, <2>2
  <2> DEFINE v == IF name \in Watched THEN WatchCancel(c)
                  ELSE [mc |-> mc, net |-> net, watcher |-> watcher]
  <2>3. CASE /\ \E todo \in Program(name) : call' = NewCall(name, todo, "running")
             /\ net' = v.net
    BY <2>3
  <2>4. \/ name = "Ping"
        \/ \E err \in {"early", "ctx"} : call' = NewCall(name, <<>>, err)
        \/ /\ \E todo \in Program(name) : call' = NewCall(name, todo, "running")
           /\ net' = v.net
    BY StartCases
  <2> QED
    BY <2>2, <2>3, <2>4
<1> QED
  BY <1>3, <1>4, <1>5

(* The other steps of a Connect that waits. *)
LEMMA ClientLogin ==
    ASSUME TypeOK, Attempt,
           Step \/ Cleanup \/ Finish \/ OutOfSync \/ ReadFails \/ ReadTimeout \/ BusyBuffer
    PROVE  LoginInv'
<1>1. call.name = "Connect" /\ call.err = "running" /\ net.buf = <<>>
  BY DEF Attempt, Waiting, OneExchange
<1>2. Head(call.todo).do \in LoginReads \cup {"tls", "write"}
  BY AttemptCases DEF LoginReads
<1>3. ASSUME NEW err, err \notin {"nil", "running"}, Return(err) PROVE LoginInv'
  BY <1>1, <1>3, ReturnFails, FailedIsLogin
<1>4. ~Step
  BY <1>2 DEF Step, Open, TakeBuffer, Discard, NextRow, NextResult, More, CloseRows, LookAtContext,
     Doing, LoginReads, Gates
<1>5. ~Cleanup /\ ~Finish
  BY <1>2 DEF Cleanup, Finish, Doing, LoginReads, Gates
<1>6. CASE OutOfSync
  BY <1>3, <1>6 DEF OutOfSync
<1>7. ReadError \notin {"nil", "running"}
  BY DEF ReadError
<1>8. CASE ReadFails \/ ReadTimeout
  BY <1>3, <1>7, <1>8 DEF ReadFails, ReadTimeout
<1>9. ~BusyBuffer
  BY <1>1 DEF BusyBuffer
<1> QED
  BY <1>4, <1>5, <1>6, <1>8, <1>9

LEMMA NextLogin ==
    ASSUME TypeOK, LoginInv, [Next]_connVars
    PROVE  LoginInv'
<1> SUFFICES ASSUME ~server.accepted'
             PROVE  LoginInv'
  BY DEF LoginInv
<1>1. ~server.accepted
  <2>1. server \in ServerType
    BY DEF TypeOK
  <2>2. CASE \E name \in Names, c \in {"none", "live", "done"} : Start(name, c)
    BY <2>1, <2>2 DEF Start, ServerType
  <2>3. CASE Server
    BY <2>1, <2>3 DEF Server, ServerAuthenticates, ServerAnswers, ServerType
  <2>4. CASE ~Server /\ ~\E name \in Names, c \in {"none", "live", "done"} : Start(name, c)
    <3>1. UNCHANGED server
      BY <2>4 DEF Next, ResetSession, Client, Step, ReadPacket, TLSHandshake, Cleanup, OutOfSync,
         ReadFails, BusyBuffer, Write, Finish, ServerCloses, Watcher, WatcherTakes, WatcherEnds,
         WatcherSees, WatcherCloses, ReadTimeout, CancelContext, Break, connVars, connectVars, vars
    <3> QED
      BY <3>1
  <2> QED
    BY <2>2, <2>3, <2>4
<1>2. CASE \E name \in Names, c \in {"none", "live", "done"} : Start(name, c)
  BY <1>1, <1>2, StartLogin
<1>3. CASE Server
  <2>1. CASE Attempt
    BY <1>3, <2>1, ServerLogin
  <2>2. CASE Failed
    BY <1>3, <2>2, FailedStays, FailedIsLogin
  <2> QED
    BY <1>1, <1>3, <2>1, <2>2, LoginCases DEF Server
<1>4. CASE Client \/ ReadTimeout
  <2>1. CASE Attempt
    BY <1>4, <2>1, ReadLogin, TLSLogin, WriteLogin, ClientLogin DEF Client
  <2>2. CASE Failed
    BY <2>2, FailedStays, FailedIsLogin
  <2>3. call.todo # <<>>
    BY <1>4 DEF Client, Step, Open, TakeBuffer, Discard, NextRow, NextResult, More, CloseRows,
       LookAtContext, ReadPacket, TLSHandshake, Cleanup, OutOfSync, ReadFails, BusyBuffer, Write,
       Finish, ReadTimeout, Doing
  <2> QED
    BY <1>1, <2>1, <2>2, <2>3, LoginCases
<1>5. CASE (Watcher \/ CancelContext \/ Break) \/ UNCHANGED connVars
  <2>1. UNCHANGED <<call, server>>
    BY <1>5 DEF Watcher, WatcherTakes, WatcherEnds, WatcherSees, WatcherCloses, CancelContext, Break,
       connVars, connectVars, vars
  <2>2. net' \in {net, Dropped(net)} \/ Break
    BY <1>5 DEF Watcher, WatcherTakes, WatcherEnds, WatcherSees, WatcherCloses, CancelContext,
       connVars, connectVars, vars
  <2> QED
    BY <1>1, <2>1, <2>2, LossLogin
<1>6. CASE ResetSession \/ ServerCloses
  BY <1>1, <1>6 DEF ResetSession, ServerCloses, LoginInv
<1> QED
  BY <1>2, <1>3, <1>4, <1>5, <1>6 DEF Next

LEMMA InitLogin ==
    ASSUME Init
    PROVE  LoginInv
<1>1. TypeOK
  BY InitTypes
<1>2. ASSUME ~server.accepted
      PROVE  /\ call.name = "new" /\ call.todo = <<>> /\ call.err = "running"
             /\ net.buf = <<>> /\ net.out = <<>> /\ Len(net.wire) <= 1
             /\ \A i \in 1..Len(net.wire) : net.wire[i].kind \in {"handshake", "err"}
  <2>1. call.name = "new" /\ call.todo = <<>> /\ call.err = "running"
    BY <1>2 DEF Init
  <2>2. net.buf = <<>> /\ net.out = <<>> /\ net.wire \in Greetings
    BY <2>1 DEF Init
  <2>3. Len(net.wire) = 1 /\ net.wire[1].kind \in {"handshake", "err"}
    BY <2>2, GreetingTyped
  <2> QED
    BY <2>1, <2>2, <2>3
<1> QED
  BY <1>2 DEF LoginInv

(* Connect returns a connection only if the server has accepted: whatever  *)
(* plugin it asks for first and changes to, whether it wants a key or a    *)
(* second answer, and however far it got when the network broke, the       *)
(* context was canceled or a read timed out.                               *)
THEOREM ConnectIsAcceptedHolds == Spec => []ConnectIsAccepted
<1>1. Init => TypeOK /\ LoginInv
  BY InitTypes, InitLogin
<1>2. TypeOK /\ LoginInv /\ [Next]_connVars => (TypeOK /\ LoginInv)'
  BY NextTypes, NextLogin
<1>3. TypeOK /\ LoginInv => ConnectIsAccepted
  BY DEF LoginInv, ConnectIsAccepted
<1> QED
  BY <1>1, <1>2, <1>3, PTL DEF Spec

-----------------------------------------------------------------------------
(* Lists of tasks. *)

LEMMA AtTail ==
    ASSUME NEW S, NEW todo \in Seq(S), todo # <<>>
    PROVE  \A i \in Nat : i >= 1 => At(Tail(todo), i) = At(todo, i + 1)
<1>1. Len(Tail(todo)) = Len(todo) - 1 /\ Len(todo) \in Nat
  BY HeadTailProperties
<1>2. \A i \in 1..Len(Tail(todo)) : Tail(todo)[i] = todo[i + 1]
  BY HeadTailProperties
<1> QED
  BY <1>1, <1>2 DEF At

LEMMA AtCons ==
    ASSUME NEW S, NEW t \in S, NEW r \in Seq(S)
    PROVE  /\ <<t>> \o r \in Seq(S) /\ <<t>> \o r # <<>>
           /\ Len(<<t>> \o r) = Len(r) + 1
           /\ (<<t>> \o r)[1] = t /\ At(<<t>> \o r, 1) = t
           /\ \A i \in 1..Len(r) : (<<t>> \o r)[i + 1] = r[i]
           /\ \A i \in Nat : i >= 1 => At(<<t>> \o r, i + 1) = At(r, i)
<1>1. Len(<<t>>) = 1 /\ <<t>>[1] = t /\ <<t>> \in Seq(S) /\ Len(r) \in Nat
  OBVIOUS
<1> DEFINE u == <<t>> \o r
<1>2. u \in Seq(S) /\ Len(u) = Len(r) + 1
  BY <1>1, ConcatProperties
<1>3. \A i \in 1..(Len(r) + 1) : u[i] = IF i <= 1 THEN t ELSE r[i - 1]
  BY <1>1, ConcatProperties
<1> HIDE DEF u
<1>4. u[1] = t /\ \A i \in 1..Len(r) : u[i + 1] = r[i]
  BY <1>1, <1>3
<1> QED
  BY <1>1, <1>2, <1>4 DEF At, u

(* A list of tasks is sound from the end.                                  *)
LEMMA SoundTail ==
    ASSUME NEW c, NEW h, NEW S, NEW todo \in Seq(S), todo # <<>>, Sound(c, h, todo)
    PROVE  Sound(c, h, Tail(todo))
<1> DEFINE r == Tail(todo)
<1>1. r \in Seq(S) /\ Len(r) = Len(todo) - 1 /\ Len(todo) \in Nat /\ Len(r) \in Nat
  BY HeadTailProperties
<1>2. \A i \in 1..Len(r) : r[i] = todo[i + 1] /\ i + 1 \in 1..Len(todo)
  BY <1>1, HeadTailProperties
<1>3. \A i \in 1..Len(r) : /\ At(r, i + 1) = At(todo, i + 1 + 1)
                           /\ At(r, i + 2) = At(todo, i + 1 + 2)
  <2> TAKE i \in 1..Len(r)
  <2>1. i + 1 \in Nat /\ i + 1 >= 1 /\ i + 2 \in Nat /\ i + 2 >= 1 /\ i + 2 + 1 = i + 1 + 2
    BY <1>1
  <2> QED
    BY <2>1, AtTail
<1> HIDE DEF r
<1>4. Shape(c.name, r)
  BY <1>1, <1>2, <1>3 DEF Sound, Shape
<1>5. \A i \in 1..Len(r) : Ready(c, h, r[i])
  BY <1>1, <1>2 DEF Sound
<1> QED
  BY <1>4, <1>5 DEF Sound, r

LEMMA SoundCons ==
    ASSUME NEW c, NEW h, NEW S, NEW t \in S, NEW r \in Seq(S), Sound(c, h, r),
           Leads(c.name, t, At(r, 1), At(r, 2)), Ready(c, h, t)
    PROVE  Sound(c, h, <<t>> \o r)
<1> DEFINE u == <<t>> \o r
<1>1. /\ u \in Seq(S) /\ Len(u) = Len(r) + 1 /\ u[1] = t /\ Len(r) \in Nat
      /\ \A i \in 1..Len(r) : u[i + 1] = r[i]
      /\ \A i \in Nat : i >= 1 => At(u, i + 1) = At(r, i)
  <2>1. Len(r) \in Nat
    OBVIOUS
  <2>2. /\ u \in Seq(S) /\ Len(u) = Len(r) + 1 /\ u[1] = t
        /\ \A i \in 1..Len(r) : u[i + 1] = r[i]
    BY AtCons
  <2>3. \A i \in Nat : i >= 1 => At(u, i + 1) = At(r, i)
    BY AtCons
  <2> QED
    BY <2>1, <2>2, <2>3
<1> HIDE DEF u
<1>2. At(u, 1 + 1) = At(r, 1) /\ At(u, 1 + 2) = At(r, 2)
  <2>1. 1 + 2 = 2 + 1 /\ 1 \in Nat /\ 2 \in Nat
    OBVIOUS
  <2> QED
    BY <1>1, <2>1
<1>3. ASSUME NEW i \in 1..Len(u)
      PROVE  Leads(c.name, u[i], At(u, i + 1), At(u, i + 2)) /\ Ready(c, h, u[i])
  <2>1. CASE i = 1
    BY <1>1, <1>2, <2>1
  <2>2. CASE i # 1
    <3>1. i - 1 \in 1..Len(r) /\ (i - 1) + 1 = i
      BY <1>1, <2>2
    <3>2. u[i] = r[i - 1]
      BY <1>1, <3>1
    <3>3. At(u, i + 1) = At(r, (i - 1) + 1) /\ At(u, i + 2) = At(r, (i - 1) + 2)
      <4>1. i \in Nat /\ i + 1 \in Nat /\ i >= 1 /\ i + 1 >= 1 /\ (i + 1) + 1 = i + 2
            /\ (i - 1) + 1 = i /\ (i - 1) + 2 = i + 1
        BY <1>1
      <4> QED
        BY <1>1, <4>1
    <3> QED
      BY <3>1, <3>2, <3>3 DEF Sound, Shape
  <2> QED
    BY <2>1, <2>2
<1> QED
  BY <1>3 DEF Sound, Shape, u

LEMMA AtEmpty == \A i \in Nat : At(<<>>, i) = None
<1>1. Len(<<>>) = 0 /\ \A i \in Nat : i \notin 1..0
  OBVIOUS
<1> QED
  BY <1>1 DEF At

LEMMA SoundEmpty ==
    ASSUME NEW c, NEW h
    PROVE  Sound(c, h, <<>>)
<1>1. Len(<<>>) = 0 /\ 1..0 = {}
  OBVIOUS
<1> QED
  BY <1>1 DEF Sound, Shape

(* A list is made of its first task and the rest.                          *)
LEMMA AtFirst ==
    ASSUME NEW S, NEW todo \in Seq(S), todo # <<>>
    PROVE  /\ At(todo, 1) = Head(todo) /\ Head(todo) = todo[1] /\ 1 \in 1..Len(todo)
           /\ Tail(todo) \in Seq(S) /\ Head(todo) \in S
           /\ At(todo, 2) = At(Tail(todo), 1) /\ At(todo, 3) = At(Tail(todo), 2)
           /\ Tail(todo) = <<>> => At(todo, 2) = None
           /\ Len(Tail(todo)) = Len(todo) - 1
<1>1. Len(todo) \in Nat /\ Len(todo) >= 1 /\ Head(todo) = todo[1] /\ Tail(todo) \in Seq(S)
      /\ Len(Tail(todo)) = Len(todo) - 1
  BY HeadTailProperties, EmptySeq
<1>2. At(todo, 1 + 1) = At(Tail(todo), 1) /\ At(todo, 2 + 1) = At(Tail(todo), 2)
  BY AtTail
<1>3. Tail(todo) = <<>> => At(Tail(todo), 1) = None
  <2>1. At(<<>>, 1) = None
    BY AtEmpty
  <2> QED
    BY <2>1
<1>4. At(todo, 1) = todo[1] /\ 1 \in 1..Len(todo)
  BY <1>1 DEF At
<1>5. Head(todo) \in S
  BY HeadTailProperties
<1>6. 1 + 1 = 2 /\ 2 + 1 = 3
  OBVIOUS
<1> QED
  BY <1>1, <1>2, <1>3, <1>4, <1>5, <1>6

LEMMA SoundFirst ==
    ASSUME NEW c, NEW h, NEW S, NEW todo \in Seq(S), todo # <<>>, Sound(c, h, todo)
    PROVE  /\ Leads(c.name, At(todo, 1), At(todo, 2), At(todo, 3))
           /\ Ready(c, h, At(todo, 1))
<1>1. 1 \in 1..Len(todo) /\ todo[1] = At(todo, 1) /\ 1 + 1 = 2 /\ 1 + 2 = 3
  BY AtFirst
<1> QED
  BY <1>1 DEF Sound, Shape

LEMMA TaskIs ==
    ASSUME NEW do
    PROVE  Task(do).do = do /\ Task(do).cmd = "none"
BY DEF Task

LEMMA WritingIs ==
    ASSUME NEW cmd
    PROVE  /\ Writing(cmd, "none").do = "write" /\ Writing(cmd, "none").cmd = cmd
           /\ Writing(cmd, "none").first /\ Writing(cmd, "none").last
BY DEF Writing, Task

LEMMA SoundOne ==
    ASSUME NEW c, NEW h, NEW t, Leads(c.name, t, None, None), Ready(c, h, t)
    PROVE  /\ Sound(c, h, <<t>>)
           /\ At(<<t>>, 1) = t /\ At(<<t>>, 2) = None
<1> DEFINE u == <<t>>
<1>1. Len(u) = 1 /\ u[1] = t
  OBVIOUS
<1> HIDE DEF u
<1>2. /\ At(u, 1) = t /\ At(u, 2) = None /\ At(u, 1 + 1) = None /\ At(u, 1 + 2) = None
      /\ \A i \in 1..Len(u) : i = 1
  BY <1>1 DEF At, None
<1>3. Sound(c, h, u)
  BY <1>1, <1>2 DEF Sound, Shape
<1> QED
  BY <1>2, <1>3 DEF u

LEMMA SoundTwo ==
    ASSUME NEW c, NEW h, NEW t, NEW u,
           Leads(c.name, t, u, None), Leads(c.name, u, None, None), Ready(c, h, t), Ready(c, h, u)
    PROVE  /\ Sound(c, h, <<t, u>>)
           /\ At(<<t, u>>, 1) = t /\ At(<<t, u>>, 2) = u
<1> DEFINE l == <<t, u>>
<1>1. Len(l) = 2 /\ l[1] = t /\ l[2] = u
  OBVIOUS
<1> HIDE DEF l
<1>2. /\ At(l, 1) = t /\ At(l, 2) = u /\ At(l, 3) = None /\ At(l, 4) = None
      /\ \A i \in 1..Len(l) : i = 1 \/ i = 2
  BY <1>1 DEF At, None
<1>3. /\ Leads(c.name, l[1], At(l, 2), At(l, 3))
      /\ Leads(c.name, l[2], At(l, 3), At(l, 4))
  BY <1>1, <1>2
<1>4. /\ 1 + 1 = 2 /\ 1 + 2 = 3 /\ 2 + 1 = 3 /\ 2 + 2 = 4
  OBVIOUS
<1>5. \A i \in 1..Len(l) : Leads(c.name, l[i], At(l, i + 1), At(l, i + 2)) /\ Ready(c, h, l[i])
  <2> TAKE i \in 1..Len(l)
  <2>1. CASE i = 1
    BY <1>1, <1>3, <1>4, <2>1
  <2>2. CASE i = 2
    BY <1>1, <1>3, <1>4, <2>2
  <2> QED
    BY <1>2, <2>1, <2>2
<1>6. Sound(c, h, l)
  BY <1>5 DEF Sound, Shape
<1> QED
  BY <1>2, <1>6 DEF l

LEMMA PairCons ==
    ASSUME NEW S, NEW t \in S, NEW u \in S, NEW r \in Seq(S)
    PROVE  <<t, u>> \o r = <<t>> \o (<<u>> \o r)
<1> DEFINE p == <<t, u>>
           q == <<t>>
           w == <<u>>
<1>1. /\ p \in Seq(S) /\ Len(p) = 2 /\ p[1] = t /\ p[2] = u
      /\ q \in Seq(S) /\ Len(q) = 1 /\ q[1] = t
      /\ w \in Seq(S) /\ Len(w) = 1 /\ w[1] = u /\ Len(r) \in Nat
  OBVIOUS
<1> HIDE DEF p, q, w
<1> DEFINE a == p \o r
           b == w \o r
<1>6. /\ a \in Seq(S) /\ Len(a) = Len(p) + Len(r)
      /\ \A i \in 1..(Len(p) + Len(r)) : a[i] = IF i <= Len(p) THEN p[i] ELSE r[i - Len(p)]
  BY <1>1, ConcatProperties
<1>7. /\ b \in Seq(S) /\ Len(b) = Len(w) + Len(r)
      /\ \A i \in 1..(Len(w) + Len(r)) : b[i] = IF i <= Len(w) THEN w[i] ELSE r[i - Len(w)]
  BY <1>1, ConcatProperties
<1>2. /\ a \in Seq(S) /\ Len(a) = Len(r) + 2
      /\ \A i \in 1..(Len(r) + 2) : a[i] = IF i <= 2 THEN p[i] ELSE r[i - 2]
      /\ b \in Seq(S) /\ Len(b) = Len(r) + 1
      /\ \A i \in 1..(Len(r) + 1) : b[i] = IF i <= 1 THEN w[i] ELSE r[i - 1]
  BY <1>1, <1>6, <1>7
<1> HIDE DEF a, b
<1> DEFINE d == q \o b
<1>3. /\ d \in Seq(S) /\ Len(d) = Len(r) + 2
      /\ \A i \in 1..(Len(r) + 2) : d[i] = IF i <= 1 THEN q[i] ELSE b[i - 1]
  <2>1. /\ d \in Seq(S) /\ Len(d) = Len(q) + Len(b)
        /\ \A i \in 1..(Len(q) + Len(b)) : d[i] = IF i <= Len(q) THEN q[i] ELSE b[i - Len(q)]
    BY <1>1, <1>2, ConcatProperties
  <2> HIDE DEF d
  <2> QED
    BY <1>1, <1>2, <2>1
<1> HIDE DEF d
<1>4. \A i \in 1..Len(a) : a[i] = d[i]
  <2> TAKE i \in 1..Len(a)
  <2>1. CASE i = 1
    BY <1>1, <1>2, <1>3, <2>1
  <2>2. CASE i = 2
    BY <1>1, <1>2, <1>3, <2>2
  <2>3. CASE i > 2
    <3>1. a[i] = r[i - 2] /\ d[i] = b[i - 1] /\ i - 1 \in 1..(Len(r) + 1) /\ ~(i - 1 <= 1)
      BY <1>1, <1>2, <1>3, <2>3
    <3>2. b[i - 1] = r[(i - 1) - 1] /\ (i - 1) - 1 = i - 2
      BY <1>1, <1>2, <3>1
    <3> QED
      BY <3>1, <3>2
  <2> QED
    BY <1>1, <1>2, <2>1, <2>2, <2>3
<1>5. a = d
  BY <1>2, <1>3, <1>4, SeqEqual
<1> QED
  BY <1>5, Zenon DEF a, b, d, p, q, w

(* A task after which there is none is the last.                           *)
LEMMA LastTask ==
    ASSUME NEW c, NEW h, NEW S, NEW todo \in Seq(S), todo # <<>>, Sound(c, h, todo),
           At(todo, 2).do = "none"
    PROVE  Tail(todo) = <<>>
<1> SUFFICES ASSUME Tail(todo) # <<>>
             PROVE  FALSE
  OBVIOUS
<1>1. Sound(c, h, Tail(todo)) /\ Tail(todo) \in Seq(S) /\ At(Tail(todo), 1) = At(todo, 2)
  BY SoundTail, AtFirst
<1>2. Leads(c.name, At(Tail(todo), 1), At(Tail(todo), 2), At(Tail(todo), 3))
  BY <1>1, SoundFirst
<1> QED
  BY <1>1, <1>2 DEF Leads, IsFile

-----------------------------------------------------------------------------
(* A call of a pooled connection has sound tasks. *)

LEMMA SoundSame ==
    ASSUME NEW c, NEW d, NEW h, NEW todo, Sound(c, h, todo),
           d.name = c.name, d.n = c.n, d.err = c.err
    PROVE  Sound(d, h, todo)
<1>1. OwnerOf(d, h) = OwnerOf(c, h)
  BY DEF OwnerOf
<1>2. \A t : Ready(c, h, t) => Ready(d, h, t)
  BY <1>1 DEF Ready, Sends
<1> QED
  BY <1>2 DEF Sound

LEMMA SoundEnd ==
    ASSUME NEW c, NEW h, c.name # "Connect", c.err # "running"
    PROVE  Sound(c, h, AtReturn(c.name, c.err))
<1> DEFINE f == Task("finish")
           x == Task("ctx")
<1>1. f.do = "finish" /\ x.do = "ctx" /\ None.do = "none"
  BY TaskIs DEF None
<1> HIDE DEF f, x
<1>2. /\ Ready(c, h, f) /\ (c.err = "nil" => Ready(c, h, x))
      /\ c.name # "RowsClose" => Leads(c.name, f, None, None)
  BY <1>1 DEF Ready, Sends, Leads, IsFile
<1>3. c.name = "Prepare" => Leads(c.name, f, x, None) /\ Leads(c.name, x, None, None)
  BY <1>1 DEF Leads, IsFile
<1>4. \/ AtReturn(c.name, c.err) = <<>>
      \/ AtReturn(c.name, c.err) = <<f>> /\ c.name # "RowsClose"
      \/ AtReturn(c.name, c.err) = <<f, x>> /\ c.name = "Prepare" /\ c.err = "nil"
  BY DEF AtReturn, Watched, f, x
<1>5. ASSUME c.name # "RowsClose" PROVE Sound(c, h, <<f>>)
  BY <1>2, <1>5, SoundOne
<1>6. ASSUME c.name = "Prepare", c.err = "nil" PROVE Sound(c, h, <<f, x>>)
  BY <1>2, <1>3, <1>6, SoundTwo
<1> QED
  BY <1>4, <1>5, <1>6, SoundEmpty

(* A call that returns, or goes on to sound tasks, has sound tasks.        *)
LEMMA ReturnSound ==
    ASSUME TypeOK, Pooled, call.todo # <<>>, NEW err, err # "running", Return(err)
    PROVE  /\ Sound(call', held', call'.todo)
           /\ call'.name = call.name /\ call'.n = call.n /\ call'.err # "running"
<1> DEFINE e == IF call.err = "running" THEN MarkBadConn(call.name, err) ELSE call.err
           l == AtReturn(call.name, e)
<1>1. call \in CallType
  BY DEF TypeOK
<1>2. e # "running"
  BY DEF MarkBadConn
<1>3. call' = [call EXCEPT !.todo = l, !.err = e]
  BY DEF Return
<1> HIDE DEF e, l
<1>4. call'.todo = l /\ call'.name = call.name /\ call'.n = call.n /\ call'.err = e
  BY <1>1, <1>3 DEF CallType
<1>5. Sound(call', held', AtReturn(call'.name, call'.err))
  BY <1>2, <1>4, SoundEnd DEF Pooled
<1> QED
  BY <1>2, <1>4, <1>5 DEF l

LEMMA GoSound ==
    ASSUME TypeOK, Pooled, call.todo # <<>>, NEW todo, Go(todo), Sound(call, held', todo)
    PROVE  /\ Sound(call', held', call'.todo)
           /\ call'.name = call.name /\ call'.n = call.n
<1>1. CASE todo = <<>>
  BY <1>1, ReturnSound DEF Go
<1>2. CASE todo # <<>>
  <2>1. call \in CallType
    BY DEF TypeOK
  <2>2. call' = [call EXCEPT !.todo = todo]
    BY <1>2 DEF Go
  <2>3. /\ call'.todo = todo /\ call'.name = call.name /\ call'.n = call.n
        /\ call'.err = call.err
    BY <2>1, <2>2 DEF CallType
  <2> QED
    BY <2>3, SoundSame
<1> QED
  BY <1>1, <1>2

(* What is left of the invariant when the tasks are sound.                 *)
Keeps ==
    /\ Sound(call', held', call'.todo)
    /\ call'.name = call.name /\ call'.n = call.n

LEMMA KeepsTasks ==
    ASSUME TypeOK, Pooled, TasksInv, call.todo # <<>>, Keeps, held'.of = held.of
    PROVE  TasksInv'
<1>1. call.name # "pooled" /\ call'.name = call.name /\ call'.n = call.n
  BY DEF TasksInv, Keeps
<1>2. Sound(call, held, call.todo)'
  BY DEF Keeps
<1> QED
  BY <1>1, <1>2 DEF TasksInv

LEMMA RestSound ==
    ASSUME TypeOK, Pooled, TasksInv, call.todo # <<>>
    PROVE  /\ Sound(call, held, Tail(call.todo))
           /\ Head(call.todo) = At(call.todo, 1)
           /\ Leads(call.name, Head(call.todo), At(call.todo, 2), At(call.todo, 3))
           /\ Ready(call, held, Head(call.todo))
           /\ Owner = OwnerOf(call, held)
           /\ call.name # "Connect"
<1>1. call.todo \in Seq(TaskType)
  BY RestTyped
<1>2. Sound(call, held, call.todo)
  BY DEF TasksInv
<1>3. Head(call.todo) = At(call.todo, 1)
  BY <1>1, AtFirst
<1> QED
  BY <1>1, <1>2, <1>3, SoundTail, SoundFirst DEF Owner, OwnerOf, RowCalls, Pooled

(* The steps that read and write packets return or go on to the next task. *)
LEMMA MovesKeepTasks ==
    ASSUME TypeOK, Pooled, TasksInv,
           OutOfSync \/ ReadFails \/ ReadTimeout \/ BusyBuffer \/ Write \/ Finish \/ Cleanup
           \/ TLSHandshake
    PROVE  TasksInv'
<1> DEFINE rest == Tail(call.todo)
<1>1. call.todo # <<>> /\ UNCHANGED held
  BY DEF OutOfSync, ReadFails, ReadTimeout, BusyBuffer, Write, Finish, Doing, TooLarge, Stale, Sent,
     NothingWritten, PartWritten, Cleanup, TLSHandshake
<1>2. Sound(call, held', rest) /\ rest \in Seq(TaskType)
  BY <1>1, RestSound, RestTyped
<1>3. Leads(call.name, Head(call.todo), At(call.todo, 2), At(call.todo, 3))
  BY <1>1, RestSound
<1> HIDE DEF rest
<1>4. ASSUME NEW err, err # "running", Return(err)
      PROVE  TasksInv'
  BY <1>1, <1>4, ReturnSound, KeepsTasks DEF Keeps
<1>5. ASSUME Go(rest)
      PROVE  TasksInv'
  BY <1>1, <1>2, <1>5, GoSound, KeepsTasks DEF Keeps
<1>6. ReadError # "running"
  BY DEF ReadError
<1>7. CASE OutOfSync \/ ReadFails \/ ReadTimeout \/ BusyBuffer
  BY <1>4, <1>6, <1>7 DEF OutOfSync, ReadFails, ReadTimeout, BusyBuffer
<1>8. CASE Write
  <2>1. ASSUME NEW err \in {"ctx", "nowrite", "invalid"}, Fails(err)
        PROVE  TasksInv'
    BY <1>4, <1>5, <2>1 DEF Fails, rest
  <2> QED
    BY <1>4, <1>5, <1>8, <2>1 DEF Write, TooLarge, Stale, Sent, NothingWritten, PartWritten, rest
<1>9. CASE Finish
  <2>1. call \in CallType /\ call' = [call EXCEPT !.todo = rest]
    BY <1>9 DEF TypeOK, Finish, rest
  <2>2. /\ call'.todo = rest /\ call'.name = call.name /\ call'.n = call.n
        /\ call'.err = call.err
    BY <2>1 DEF CallType
  <2> QED
    BY <1>1, <1>2, <2>2, SoundSame, KeepsTasks DEF Keeps
<1>10. ~Cleanup /\ ~TLSHandshake
  BY <1>3 DEF Leads, IsFile, Cleanup, TLSHandshake, Doing
<1> QED
  BY <1>7, <1>8, <1>9, <1>10

(* The steps between two packets.                                          *)
LEMMA StepKeepsTasks ==
    ASSUME TypeOK, Pooled, TasksInv, Step
    PROVE  TasksInv'
<1> DEFINE todo == call.todo
           rest == Tail(call.todo)
           t == Head(call.todo)
           u == At(call.todo, 2)
           v == At(call.todo, 3)
<1>1. todo # <<>>
  BY DEF Step, Open, TakeBuffer, Discard, NextRow, NextResult, More, CloseRows, LookAtContext, Doing
<1>2. /\ todo \in Seq(TaskType) /\ rest \in Seq(TaskType) /\ t \in TaskType
      /\ Sound(call, held, rest) /\ Leads(call.name, t, u, v) /\ Ready(call, held, t)
      /\ Sound(call, held, todo)
      /\ u = At(rest, 1) /\ v = At(rest, 2) /\ t = At(todo, 1)
      /\ Owner = OwnerOf(call, held) /\ call.name # "Connect"
  BY <1>1, RestSound, RestTyped, AtFirst DEF TasksInv
<1>3. held \in HeldType /\ call \in CallType
  BY DEF TypeOK
<1>4. ASSUME NEW err, err # "running", Return(err), held'.of = held.of
      PROVE  TasksInv'
  BY <1>1, <1>4, ReturnSound, KeepsTasks DEF Keeps
<1>5. ASSUME NEW x, Go(x), Sound(call, held', x), held'.of = held.of
      PROVE  TasksInv'
  BY <1>1, <1>5, GoSound, KeepsTasks DEF Keeps
<1>6. None.do = "none"
  BY TaskIs DEF None
<1>7. call.err = "running" \/ t.do \in {"finish", "ctx", "write"}
  BY <1>2 DEF Ready, Sends
<1> HIDE DEF t, u, v, rest, todo
<1>8. CASE Open \/ TakeBuffer
  BY <1>2, <1>4, <1>5, <1>8 DEF Open, TakeBuffer, rest
<1>9. CASE Discard
  <2> DEFINE g == Task("header")
  <2>1. t.do = "discard" /\ held' = held /\ g.do = "header"
    BY <1>9, TaskIs DEF Discard, Doing, t
  <2>2. g \in TaskType
    BY TaskTyped DEF Tasks, Reading
  <2> HIDE DEF g
  <2>3. Leads(call.name, g, t, u)
    BY <1>2, <2>1 DEF Leads, IsFile
  <2>4. Ready(call, held, g)
    BY <1>2, <1>7, <2>1 DEF Ready, Sends, Leads, IsFile
  <2>5. At(todo, 2) = u
    BY DEF u, todo
  <2>6. Sound(call, held, <<g>> \o todo)
    BY <1>2, <2>2, <2>3, <2>4, <2>5, SoundCons
  <2>7. Go(rest) \/ Go(<<g>> \o todo)
    BY <1>9 DEF Discard, rest, g, todo
  <2> QED
    BY <1>2, <1>5, <2>1, <2>6, <2>7
<1>10. CASE NextRow
  <2> DEFINE g == Task("row")
  <2>1. t.do = "next" /\ held' = held /\ g.do = "row"
    BY <1>10, TaskIs DEF NextRow, Doing, t
  <2> HIDE DEF g
  <2>2. ASSUME held.open PROVE Sound(call, held, <<g>>)
    <3>1. call.name = "Next" /\ ~held.done
      BY <1>2, <2>1 DEF Leads, IsFile, Ready, Sends
    <3>2. Leads(call.name, g, None, None)
      BY <1>6, <2>1, <3>1 DEF Leads, IsFile
    <3>3. Ready(call, held, g)
      BY <1>7, <2>1, <2>2, <3>1 DEF Ready, Sends, OwnerOf, RowCalls
    <3> QED
      BY <3>2, <3>3, SoundOne
  <2>3. Return("end") \/ Return(ConnError) \/ (held.open /\ Go(<<g>>))
    BY <1>3, <1>10 DEF NextRow, HeldType, g
  <2>4. ConnError # "running"
    BY DEF ConnError
  <2> QED
    BY <1>4, <1>5, <2>1, <2>2, <2>3, <2>4
<1>11. CASE NextResult
  <2> DEFINE g == Task("more")
             d == Task("drain")
  <2>1. t.do = "nextResult" /\ held' = held /\ g.do = "more" /\ d.do = "drain"
    BY <1>11, TaskIs DEF NextResult, Doing, t
  <2> HIDE DEF g, d
  <2>2. ASSUME held.open PROVE Sound(call, held, <<g>>) /\ (~held.done => Sound(call, held, <<d, g>>))
    <3>1. /\ call.name \in QueryLike /\ held.of = OwnerOf(call, held)
          /\ call.name # "StmtQuery"
      BY <1>2, <2>1, <2>2 DEF Leads, IsFile, Ready, Sends
    <3>2. Leads(call.name, g, None, None) /\ Leads(call.name, d, g, None)
      BY <1>6, <2>1, <3>1 DEF Leads, IsFile
    <3>3. Ready(call, held, g) /\ (~held.done => Ready(call, held, d))
      BY <1>7, <2>1, <2>2, <3>1 DEF Ready, Sends
    <3> QED
      BY <3>2, <3>3, SoundOne, SoundTwo
  <2>3. \/ Return("end") \/ Return("nil") \/ Return(ConnError)
        \/ (held.open /\ Go(<<g>>)) \/ (held.open /\ ~held.done /\ Go(<<d, g>>))
    BY <1>3, <1>11 DEF NextResult, HeldType, ReturnEnd, g, d
  <2>4. ConnError # "running"
    BY DEF ConnError
  <2> QED
    BY <1>4, <1>5, <2>1, <2>2, <2>3, <2>4
<1>12. CASE More
  <2> DEFINE g == Task("header")
  <2>1. t.do = "more" /\ g.do = "header" /\ held'.of = held.of
    BY <1>3, <1>12, TaskIs DEF More, Doing, t, HeldType
  <2> HIDE DEF g
  <2>2. ASSUME mc.more PROVE Sound(call, held', <<g>>)
    <3>1. /\ call.name \in QueryLike /\ held'.open = held.open /\ held.open
          /\ call.name # "StmtQuery"
      BY <1>2, <1>3, <1>12, <2>1, <2>2 DEF Leads, IsFile, Ready, Sends, More, HeldType
    <3>2. Leads(call.name, g, None, None)
      BY <1>6, <2>1, <3>1 DEF Leads, IsFile, QueryLike
    <3>3. Ready(call, held', g)
      BY <1>7, <2>1, <3>1 DEF Ready, Sends
    <3> QED
      BY <3>2, <3>3, SoundOne
  <2>3. Return("end") \/ Return("nil") \/ (mc.more /\ Go(<<g>>))
    BY <1>12 DEF More, ReturnEnd, g
  <2> QED
    BY <1>4, <1>5, <2>1, <2>2, <2>3
<1>13. CASE CloseRows
  <2> DEFINE g == Task("eof")
             d == Task("discard")
  <2>1. t.do = "closeRows" /\ held' = held /\ g.do = "eof" /\ d.do = "discard"
    BY <1>13, TaskIs DEF CloseRows, Doing, t
  <2>2. call.name = "RowsClose"
    BY <1>2, <2>1 DEF Leads, IsFile
  <2> HIDE DEF g, d
  <2>3. Leads(call.name, d, None, None) /\ Leads(call.name, g, d, None)
    BY <1>6, <2>1, <2>2 DEF Leads, IsFile, QueryLike
  <2>4. Ready(call, held, d) /\ Ready(call, held, g)
    BY <1>7, <2>1 DEF Ready, Sends
  <2>5. Sound(call, held, <<d>>) /\ At(<<d>>, 1) = d /\ At(<<d>>, 2) = None
    BY <2>3, <2>4, SoundOne
  <2>6. <<d>> \in Seq({g, d}) /\ g \in {g, d}
    OBVIOUS
  <2>9. Sound(call, held, <<g>> \o <<d>>)
    BY <2>3, <2>4, <2>5, <2>6, SoundCons
  <2>10. <<>> \o <<d>> = <<d>>
    BY <2>6, ConcatEmptySeq
  <2>7. Return("nil") \/ Return(ConnError) \/ Go(<<d>>) \/ Go(<<g>> \o <<d>>)
    BY <1>3, <1>13, <2>10 DEF CloseRows, HeldType, g, d
  <2>8. ConnError # "running"
    BY DEF ConnError
  <2> QED
    BY <1>4, <1>5, <2>1, <2>5, <2>7, <2>8, <2>9
<1>14. CASE LookAtContext
  <2> DEFINE w == Writing("stmtClose", "none")
  <2>1. t.do = "ctx" /\ held' = held /\ w.do = "write" /\ w.cmd = "stmtClose" /\ w.first /\ w.last
    BY <1>14, WritingIs DEF LookAtContext, Doing, t
  <2>2. call.name = "Prepare"
    BY <1>2, <2>1 DEF Leads, IsFile
  <2> HIDE DEF w
  <2>3. Leads(call.name, w, None, None)
    BY <1>6, <2>1, <2>2 DEF Leads, IsFile, WriteLeads
  <2>4. /\ call'.name = call.name /\ call'.n = call.n
        /\ call'.todo = <<>> \/ (call'.todo = <<w>> /\ call'.err = "ctx")
    BY <1>3, <1>14 DEF LookAtContext, CallType, Small, w
  <2>5. Leads(call'.name, w, None, None)
    BY <2>3, <2>4
  <2>6. call'.err = "ctx" => Ready(call', held', w)
    BY <2>1, <2>2, <2>4 DEF Ready, Sends
  <2>7. Keeps
    BY <2>4, <2>5, <2>6, SoundOne, SoundEmpty DEF Keeps
  <2> QED
    BY <1>1, <2>1, <2>7, KeepsTasks DEF todo
<1> QED
  BY <1>8, <1>9, <1>10, <1>11, <1>12, <1>13, <1>14 DEF Step

(* Sequences that are put together from several. *)

LEMMA ThreeParts ==
    ASSUME NEW S, NEW a \in Seq(S), NEW b \in Seq(S), NEW d \in Seq(S)
    PROVE  (a \o b) \o d = a \o (b \o d) /\ b \o d \in Seq(S)
BY ConcatAssociative, ConcatProperties

LEMMA FourParts ==
    ASSUME NEW S, NEW a \in Seq(S), NEW b \in Seq(S), NEW c \in Seq(S), NEW d \in Seq(S)
    PROVE  a \o b \o c \o d = a \o (b \o (c \o d))
<1> DEFINE x == a \o b
           y == c \o d
<1>1. x \in Seq(S) /\ y \in Seq(S)
  BY ConcatProperties
<1>2. a \o (b \o y) = x \o y
  BY <1>1, ThreeParts, SMTT(60)
<1> HIDE DEF x
<1>3. (x \o c) \o d = x \o (c \o d)
  BY <1>1, ThreeParts, SMTT(30)
<1> QED
  BY <1>2, <1>3, Zenon DEF x, y

(* After the request for a file come its contents and the rest.            *)
LEMMA SendFileSound ==
    ASSUME NEW h, NEW rest \in Seq(TaskType), Sound(call, h, rest), SendFile(rest),
           call.err = "running", call.name \notin {"Ping", "Prepare", "StmtQuery"},
           call.name \in QueryLike => h.done /\ (IF call.name = "StmtQuery" THEN ~h.open ELSE h.open),
           At(rest, 1).do = IF call.name \in QueryLike THEN "nextResult" ELSE "discard"
    PROVE  \E x : /\ Go(x) /\ Sound(call, h, x)
                  /\ x # <<>> /\ At(x, 1).do = "write" /\ At(x, 1).first /\ IsFile(At(x, 1))
<1> DEFINE n == Writing("content", "none")
           e == Writing("empty", "none")
           o == Task("ok")
           a == Task("any")
           T == TaskType
<1>1. /\ n.do = "write" /\ n.cmd = "content" /\ n.first /\ n.last
      /\ e.do = "write" /\ e.cmd = "empty" /\ e.first /\ e.last
      /\ o.do = "ok" /\ a.do = "any" /\ None.do = "none"
  BY WritingIs, TaskIs DEF None
<1>2. n \in T /\ e \in T /\ o \in T /\ a \in T /\ rest \in Seq(T)
  BY TaskTyped, WritingTyped DEF Tasks, Reading, Commands, Forms
<1>3. \/ Go(<<n>> \o <<e>> \o <<o>> \o rest)
      \/ Go(<<e>> \o <<o>> \o rest)
      \/ Go(<<e>> \o <<a>>)
  BY DEF SendFile, Small, n, e, o, a
<1> HIDE DEF n, e, o, a, T
<1>4. /\ Ready(call, h, n) /\ Ready(call, h, e) /\ Ready(call, h, o) /\ Ready(call, h, a)
  BY <1>1 DEF Ready, Sends, IsFile
<1>5. /\ <<o>> \o rest \in Seq(T) /\ Sound(call, h, <<o>> \o rest) /\ At(<<o>> \o rest, 1) = o
  <2>1. Leads(call.name, o, At(rest, 1), At(rest, 2))
    BY <1>1 DEF Leads, IsFile
  <2> QED
    BY <1>2, <1>4, <2>1, AtCons, SoundCons
<1>6. \A v : /\ Leads(call.name, n, e, v) /\ Leads(call.name, e, o, v) /\ Leads(call.name, e, a, v)
             /\ Leads(call.name, a, None, None)
  <2>1. WriteLeads(call.name, n, e) /\ WriteLeads(call.name, e, o) /\ WriteLeads(call.name, e, a)
    BY <1>1 DEF WriteLeads
  <2> QED
    BY <1>1, <2>1 DEF Leads, IsFile
<1> DEFINE x == <<o>> \o rest
<1>12. x \in Seq(T) /\ Sound(call, h, x) /\ At(x, 1) = o
  BY <1>5
<1> HIDE DEF x
<1>7. Sound(call, h, <<e>> \o x) /\ <<e>> \o x \in Seq(T) /\ At(<<e>> \o x, 1) = e /\ <<e>> \o x # <<>>
  BY <1>2, <1>4, <1>6, <1>12, AtCons, SoundCons
<1> DEFINE y == <<e>> \o x
<1> HIDE DEF y
<1>13. y \in Seq(T) /\ Sound(call, h, y) /\ At(y, 1) = e
  BY <1>7 DEF y
<1>8. Sound(call, h, <<n>> \o y) /\ At(<<n>> \o y, 1) = n /\ <<n>> \o y # <<>>
  <2>1. Sound(call, h, <<n>> \o y)
    BY <1>2, <1>4, <1>6, <1>13, SoundCons
  <2>2. At(<<n>> \o y, 1) = n /\ <<n>> \o y # <<>>
    BY <1>2, <1>13, AtCons
  <2> QED
    BY <2>1, <2>2
<1>9. Sound(call, h, <<a>>) /\ At(<<a>>, 1) = a /\ <<a>> \in Seq(T)
  BY <1>2, <1>4, <1>6, SoundOne
<1>10. Sound(call, h, <<e>> \o <<a>>) /\ At(<<e>> \o <<a>>, 1) = e /\ <<e>> \o <<a>> # <<>>
  <2> DEFINE l == <<a>>
  <2>3. l \in Seq(T) /\ Sound(call, h, l) /\ At(l, 1) = a
    BY <1>9
  <2> HIDE DEF l
  <2>1. Sound(call, h, <<e>> \o l)
    BY <1>2, <1>4, <1>6, <2>3, SoundCons
  <2>2. At(<<e>> \o l, 1) = e /\ <<e>> \o l # <<>>
    BY <1>2, <2>3, AtCons
  <2> QED
    BY <2>1, <2>2 DEF l
<1>11. /\ <<e>> \o <<o>> \o rest = y
       /\ <<n>> \o <<e>> \o <<o>> \o rest = <<n>> \o y
  <2> DEFINE j == <<n>>
             k == <<e>>
             l == <<o>>
  <2>1. j \in Seq(T) /\ k \in Seq(T) /\ l \in Seq(T) /\ rest \in Seq(T)
    BY <1>2
  <2>6. y = k \o (l \o rest)
    BY Zenon DEF x, y, k, l
  <2> HIDE DEF j, k, l
  <2>2. (k \o l) \o rest = k \o (l \o rest)
    BY <2>1, ThreeParts, SMTT(30)
  <2>3. j \o k \o l \o rest = j \o (k \o (l \o rest))
    BY <2>1, FourParts, SMTT(60)
  <2>7. k \o l \o rest = y /\ j \o k \o l \o rest = j \o y
    BY <2>2, <2>3, <2>6, Zenon
  <2> QED
    BY <2>7, Zenon DEF j, k, l
<1> QED
  BY <1>1, <1>3, <1>7, <1>8, <1>10, <1>11 DEF IsFile, y

(* What is held by a query that has read the header.                       *)
LEMMA HeldAfterHeader ==
    ASSUME TypeOK, Pooled, TasksInv, NEW p, Doing("header"), held' = RowsAfter(p),
           call.name \in QueryLike, ~IsError(p)
    PROVE  /\ held'.of = OwnerOf(call, held') /\ held'.done = (p.kind # "result")
           /\ IF call.name = "StmtQuery" /\ p.kind # "result" THEN ~held'.open ELSE held'.open
           /\ held'.of <= call.n
           /\ call.name = "NextResultSet" => held'.of = held.of
           /\ held'.of # 0 \/ call.name # "NextResultSet"
<1>5. /\ call.todo # <<>> /\ Head(call.todo).do = "header"
      /\ Ready(call, held, Head(call.todo)) /\ call.name # "Connect"
  BY RestSound DEF Doing
<1>6. held \in HeldType /\ call \in CallType
  BY DEF TypeOK
<1>1. held.of <= call.n /\ (call.name = "NextResultSet" => held.of # 0) /\ held.of \in Nat /\ call.n \in Nat
  BY <1>6 DEF TasksInv, HeldType, CallType, RowCalls
<1>2. CASE call.name = "NextResultSet"
  <2>1. held' = [held EXCEPT !.done = p.kind # "result"]
    BY <1>5, <1>2 DEF RowsAfter, Doing
  <2>2. held.open
    BY <1>5, <1>2 DEF Ready, Sends, OwnerOf, RowCalls, QueryLike
  <2> QED
    BY <1>6, <1>1, <1>2, <2>1, <2>2 DEF HeldType, OwnerOf, RowCalls
<1>3. CASE call.name \in {"Query", "StmtQuery"} /\ held.of # call.n
  <2>1. held' = [held EXCEPT !.open = call.name = "Query" \/ p.kind = "result",
                             !.done = p.kind # "result", !.of = call.n]
    BY <1>5, <1>3 DEF RowsAfter, Doing
  <2>2. held'.of = call.n /\ held'.done = (p.kind # "result")
    BY <1>6, <2>1 DEF HeldType
  <2>3. held'.open = (call.name = "Query" \/ p.kind = "result")
    <3> DEFINE b == call.name = "Query" \/ p.kind = "result"
               d == p.kind # "result"
    <3>1. held' = [held EXCEPT !.open = b, !.done = d, !.of = call.n] /\ b \in BOOLEAN
      BY <2>1
    <3> HIDE DEF b, d
    <3>2. held'.open = b
      BY <1>6, <3>1 DEF HeldType
    <3> QED
      BY <3>2 DEF b
  <2>4. IF call.name = "StmtQuery" /\ p.kind # "result" THEN ~held'.open ELSE held'.open
    BY <1>3, <2>3
  <2>5. held'.of = OwnerOf(call, held') /\ call.name # "NextResultSet"
    BY <1>3, <2>2 DEF OwnerOf, RowCalls
  <2>6. held'.of <= call.n
    BY <1>1, <2>2
  <2> QED
    BY <2>2, <2>4, <2>5, <2>6
<1>4. CASE call.name \in {"Query", "StmtQuery"} /\ held.of = call.n
  <2>1. held' = [held EXCEPT !.done = p.kind # "result"]
    BY <1>5, <1>4 DEF RowsAfter, Doing
  <2>2. held.open /\ call.name # "StmtQuery"
    BY <1>5, <1>4 DEF Ready, Sends, OwnerOf, RowCalls, QueryLike
  <2> QED
    BY <1>6, <1>1, <1>4, <2>1, <2>2 DEF HeldType, OwnerOf, RowCalls
<1> QED
  BY <1>2, <1>3, <1>4 DEF QueryLike

(* The header of an answer: of a result, or of what has none.              *)
LEMMA HeaderKeepsTasks ==
    ASSUME TypeOK, Pooled, TasksInv, NEW p, Doing("header"), Header(p), held' = RowsAfter(p),
           call.name = "StmtQuery" => p.kind # "file"
    PROVE  TasksInv'
<1> DEFINE rest == Tail(call.todo)
           t == Head(call.todo)
           u == At(call.todo, 2)
           v == At(call.todo, 3)
           x == IF call.name \in QueryLike THEN <<Task("nextResult")>> ELSE rest
           k == Task("nextResult")
           l == Task("columns")
           e == Task("eof")
<1>1. call.todo # <<>> /\ t.do = "header"
  BY DEF Doing
<1>2. /\ call.todo \in Seq(TaskType) /\ rest \in Seq(TaskType) /\ t \in TaskType
      /\ Sound(call, held, rest) /\ Leads(call.name, t, u, v) /\ Ready(call, held, t)
      /\ Sound(call, held, call.todo)
      /\ u = At(rest, 1) /\ v = At(rest, 2) /\ t = At(call.todo, 1)
      /\ Owner = OwnerOf(call, held) /\ call.name # "Connect"
  BY <1>1, RestSound, RestTyped, AtFirst DEF TasksInv
<1>3. held \in HeldType /\ call \in CallType
  BY DEF TypeOK
<1>4. /\ None.do = "none" /\ k.do = "nextResult" /\ l.do = "columns" /\ e.do = "eof"
      /\ k \in TaskType /\ e \in TaskType
  BY TaskIs, TaskTyped DEF None, Tasks, Reading
<1>5. call.err = "running" /\ call.name \notin {"Ping", "Prepare", "Next"}
  BY <1>1, <1>2 DEF Ready, Sends, Leads, IsFile
<1>6. \/ Return(ErrorOf(p)) /\ IsError(p)
      \/ ~IsError(p) /\ p.kind # "result" /\ (Go(x) \/ (p.kind = "file" /\ SendFile(x)))
      \/ ~IsError(p) /\ p.kind = "result" /\ call.name \in QueryLike /\ Go(<<l>>)
      \/ ~IsError(p) /\ p.kind = "result" /\ call.name \notin QueryLike /\ Go(<<e, e>> \o rest)
      \/ ~IsError(p) /\ Return("mysql") /\ p.kind # "result"
  BY DEF Header, IsError, ErrorOf, x, l, e, rest
<1>7. ErrorOf(p) # "running"
  BY DEF ErrorOf
<1> HIDE DEF rest, t, u, v, k, l, e
<1>8. ASSUME call.name \in QueryLike, ~IsError(p)
      PROVE  /\ held'.of = OwnerOf(call, held') /\ held'.done = (p.kind # "result")
             /\ IF call.name = "StmtQuery" /\ p.kind # "result" THEN ~held'.open ELSE held'.open
             /\ held'.of <= call.n
             /\ call.name = "NextResultSet" => held'.of = held.of
             /\ held'.of # 0 \/ call.name # "NextResultSet"
  BY <1>8, HeldAfterHeader
<1>9. call.name \notin QueryLike \/ IsError(p) => held' = held
  BY <1>1 DEF RowsAfter, Doing, t, QueryLike
<1>10. ASSUME Keeps PROVE TasksInv'
  <2>1. call.name # "pooled" /\ call'.name = call.name /\ call'.n = call.n
    BY <1>1, <1>10 DEF TasksInv, Keeps
  <2>2. /\ held'.of <= call.n
        /\ held'.of = call.n /\ call.n # 0 => call.name \in {"Query", "StmtQuery"}
        /\ call.name \in RowCalls => held'.of # 0
    BY <1>8, <1>9 DEF TasksInv, QueryLike, RowCalls
  <2>3. Sound(call, held, call.todo)'
    BY <1>10 DEF Keeps
  <2> QED
    BY <2>1, <2>2, <2>3 DEF TasksInv
<1>11. ASSUME NEW y, Go(y), Sound(call, held', y)
       PROVE  TasksInv'
  BY <1>1, <1>10, <1>11, GoSound DEF Keeps
<1>12. ASSUME NEW err, err # "running", Return(err)
       PROVE  TasksInv'
  BY <1>1, <1>10, <1>12, ReturnSound DEF Keeps
(* After what has no rows.                                                 *)
<1>13. ASSUME ~IsError(p), p.kind # "result"
       PROVE  /\ x \in Seq(TaskType) /\ Sound(call, held', x)
              /\ At(x, 1).do = IF call.name \in QueryLike THEN "nextResult" ELSE "discard"
  <2>1. CASE call.name \in QueryLike
    <3>1. x = <<k>> /\ x \in Seq(TaskType)
      BY <1>4, <2>1 DEF k
    <3>2. Leads(call.name, k, None, None)
      BY <1>4, <2>1 DEF Leads, IsFile
    <3>3. Ready(call, held', k)
      BY <1>4, <1>5, <1>8, <1>13, <2>1 DEF Ready, Sends
    <3>4. Sound(call, held', <<k>>) /\ At(<<k>>, 1) = k
      BY <3>2, <3>3, SoundOne
    <3> QED
      BY <1>4, <2>1, <3>1, <3>4
  <2>2. CASE call.name \notin QueryLike
    <3>1. x = rest /\ u.do = "discard" /\ held' = held
      BY <1>1, <1>2, <1>9, <2>2 DEF Leads, IsFile
    <3> QED
      BY <1>2, <2>2, <3>1
  <2> QED
    BY <2>1, <2>2
<1> HIDE DEF x
<1>14. CASE ~IsError(p) /\ p.kind # "result" /\ (Go(x) \/ (p.kind = "file" /\ SendFile(x)))
  BY <1>5, <1>8, <1>11, <1>13, <1>14, SendFileSound
<1>15. CASE ~IsError(p) /\ p.kind = "result" /\ call.name \in QueryLike /\ Go(<<l>>)
  <2>1. Leads(call.name, l, None, None)
    BY <1>4, <1>15 DEF Leads, IsFile
  <2>2. Ready(call, held', l)
    BY <1>4, <1>5, <1>8, <1>15 DEF Ready, Sends
  <2> QED
    BY <1>11, <1>15, <2>1, <2>2, SoundOne
<1>16. CASE ~IsError(p) /\ p.kind = "result" /\ call.name \notin QueryLike /\ Go(<<e, e>> \o rest)
  <2>1. u.do = "discard" /\ held' = held
    BY <1>1, <1>2, <1>9, <1>16 DEF Leads, IsFile
  <2>2. Leads(call.name, e, u, v) /\ Leads(call.name, e, e, u)
    BY <1>4, <1>5, <2>1 DEF Leads, IsFile
  <2>3. Ready(call, held, e)
    BY <1>4, <1>5 DEF Ready, Sends
  <2>4. Sound(call, held, <<e>> \o rest) /\ <<e>> \o rest \in Seq(TaskType)
        /\ At(<<e>> \o rest, 1) = e /\ At(<<e>> \o rest, 1 + 1) = At(rest, 1)
    BY <1>2, <1>4, <2>2, <2>3, SoundCons, AtCons
  <2> DEFINE y == <<e>> \o rest
  <2>5. Sound(call, held, y) /\ y \in Seq(TaskType) /\ At(y, 1) = e /\ At(y, 2) = u
    BY <1>2, <2>4
  <2>6. <<e, e>> \o rest = <<e>> \o y
    <3>1. rest \in Seq(TaskType) /\ e \in TaskType
      BY <1>2, <1>4
    <3> QED
      BY <3>1, PairCons, SMTT(30)
  <2> HIDE DEF y
  <2>7. Sound(call, held, <<e>> \o y)
    BY <1>4, <2>2, <2>3, <2>5, SoundCons
  <2> QED
    BY <1>11, <1>16, <2>1, <2>6, <2>7
<1> QED
  BY <1>6, <1>7, <1>12, <1>14, <1>15, <1>16

(* The server does not ask for a file for a prepared statement.            *)
NoFileAsked ==
    call.name = "StmtQuery" /\ Doing("header") =>
        \A r \in Arrivals : InSequence(r.pkt) => r.pkt.kind # "file"

LEMMA ReadKeepsTasks ==
    ASSUME TypeOK, Pooled, TasksInv, NoFileAsked, ReadPacket
    PROVE  TasksInv'
<1> DEFINE rest == Tail(call.todo)
           t == Head(call.todo)
           u == At(call.todo, 2)
           v == At(call.todo, 3)
           e == Task("eof")
<1>1. call.todo # <<>> /\ t.do \in Reading
  BY DEF ReadPacket
<1>2. PICK r \in Arrivals : InSequence(r.pkt) /\ held' = RowsAfter(r.pkt) /\ CallReads(r.pkt)
  BY DEF ReadPacket
<1> DEFINE p == r.pkt
<1>3. /\ call.todo \in Seq(TaskType) /\ rest \in Seq(TaskType) /\ t \in TaskType
      /\ Sound(call, held, rest) /\ Leads(call.name, t, u, v) /\ Ready(call, held, t)
      /\ Sound(call, held, call.todo)
      /\ u = At(rest, 1) /\ v = At(rest, 2) /\ t = At(call.todo, 1)
      /\ Owner = OwnerOf(call, held) /\ call.name # "Connect"
  BY <1>1, RestSound, RestTyped, AtFirst DEF TasksInv
<1>4. held \in HeldType /\ call \in CallType
  BY DEF TypeOK
<1>5. None.do = "none" /\ e.do = "eof" /\ e \in TaskType
  BY TaskIs, TaskTyped DEF None, Tasks, Reading
<1> HIDE DEF rest, t, u, v, e, p
<1>6. ASSUME NEW err, err # "running", Return(err), held'.of = held.of
      PROVE  TasksInv'
  BY <1>1, <1>6, ReturnSound, KeepsTasks DEF Keeps
<1>7. ASSUME NEW x, Go(x), Sound(call, held', x), held'.of = held.of
      PROVE  TasksInv'
  BY <1>1, <1>7, GoSound, KeepsTasks DEF Keeps
<1>8. t.do \in {"ok", "any", "header", "eof", "drain", "columns", "row", "prepared"}
  BY <1>1, <1>3 DEF Leads, IsFile, Reading
<1>9. ErrorOf(p) # "running"
  BY DEF ErrorOf
<1>10. t.do \notin {"header", "drain", "row"} => held' = held
  BY <1>2 DEF RowsAfter, Doing, t, p
<1>11. CASE t.do = "header"
  <2>1. Doing("header") /\ Header(p) /\ held' = RowsAfter(p)
    BY <1>1, <1>2, <1>11 DEF CallReads, Doing, t, p
  <2>2. call.name = "StmtQuery" => p.kind # "file"
    BY <1>2, <2>1 DEF NoFileAsked, p
  <2> QED
    BY <2>1, <2>2, HeaderKeepsTasks
<1>12. CASE t.do \in {"ok", "any"}
  <2>1. Go(rest) \/ Return(ErrorOf(p)) \/ Return("file")
    BY <1>1, <1>2, <1>12 DEF CallReads, Doing, t, p, rest
  <2> QED
    BY <1>3, <1>6, <1>7, <1>9, <1>10, <1>12, <2>1
<1>13. CASE t.do \in {"eof", "columns"}
  <2>1. Go(rest) \/ Go(call.todo) \/ Return(ErrorOf(p))
    BY <1>1, <1>2, <1>13 DEF CallReads, UntilEOF, Doing, t, p, rest
  <2> QED
    BY <1>3, <1>6, <1>7, <1>9, <1>10, <1>13, <2>1
<1>14. CASE t.do = "drain"
  <2>1. \/ Go(rest) /\ held' = [held EXCEPT !.done = TRUE]
        \/ Go(call.todo) /\ held' = held
        \/ Return(ErrorOf(p)) /\ held' = held
    <3>1. UntilEOF(p) /\ held' = IF p.kind = "eof" THEN [held EXCEPT !.done = TRUE] ELSE held
      BY <1>1, <1>2, <1>14 DEF CallReads, RowsAfter, Doing, t, p
    <3> QED
      BY <3>1 DEF UntilEOF, IsError, rest
  <2>2. held'.of = held.of /\ held'.open = held.open
    BY <1>4, <2>1 DEF HeldType
  <2>3. ASSUME Go(rest) PROVE TasksInv'
    <3>1. u.do = "more"
      BY <1>3, <1>14 DEF Leads, IsFile
    <3>2. rest # <<>>
      <4>1. rest = <<>> => u = None
        BY <1>1, <1>3, AtFirst DEF u, rest
      <4> QED
        BY <1>5, <3>1, <4>1
    <3>3. Leads(call.name, u, v, At(rest, 3)) /\ Ready(call, held, u)
      BY <1>3, <3>2, SoundFirst
    <3>4. v.do = "none"
      BY <3>1, <3>3 DEF Leads, IsFile
    <3>5. Tail(rest) = <<>>
      BY <1>3, <3>2, <3>4, LastTask
    <3>6. Len(rest) = 1 /\ rest[1] = u
      <4>1. Len(Tail(rest)) = Len(rest) - 1 /\ Len(Tail(rest)) = 0 /\ Len(rest) \in Nat
            /\ rest[1] = At(rest, 1)
        <5>1. Len(Tail(rest)) = Len(rest) - 1 /\ rest[1] = At(rest, 1)
          BY <1>3, <3>2, AtFirst
        <5>2. Len(Tail(rest)) = 0 /\ Len(rest) \in Nat
          <6>1. Tail(rest) \in Seq(TaskType)
            BY <1>3, <3>2, AtFirst
          <6>2. Len(Tail(rest)) = 0
            BY <3>5, <6>1, EmptySeq
          <6> QED
            BY <1>3, <6>2
        <5> QED
          BY <5>1, <5>2
      <4> QED
        BY <1>3, <4>1
    <3>7. Ready(call, held', u)
      BY <2>2, <3>1, <3>3 DEF Ready, Sends, OwnerOf
    <3>8. \A i \in 1..Len(rest) : Ready(call, held', rest[i])
      <4> TAKE i \in 1..Len(rest)
      <4>1. i = 1
        BY <3>6
      <4> QED
        BY <3>6, <3>7, <4>1
    <3>9. Sound(call, held', rest)
      BY <1>3, <3>8 DEF Sound
    <3> QED
      BY <1>7, <2>2, <2>3, <3>9
  <2> QED
    BY <1>3, <1>6, <1>7, <1>9, <2>1, <2>2, <2>3
<1>15. CASE t.do = "row"
  <2>1. held'.of = held.of
    <3>1. held' = held \/ held' = [held EXCEPT !.done = TRUE, !.open = p.flag]
          \/ held' = [held EXCEPT !.open = FALSE]
      BY <1>1, <1>2, <1>15 DEF RowsAfter, Doing, t, p
    <3> QED
      BY <1>4, <3>1 DEF HeldType
  <2>2. Return("nil") \/ Return("end") \/ Return(ErrorOf(p))
    BY <1>1, <1>2, <1>15 DEF CallReads, Row, Doing, t, p
  <2> QED
    BY <1>6, <1>9, <2>1, <2>2
<1>16. CASE t.do = "prepared"
  <2>1. u.do = "none" /\ call.name = "Prepare"
    BY <1>3, <1>16 DEF Leads, IsFile
  <2>2. rest = <<>>
    BY <1>1, <1>3, <2>1, LastTask DEF u, rest
  <2>3. Go(rest) \/ Go(<<e>> \o rest) \/ Go(<<e, e>> \o rest) \/ Return(ErrorOf(p))
    BY <1>1, <1>2, <1>16 DEF CallReads, Prepared, Doing, t, p, rest, e
  <2>4. /\ <<e>> \o rest = <<e>>
        /\ <<e, e>> \o rest = <<e, e>>
    <3>1. <<e>> \in Seq(TaskType) /\ <<e, e>> \in Seq(TaskType)
      BY <1>5
    <3> QED
      BY <2>2, <3>1, ConcatEmptySeq
  <2>5. Leads(call.name, e, None, None) /\ Leads(call.name, e, e, None)
    BY <1>5, <2>1 DEF Leads, IsFile
  <2>6. call.err = "running"
    BY <1>3, <1>16 DEF Ready, Sends
  <2>7. Ready(call, held', e)
    BY <1>5, <2>6 DEF Ready, Sends
  <2>8. Sound(call, held', <<e>>) /\ Sound(call, held', <<e, e>>)
    BY <2>5, <2>7, SoundOne, SoundTwo
  <2>9. held' = held
    BY <1>10, <1>16
  <2> QED
    BY <1>3, <1>6, <1>7, <1>9, <2>3, <2>4, <2>8, <2>9
<1> QED
  BY <1>8, <1>11, <1>12, <1>13, <1>14, <1>15, <1>16

-----------------------------------------------------------------------------
(* What a call starts with. *)

(* In front of sound tasks may come a write they are made for, or "open".  *)
LEMMA SoundWrite ==
    ASSUME NEW c, NEW h, NEW r \in Seq(TaskType), Sound(c, h, r), c.err = "running",
           NEW cmd \in Commands \ {"content", "empty"},
           WriteLeads(c.name, Writing(cmd, "none"), At(r, 1)), h.of # OwnerOf(c, h),
           cmd = "stmtClose" => c.name # "Prepare"
    PROVE  /\ Sound(c, h, Small(cmd) \o r) /\ Small(cmd) \o r \in Seq(TaskType)
           /\ At(Small(cmd) \o r, 1) = Writing(cmd, "none")
           /\ At(Small(cmd) \o r, 2) = At(r, 1)
<1> DEFINE w == Writing(cmd, "none")
<1>1. w \in TaskType /\ w.do = "write" /\ w.cmd = cmd
  BY WritingTyped DEF Forms
<1>2. Leads(c.name, w, At(r, 1), At(r, 2)) /\ Ready(c, h, w)
  BY <1>1 DEF Leads, IsFile, Ready, Sends
<1>3. Small(cmd) = <<w>> /\ WriteLeads(c.name, w, At(r, 1))
  BY DEF Small
<1> HIDE DEF w
<1>4. At(<<w>> \o r, 1 + 1) = At(r, 1)
  BY <1>1, AtCons
<1> QED
  BY <1>1, <1>2, <1>3, <1>4, SoundCons, AtCons DEF w

LEMMA SoundOpen ==
    ASSUME NEW c, NEW h, NEW r \in Seq(TaskType), Sound(c, h, r), c.err = "running",
           NEW do \in {"open", "buffer"},
           Starts(At(r, 1)) \/ (do = "open" /\ At(r, 1).do = "buffer"), h.of # OwnerOf(c, h)
    PROVE  /\ Sound(c, h, <<Task(do)>> \o r) /\ <<Task(do)>> \o r \in Seq(TaskType)
           /\ At(<<Task(do)>> \o r, 1) = Task(do)
           /\ At(<<Task(do)>> \o r, 2) = At(r, 1)
<1> DEFINE w == Task(do)
<1>1. w \in TaskType /\ w.do = do
  BY TaskTyped, TaskIs DEF Tasks
<1> HIDE DEF w
<1>2. Leads(c.name, w, At(r, 1), At(r, 2)) /\ Ready(c, h, w)
  BY <1>1 DEF Leads, IsFile, Ready, Sends
<1>4. At(<<w>> \o r, 1 + 1) = At(r, 1)
  BY <1>1, AtCons
<1> QED
  BY <1>1, <1>2, <1>4, SoundCons, AtCons DEF w

(* A command, the header of its answer, and what follows it.               *)
LEMMA CommandSound ==
    ASSUME NEW c, NEW h, c.err = "running", NEW cmd \in {"query", "execute", "session", "commit"},
           c.name \notin QueryLike \cup {"Ping", "Prepare", "Next"},
           cmd = "query" => c.name = "Exec",
           cmd = "execute" => c.name = "StmtExec",
           cmd = "session" => c.name = "BeginTx",
           cmd = "commit" => c.name = "Commit",
           NEW r \in Seq(TaskType), Sound(c, h, r),
           At(r, 1).do = "header", h.of # OwnerOf(c, h)
    PROVE  /\ Sound(c, h, Small(cmd) \o r) /\ Small(cmd) \o r \in Seq(TaskType)
           /\ Starts(At(Small(cmd) \o r, 1))
           /\ Sound(c, h, <<Task("open")>> \o Small(cmd) \o r)
           /\ <<Task("open")>> \o Small(cmd) \o r \in Seq(TaskType)
           /\ At(<<Task("open")>> \o Small(cmd) \o r, 1) = Task("open")
<1> DEFINE w == Writing(cmd, "none")
           x == Small(cmd) \o r
<1>1. w.do = "write" /\ w.cmd = cmd /\ w.first /\ w.last /\ cmd \in Commands
  BY WritingIs DEF Commands
<1> HIDE DEF w
<1>2. WriteLeads(c.name, w, At(r, 1)) /\ Starts(w)
  BY <1>1 DEF WriteLeads, Starts
<1>3. Sound(c, h, x) /\ x \in Seq(TaskType) /\ Starts(At(x, 1))
  BY <1>1, <1>2, SoundWrite DEF w
<1>4. <<Task("open")>> \in Seq(TaskType) /\ Small(cmd) \in Seq(TaskType)
  BY <1>1, TaskTyped, SmallTyped DEF Tasks
<1>5. <<Task("open")>> \o Small(cmd) \o r = <<Task("open")>> \o x
  BY <1>4, ThreeParts
<1> HIDE DEF x
<1>6. /\ Sound(c, h, <<Task("open")>> \o x) /\ <<Task("open")>> \o x \in Seq(TaskType)
      /\ At(<<Task("open")>> \o x, 1) = Task("open")
  BY <1>3, SoundOpen
<1> QED
  BY <1>3, <1>5, <1>6 DEF x

LEMMA HeaderSound ==
    ASSUME NEW c, NEW h, c.err = "running", c.name \notin RowCalls => h.of # c.n,
           c.name \notin RowCalls \cup {"Ping", "Prepare"}
    PROVE  /\ c.name \in QueryLike => /\ Sound(c, h, <<Task("header")>>)
                                      /\ At(<<Task("header")>>, 1) = Task("header")
           /\ c.name \notin QueryLike => /\ Sound(c, h, <<Task("header"), Task("discard")>>)
                                         /\ At(<<Task("header"), Task("discard")>>, 1) = Task("header")
           /\ <<Task("header")>> \in Seq(TaskType)
           /\ <<Task("header"), Task("discard")>> \in Seq(TaskType)
           /\ Task("header").do = "header"
<1> DEFINE t == Task("header")
           d == Task("discard")
<1>1. t.do = "header" /\ d.do = "discard" /\ None.do = "none" /\ t \in TaskType /\ d \in TaskType
  BY TaskIs, TaskTyped DEF None, Tasks, Reading
<1>2. c.name \notin {"Next", "NextResultSet", "RowsClose", "Ping", "Prepare"}
  BY DEF RowCalls
<1> HIDE DEF t, d
<1>3. Ready(c, h, t) /\ Ready(c, h, d)
  BY <1>1 DEF Ready, Sends, OwnerOf
<1>4. c.name \in QueryLike => Leads(c.name, t, None, None)
  BY <1>1, <1>2 DEF Leads, IsFile
<1>5. c.name \notin QueryLike => Leads(c.name, t, d, None) /\ Leads(c.name, d, None, None)
  BY <1>1, <1>2 DEF Leads, IsFile
<1>6. <<t>> \in Seq(TaskType) /\ <<t, d>> \in Seq(TaskType)
  BY <1>1
<1> QED
  BY <1>1, <1>3, <1>4, <1>5, <1>6, SoundOne, SoundTwo DEF t, d

(* What a call starts with is sound, and begins with a command or with     *)
(* what looks whether there can be one.                                    *)
Begins(todo) ==
    /\ todo # <<>> /\ todo \in Seq(TaskType)
    /\ \/ At(todo, 1).do \in {"open", "next", "nextResult", "finish"}
       \/ Starts(At(todo, 1))

LEMMA OpenBegins ==
    ASSUME NEW todo \in Seq(TaskType), At(todo, 1) = Task("open") \/ Starts(At(todo, 1))
    PROVE  Begins(todo)
<1>1. Task("open").do = "open" /\ None.do = "none" /\ At(<<>>, 1) = None
  BY TaskIs, AtEmpty DEF None
<1>2. todo # <<>>
  BY <1>1 DEF Starts
<1> QED
  BY <1>1, <1>2 DEF Begins

LEMMA ProgramSound ==
    ASSUME NEW c, NEW h, c.name \in Names \ {"Connect"}, c.err = "running",
           c.name \notin RowCalls => h.of # c.n, c.name = "Next" => ~h.done,
           NEW todo \in Program(c.name)
    PROVE  Sound(c, h, todo) /\ Begins(todo)
<1> DEFINE hd == <<Task("header"), Task("discard")>>
           H == <<Task("header")>>
           op == <<Task("open")>>
           T == TaskType
<1>20. c.name \notin RowCalls => h.of # OwnerOf(c, h)
  BY DEF OwnerOf
<1>1. None.do = "none" /\ Task("header").do = "header"
  BY TaskIs DEF None
<1>2. op \in Seq(T) /\ hd \in Seq(T) /\ H \in Seq(T)
  BY TaskTyped DEF Tasks, Reading
<1>3. \A cmd \in Commands : Small(cmd) \in Seq(T)
  BY SmallTyped
<1>4. c.name \in {"Exec", "StmtExec", "BeginTx", "Commit"} =>
          Sound(c, h, hd) /\ At(hd, 1).do = "header"
  BY <1>1, HeaderSound DEF QueryLike, RowCalls
<1>5. c.name \in {"Query", "StmtQuery"} => Sound(c, h, H) /\ At(H, 1).do = "header"
  BY <1>1, HeaderSound DEF QueryLike, RowCalls
<1> HIDE DEF hd, H, T
<1>6. ASSUME NEW cmd \in {"query", "execute", "session", "commit"},
             cmd = "query" => c.name = "Exec",
             cmd = "execute" => c.name = "StmtExec",
             cmd = "session" => c.name = "BeginTx",
             cmd = "commit" => c.name = "Commit"
      PROVE  /\ Sound(c, h, op \o Small(cmd) \o hd) /\ Begins(op \o Small(cmd) \o hd)
             /\ Sound(c, h, Small(cmd) \o hd) /\ Small(cmd) \o hd \in Seq(T)
             /\ Starts(At(Small(cmd) \o hd, 1))
  <2>1. c.name \in {"Exec", "StmtExec", "BeginTx", "Commit"}
    BY <1>6
  <2>2. c.name \notin QueryLike \cup {"Ping", "Prepare", "Next"}
    BY <2>1 DEF QueryLike
  <2>3. hd \in Seq(TaskType) /\ Sound(c, h, hd) /\ At(hd, 1).do = "header"
    BY <1>2, <1>4, <2>1 DEF T
  <2>4. /\ Sound(c, h, Small(cmd) \o hd) /\ Small(cmd) \o hd \in Seq(TaskType)
        /\ Starts(At(Small(cmd) \o hd, 1))
        /\ Sound(c, h, <<Task("open")>> \o Small(cmd) \o hd)
        /\ <<Task("open")>> \o Small(cmd) \o hd \in Seq(TaskType)
        /\ At(<<Task("open")>> \o Small(cmd) \o hd, 1) = Task("open")
    BY <1>6, <1>20, <2>1, <2>2, <2>3, CommandSound DEF RowCalls
  <2>5. Begins(<<Task("open")>> \o Small(cmd) \o hd)
    BY <2>4, OpenBegins
  <2> QED
    BY <2>4, <2>5 DEF T
<1>7. ASSUME c.name \notin RowCalls, NEW x \in Seq(T), Sound(c, h, x), Starts(At(x, 1)) \/ At(x, 1).do = "buffer"
      PROVE  Sound(c, h, op \o x) /\ Begins(op \o x)
  <2>1. /\ Sound(c, h, <<Task("open")>> \o x) /\ <<Task("open")>> \o x \in Seq(TaskType)
        /\ At(<<Task("open")>> \o x, 1) = Task("open")
    BY <1>7, <1>20, SoundOpen DEF T, RowCalls
  <2> QED
    BY <2>1, OpenBegins
<1>8. ASSUME NEW cmd \in Commands, NEW x \in Seq(T)
      PROVE  op \o Small(cmd) \o x = op \o (Small(cmd) \o x) /\ Small(cmd) \o x \in Seq(T)
  BY <1>2, <1>3, <1>8, ThreeParts
<1>9. ASSUME c.name \notin RowCalls, NEW cmd \in Commands, NEW x \in Seq(T), Sound(c, h, x),
             WriteLeads(c.name, Writing(cmd, "none"), At(x, 1)), cmd \notin {"content", "empty"},
              cmd = "stmtClose" => c.name # "Prepare"
      PROVE  /\ Sound(c, h, Small(cmd) \o x) /\ Small(cmd) \o x \in Seq(T)
             /\ Starts(At(Small(cmd) \o x, 1))
             /\ At(Small(cmd) \o x, 1) = Writing(cmd, "none")
  <2>1. Starts(Writing(cmd, "none"))
    BY <1>9, WritingIs DEF Starts, RowCalls
  <2> QED
    BY <1>9, <1>20, <2>1, SoundWrite DEF T, RowCalls
(* With "open" before it.                                                  *)
<1>10. ASSUME c.name \notin RowCalls, NEW cmd \in Commands, NEW x \in Seq(T), Sound(c, h, x),
              WriteLeads(c.name, Writing(cmd, "none"), At(x, 1)), cmd \notin {"content", "empty"},
              cmd = "stmtClose" => c.name # "Prepare"
       PROVE  Sound(c, h, op \o Small(cmd) \o x) /\ Begins(op \o Small(cmd) \o x)
  <2> DEFINE y == Small(cmd) \o x
  <2>1. y \in Seq(T) /\ Sound(c, h, y) /\ Starts(At(y, 1)) /\ op \o Small(cmd) \o x = op \o y
    BY <1>8, <1>9, <1>10
  <2> HIDE DEF y
  <2> QED
    BY <1>7, <1>10, <2>1
<1>11. CASE c.name = "Ping"
  <2> DEFINE w == Writing("ping", "none")
             o == Task("ok")
  <2>1. /\ w.do = "write" /\ w.cmd = "ping" /\ w.first /\ w.last /\ o.do = "ok"
        /\ w \in TaskType /\ o \in TaskType
    BY WritingIs, TaskIs, WritingTyped, TaskTyped DEF Commands, Forms, Tasks, Reading
  <2>2. todo = <<w, o>>
    BY <1>11 DEF Program
  <2> HIDE DEF w, o
  <2>3. WriteLeads(c.name, w, o)
    BY <1>11, <2>1 DEF WriteLeads
  <2>4. Leads(c.name, w, o, None) /\ Leads(c.name, o, None, None) /\ Ready(c, h, w) /\ Ready(c, h, o)
    BY <1>1, <1>11, <1>20, <2>1, <2>3 DEF Leads, IsFile, Ready, Sends, QueryLike, RowCalls
  <2>5. Sound(c, h, todo) /\ At(todo, 1) = w /\ todo \in Seq(TaskType)
    BY <2>1, <2>2, <2>4, SoundTwo
  <2> QED
    BY <2>1, <2>5, OpenBegins DEF Starts
<1>12. CASE c.name = "Exec"
  <2> DEFINE a == [Writing("query", "none") EXCEPT !.last = FALSE]
             b == [Writing("query", "none") EXCEPT !.first = FALSE]
             l == Large("query")
  <2>1. /\ a.do = "write" /\ a.cmd = "query" /\ a.first /\ ~a.last
        /\ b.do = "write" /\ b.cmd = "query" /\ ~b.first /\ b.last
    BY DEF Writing, Task
  <2>2. l = <<a, b>> /\ l \in Seq(T)
    BY LargeTyped DEF Large, Commands, T
  <2>3. a \in T /\ b \in T
    <3>1. Writing("query", "none") \in TaskType
      BY WritingTyped DEF Commands, Forms
    <3> QED
      BY <3>1, TaskFields DEF T
  <2>4. todo = op \o Small("query") \o hd \/ todo = op \o l \o hd
    BY <1>12 DEF Program, hd
  <2> HIDE DEF a, b, l, op
  <2>5. Sound(c, h, hd) /\ At(hd, 1).do = "header"
    BY <1>4, <1>12
  <2>6. WriteLeads(c.name, b, At(hd, 1)) /\ WriteLeads(c.name, a, b)
    BY <1>12, <2>1, <2>5 DEF WriteLeads
  <2>7. /\ Leads(c.name, b, At(hd, 1), At(hd, 2)) /\ Leads(c.name, a, b, At(hd, 1))
        /\ Ready(c, h, a) /\ Ready(c, h, b)
    BY <1>12, <1>20, <2>1, <2>6 DEF Leads, IsFile, Ready, Sends, RowCalls
  <2> DEFINE x == <<b>> \o hd
  <2>8. x \in Seq(T) /\ Sound(c, h, x) /\ At(x, 1) = b /\ At(x, 1 + 1) = At(hd, 1)
    BY <1>2, <2>3, <2>5, <2>7, SoundCons, AtCons
  <2> HIDE DEF x
  <2> DEFINE y == <<a>> \o x
  <2>9. y \in Seq(T) /\ Sound(c, h, y) /\ At(y, 1) = a
    BY <2>3, <2>7, <2>8, SoundCons, AtCons
  <2> HIDE DEF y
  <2>10. Sound(c, h, op \o y) /\ Begins(op \o y)
    BY <1>7, <1>12, <2>1, <2>9 DEF Starts, RowCalls
  <2>11. op \o l \o hd = op \o (l \o hd)
    BY <1>2, <2>2, ThreeParts
  <2>12. <<a, b>> \o hd = <<a>> \o (<<b>> \o hd)
    <3>1. a \in T /\ b \in T /\ hd \in Seq(T)
      BY <1>2, <2>3
    <3> QED
      BY <3>1, PairCons, SMTT(30)
  <2>13. l \o hd = y
    BY <2>2, <2>12 DEF x, y
  <2>14. Sound(c, h, op \o l \o hd) /\ Begins(op \o l \o hd)
    BY <2>10, <2>11, <2>13
  <2>15. Sound(c, h, op \o Small("query") \o hd) /\ Begins(op \o Small("query") \o hd)
    BY <1>6, <1>12
  <2> QED
    BY <2>4, <2>14, <2>15
<1>13. CASE c.name \in {"Query", "StmtQuery"}
  <2> DEFINE cmd == IF c.name = "Query" THEN "query" ELSE "execute"
  <2>1. todo = op \o Small(cmd) \o H
    BY <1>13 DEF Program, H
  <2>2. cmd \in Commands /\ cmd \notin {"content", "empty"}
    BY DEF Commands
  <2>3. WriteLeads(c.name, Writing(cmd, "none"), At(H, 1))
    BY <1>5, <1>13, WritingIs DEF WriteLeads
  <2> HIDE DEF cmd, op
  <2> QED
    BY <1>2, <1>5, <1>10, <1>13, <2>1, <2>2, <2>3 DEF RowCalls
<1>14. CASE c.name = "Prepare"
  <2> DEFINE p == Task("prepared")
             x == <<p>>
  <2>1. p.do = "prepared" /\ x \in Seq(T)
    BY TaskIs, TaskTyped DEF Tasks, Reading, T
  <2>2. todo = op \o Small("prepare") \o x
    BY <1>14 DEF Program
  <2> HIDE DEF p
  <2>3. Leads(c.name, p, None, None) /\ Ready(c, h, p)
    BY <1>1, <1>14, <2>1 DEF Leads, IsFile, Ready, Sends, QueryLike
  <2>4. Sound(c, h, x) /\ At(x, 1) = p
    BY <2>3, SoundOne
  <2>5. WriteLeads(c.name, Writing("prepare", "none"), At(x, 1))
    BY <1>14, <2>1, <2>4, WritingIs DEF WriteLeads
  <2>6. "prepare" \in Commands
    BY DEF Commands
  <2> HIDE DEF x, op
  <2> QED
    BY <1>10, <1>14, <2>1, <2>2, <2>4, <2>5, <2>6 DEF RowCalls
<1>15. CASE c.name = "StmtExec"
  <2> DEFINE B == <<Task("buffer")>>
             E == Small("execute")
             L == Small("longdata")
             x == E \o hd
  <2>1. todo = op \o E \o hd \/ todo = op \o (B \o L \o E) \o hd
    BY <1>15 DEF Program, hd
  <2>2. Sound(c, h, op \o E \o hd) /\ Begins(op \o E \o hd)
    BY <1>6, <1>15
  <2>3. B \in Seq(T) /\ E \in Seq(T) /\ L \in Seq(T)
    BY TaskTyped, SmallTyped DEF Tasks, Commands, T
  <2>4. /\ "execute" \in Commands /\ "longdata" \in Commands
        /\ WriteLeads(c.name, Writing("execute", "none"), At(hd, 1))
    BY <1>4, <1>15, WritingIs DEF WriteLeads, Commands
  <2>5. x \in Seq(T) /\ Sound(c, h, x) /\ At(x, 1) = Writing("execute", "none")
    BY <1>2, <1>4, <1>9, <1>15, <2>4 DEF RowCalls
  <2>6. WriteLeads(c.name, Writing("longdata", "none"), At(x, 1))
    BY <1>15, <2>5, WritingIs DEF WriteLeads
  <2> HIDE DEF x
  <2> DEFINE y == L \o x
  <2>7. y \in Seq(T) /\ Sound(c, h, y) /\ Starts(At(y, 1))
    BY <1>9, <1>15, <2>4, <2>5, <2>6 DEF RowCalls
  <2> HIDE DEF y, L, E, op
  <2> DEFINE z == <<Task("buffer")>> \o y
  <2>8. z \in Seq(T) /\ Sound(c, h, z) /\ At(z, 1).do = "buffer"
    <3>1. z \in Seq(T) /\ Sound(c, h, z) /\ At(z, 1) = Task("buffer")
      BY <1>15, <1>20, <2>7, SoundOpen DEF T, RowCalls
    <3> QED
      BY <3>1, TaskIs
  <2>9. z = B \o y
    OBVIOUS
  <2> HIDE DEF z, B
  <2>10. Sound(c, h, op \o z) /\ Begins(op \o z)
    BY <1>7, <1>15, <2>8 DEF RowCalls
  <2>11. /\ B \o L \o E = B \o (L \o E) /\ L \o E \in Seq(T)
    BY <2>3, ThreeParts
  <2>12. B \o (L \o E) \in Seq(T)
    <3> DEFINE k == L \o E
    <3>1. k \in Seq(T)
      BY <2>11
    <3> HIDE DEF k
    <3>2. B \o k \in Seq(T)
      BY <2>3, <3>1, ConcatProperties
    <3> QED
      BY <3>2 DEF k
  <2>13. (L \o E) \o hd = L \o (E \o hd)
    BY <1>2, <2>3, ThreeParts, SMTT(60)
  <2>14. (B \o (L \o E)) \o hd = B \o ((L \o E) \o hd)
    <3> DEFINE k == L \o E
    <3>1. k \in Seq(T)
      BY <2>11
    <3> HIDE DEF k
    <3>2. B \in Seq(T) /\ hd \in Seq(T)
      BY <1>2, <2>3
    <3>3. (B \o k) \o hd = B \o (k \o hd)
      BY <3>1, <3>2, ThreeParts, SMTT(30)
    <3> QED
      BY <3>3 DEF k
  <2>15. (B \o L \o E) \o hd = z
    BY <2>9, <2>11, <2>13, <2>14 DEF x, y
  <2>16. op \o (B \o L \o E) \o hd = op \o ((B \o L \o E) \o hd)
    <3> DEFINE k == B \o L \o E
    <3>1. k \in Seq(T)
      BY <2>11, <2>12
    <3> HIDE DEF k
    <3>2. (op \o k) \o hd = op \o (k \o hd)
      BY <1>2, <3>1, ThreeParts, SMTT(60)
    <3> QED
      BY <3>2 DEF k
  <2> QED
    BY <2>1, <2>2, <2>10, <2>15, <2>16
<1>16. CASE c.name = "BeginTx"
  <2> DEFINE S == Small("session")
             begin == op \o S \o hd
  <2>1. todo = begin \/ todo = S \o hd \o begin
    BY <1>16 DEF Program, hd
  <2>2. Sound(c, h, begin) /\ Begins(begin) /\ S \in Seq(T)
    BY <1>3, <1>6, <1>16 DEF Commands
  <2>3. begin \in Seq(T) /\ At(begin, 1).do = "open"
    <3>1. S \o hd \in Seq(T) /\ begin = op \o (S \o hd)
      BY <1>2, <2>2, ThreeParts
    <3> DEFINE k == S \o hd
    <3>2. k \in Seq(T) /\ begin = <<Task("open")>> \o k /\ Task("open") \in T
      BY <3>1, TaskTyped DEF Tasks, T
    <3> HIDE DEF k, begin
    <3>3. begin \in Seq(T) /\ At(begin, 1) = Task("open")
      BY <3>2, AtCons
    <3> QED
      BY <3>3, TaskIs
  <2> HIDE DEF begin, S
  <2> DEFINE t == Task("header")
             d == Task("discard")
             x == <<d>> \o begin
             y == <<t>> \o x
  <2>4. t.do = "header" /\ d.do = "discard" /\ t \in T /\ d \in T
    BY TaskIs, TaskTyped DEF Tasks, Reading, T
  <2> HIDE DEF t, d
  <2>5. /\ Leads(c.name, d, At(begin, 1), At(begin, 2)) /\ Ready(c, h, d)
        /\ Leads(c.name, t, d, At(begin, 1)) /\ Ready(c, h, t)
    BY <1>16, <2>3, <2>4 DEF Leads, IsFile, Ready, Sends, QueryLike
  <2>6. x \in Seq(T) /\ Sound(c, h, x) /\ At(x, 1) = d /\ At(x, 1 + 1) = At(begin, 1)
    BY <2>2, <2>3, <2>4, <2>5, SoundCons, AtCons
  <2> HIDE DEF x
  <2>7. y \in Seq(T) /\ Sound(c, h, y) /\ At(y, 1) = t
    BY <2>4, <2>5, <2>6, SoundCons, AtCons
  <2>8. hd \o begin = y
    <3>1. <<t, d>> \o begin = <<t>> \o (<<d>> \o begin)
      BY <2>3, <2>4, PairCons, SMTT(30)
    <3> QED
      BY <3>1, Zenon DEF hd, t, d, x
  <2>9. WriteLeads(c.name, Writing("session", "none"), At(y, 1)) /\ "session" \in Commands
    BY <1>16, <2>4, <2>7, WritingIs DEF WriteLeads, Commands
  <2> HIDE DEF y
  <2>10. Sound(c, h, S \o y) /\ S \o y \in Seq(T) /\ Starts(At(S \o y, 1))
    BY <1>9, <1>16, <2>7, <2>9 DEF S, RowCalls
  <2>11. S \o hd \o begin = S \o y
    <3>1. S \o hd \o begin = S \o (hd \o begin)
      BY <1>2, <2>2, <2>3, ThreeParts, SMTT(60)
    <3> QED
      BY <2>8, <3>1
  <2> QED
    BY <2>1, <2>2, <2>10, <2>11, OpenBegins DEF T
<1>17. CASE c.name = "Commit"
  <2>1. todo = op \o Small("commit") \o hd
    BY <1>17 DEF Program, hd
  <2> QED
    BY <1>6, <1>17, <2>1
<1>18. CASE c.name = "StmtClose"
  <2>1. todo = op \o Small("stmtClose")
    BY <1>18 DEF Program
  <2>2. <<>> \in Seq(T) /\ Sound(c, h, <<>>) /\ At(<<>>, 1).do = "none" /\ "stmtClose" \in Commands
    BY <1>1, SoundEmpty, AtEmpty DEF Commands
  <2>3. WriteLeads(c.name, Writing("stmtClose", "none"), At(<<>>, 1))
    BY <1>18, <2>2, WritingIs DEF WriteLeads
  <2> DEFINE x == Small("stmtClose")
  <2>4. x \o <<>> = x
    BY <1>3, <2>2, ConcatEmptySeq
  <2>5. x \in Seq(T) /\ Sound(c, h, x) /\ Starts(At(x, 1))
    BY <1>9, <1>18, <2>2, <2>3, <2>4 DEF RowCalls
  <2> HIDE DEF x
  <2> QED
    BY <1>7, <1>18, <2>1, <2>5 DEF x, RowCalls
<1>19. CASE c.name \in RowCalls
  <2> DEFINE n == Task("next")
             m == Task("nextResult")
             f == Task("finish")
             r == Task("closeRows")
  <2>1. /\ n.do = "next" /\ m.do = "nextResult" /\ f.do = "finish" /\ r.do = "closeRows"
        /\ n \in TaskType /\ m \in TaskType /\ f \in TaskType /\ r \in TaskType
    BY TaskIs, TaskTyped DEF Tasks, Reading
  <2>2. todo = CASE c.name = "Next" -> <<n>> [] c.name = "NextResultSet" -> <<m>> [] OTHER -> <<f, r>>
    BY <1>19 DEF Program, RowCalls
  <2> HIDE DEF n, m, f, r
  <2>3. CASE c.name = "Next"
    <3>1. Leads(c.name, n, None, None) /\ Ready(c, h, n)
      BY <1>1, <2>1, <2>3 DEF Leads, IsFile, Ready, Sends
    <3>2. Sound(c, h, todo) /\ At(todo, 1) = n /\ todo \in Seq(TaskType) /\ todo # <<>>
      BY <2>1, <2>2, <2>3, <3>1, SoundOne
    <3> QED
      BY <2>1, <3>2 DEF Begins
  <2>4. CASE c.name = "NextResultSet"
    <3>1. Leads(c.name, m, None, None) /\ Ready(c, h, m)
      BY <1>1, <2>1, <2>4 DEF Leads, IsFile, Ready, Sends, QueryLike, OwnerOf, RowCalls
    <3>2. Sound(c, h, todo) /\ At(todo, 1) = m /\ todo \in Seq(TaskType) /\ todo # <<>>
      BY <2>1, <2>2, <2>4, <3>1, SoundOne
    <3> QED
      BY <2>1, <3>2 DEF Begins
  <2>5. CASE c.name = "RowsClose"
    <3>1. /\ Leads(c.name, f, r, None) /\ Ready(c, h, f)
          /\ Leads(c.name, r, None, None) /\ Ready(c, h, r)
      BY <1>1, <2>1, <2>5 DEF Leads, IsFile, Ready, Sends, QueryLike
    <3>2. Sound(c, h, todo) /\ At(todo, 1) = f /\ todo \in Seq(TaskType) /\ todo # <<>>
      BY <2>1, <2>2, <2>5, <3>1, SoundTwo
    <3> QED
      BY <2>1, <3>2 DEF Begins
  <2> QED
    BY <1>19, <2>3, <2>4, <2>5 DEF RowCalls
<1> QED
  BY <1>11, <1>12, <1>13, <1>14, <1>15, <1>16, <1>17, <1>18, <1>19 DEF Names, RowCalls

(* A call starts with sound tasks; rows that are left are of an earlier.   *)
LEMMA StartKeepsTasks ==
    ASSUME TypeOK, Pooled, TasksInv, NEW name \in Names, NEW c, Start(name, c)
    PROVE  /\ TasksInv' /\ Pooled' /\ name # "Connect"
           /\ call'.todo = <<>> \/ Begins(call'.todo)
           /\ call'.todo # <<>> <=> call'.err = "running"
<1>1. Legal(name) /\ held \in HeldType /\ call \in CallType
  BY DEF Start, TypeOK
<1>2. name # "Connect" /\ name # "pooled" /\ name # "new"
  BY <1>1 DEF Legal, Pooled, Names
<1>3. /\ held'.of = (IF HasRows THEN held.of ELSE 0) /\ held'.done = (held.done /\ HasRows)
  <2>1. held' = [held EXCEPT !.open = @ /\ HasRows, !.of = IF HasRows THEN @ ELSE 0, !.done = @ /\ HasRows,
                             !.stmt = HasStmt, !.tx = InTx]
    BY DEF Start
  <2> DEFINE b == HasRows
             s == HasStmt
             x == InTx
             n == IF b THEN held.of ELSE 0
             d == held.done /\ b
             o == held.open /\ b
  <2>2. held' = [held EXCEPT !.open = o, !.of = n, !.done = d, !.stmt = s, !.tx = x]
    BY <2>1
  <2> HIDE DEF n, d, o, s, x
  <2>3. held'.of = n /\ held'.done = d
    BY <1>1, <2>2 DEF HeldType
  <2> QED
    BY <2>3 DEF n, d
<1>4. call.n \in Nat /\ held.of \in Nat /\ held.of <= call.n
  BY <1>1 DEF CallType, HeldType, TasksInv
<1>5. name \in RowCalls => HasRows /\ held.of # 0
  BY <1>1 DEF Legal, RowCalls, HasRows
<1>6. name = "Next" => ~held.done
  BY <1>1 DEF Legal
<1>7. ASSUME NEW todo, NEW err, call' = NewCall(name, todo, err), Sound(call', held', todo)
      PROVE  TasksInv' /\ Pooled'
  <2>1. call'.name = name /\ call'.n = call.n + 1 /\ call'.todo = todo
    BY <1>7 DEF NewCall
  <2>2. Sound(call, held, call.todo)'
    BY <1>7, <2>1
  <2> QED
    BY <1>2, <1>3, <1>4, <1>5, <2>1, <2>2 DEF TasksInv, Pooled
<1>8. ASSUME NEW err, err # "running", call' = NewCall(name, <<>>, err)
      PROVE  TasksInv' /\ Pooled' /\ call'.todo = <<>> /\ call'.err # "running"
  <2>1. Sound(call', held', <<>>)
    BY SoundEmpty
  <2> QED
    BY <1>7, <1>8, <2>1 DEF NewCall
<1>9. ASSUME NEW todo \in Program(name), call' = NewCall(name, todo, "running")
      PROVE  TasksInv' /\ Pooled' /\ Begins(call'.todo) /\ call'.err = "running"
  <2>1. call'.name = name /\ call'.n = call.n + 1 /\ call'.todo = todo /\ call'.err = "running"
    BY <1>9 DEF NewCall
  <2>2. call'.name \in Names \ {"Connect"} /\ todo \in Program(call'.name)
    BY <1>2, <2>1
  <2>3. call'.name \notin RowCalls => held'.of # call'.n
    BY <1>3, <1>4, <2>1
  <2>4. call'.name = "Next" => ~held'.done
    BY <1>3, <1>6, <2>1
  <2>5. Sound(call', held', todo) /\ Begins(todo)
    BY <2>1, <2>2, <2>3, <2>4, ProgramSound
  <2> QED
    BY <1>7, <1>9, <2>1, <2>5
<1> QED
  BY <1>2, <1>8, <1>9, StartCases DEF Begins

(* Only a new connection is used for Connect, and it for nothing else.     *)
LEMMA PooledStays ==
    ASSUME TypeOK, Next
    PROVE  Pooled' <=> Pooled
<1>1. ASSUME UNCHANGED call
      PROVE  Pooled' <=> Pooled
  BY <1>1 DEF Pooled
<1>2. ASSUME call'.name = call.name
      PROVE  Pooled' <=> Pooled
  BY <1>2 DEF Pooled
<1>3. ASSUME NEW name \in Names, NEW c, Start(name, c)
      PROVE  Pooled' <=> Pooled
  <2>1. call'.name = name
    BY <1>3, StartCases DEF NewCall
  <2> QED
    BY <1>3, <2>1 DEF Start, Legal, Pooled, Names
<1>4. ResetSession \/ Server \/ ServerCloses \/ Watcher \/ CancelContext \/ Break => UNCHANGED call
  BY DEF ResetSession, Server, ServerCloses, Watcher, CancelContext, Break, WatcherTakes, WatcherEnds,
     WatcherSees, WatcherCloses
<1>5. Client \/ ReadTimeout => call'.name = call.name
  BY ClientStays DEF Stays, Client, Moves
<1> QED
  BY <1>1, <1>2, <1>3, <1>4, <1>5 DEF Next

(* Every reachable state of a pooled connection has sound tasks.           *)
OtherSteps ==
    ResetSession \/ Server \/ ServerCloses \/ Watcher \/ CancelContext \/ Break

LEMMA OtherStepsKeep ==
    ASSUME OtherSteps
    PROVE  UNCHANGED <<call, held>>
BY DEF OtherSteps, ResetSession, Server, ServerAnswers, ServerCloses, Watcher, WatcherTakes, WatcherEnds,
   WatcherSees, WatcherCloses, CancelContext, Break

LEMMA NextCases ==
    ASSUME Next
    PROVE  \/ \E name \in Names : \E c \in {"none", "live", "done"} : Start(name, c)
           \/ Step \/ ReadPacket
           \/ OutOfSync \/ ReadFails \/ ReadTimeout \/ BusyBuffer \/ Write \/ Finish \/ Cleanup
           \/ TLSHandshake
           \/ OtherSteps
BY DEF Next, Client, OtherSteps

LEMMA InitTasks ==
    ASSUME Init
    PROVE  Pooled => TasksInv
<1> SUFFICES ASSUME Pooled
             PROVE  TasksInv
  OBVIOUS
<1>1. call.name = "pooled" /\ call.todo = <<>> /\ call.err = "running" /\ call.n = 0
  BY DEF Init, Pooled
<1>2. held.of = 0
  BY DEF Init
<1>3. Sound(call, held, call.todo)
  BY <1>1, SoundEmpty
<1> QED
  BY <1>1, <1>2, <1>3 DEF TasksInv, RowCalls

LEMMA NextTasks ==
    ASSUME TypeOK, Pooled => TasksInv /\ NoFileAsked, [Next]_connVars
    PROVE  (Pooled => TasksInv)'
<1> SUFFICES ASSUME Pooled'
             PROVE  TasksInv'
  OBVIOUS
<1>1. CASE UNCHANGED connVars
  <2>1. call' = call /\ held' = held
    BY <1>1 DEF connVars, connectVars, vars
  <2>2. Pooled /\ TasksInv
    BY <2>1 DEF Pooled
  <2> QED
    BY <2>1, <2>2 DEF TasksInv
<1>2. CASE Next
  <2>1. Pooled /\ TasksInv /\ NoFileAsked
    BY <1>2, PooledStays
  <2>2. CASE \E name \in Names : \E c \in {"none", "live", "done"} : Start(name, c)
    BY <2>1, <2>2, StartKeepsTasks
  <2>3. CASE OtherSteps
    <3>1. call' = call /\ held' = held
      BY <2>3, OtherStepsKeep
    <3> QED
      BY <2>1, <3>1 DEF TasksInv
  <2> QED
    BY <1>2, <2>1, <2>2, <2>3, NextCases, StepKeepsTasks, ReadKeepsTasks, MovesKeepTasks
<1> QED
  BY <1>1, <1>2

-----------------------------------------------------------------------------
(* The watcher of a pooled connection is handed a context by a call that   *)
(* takes it back.                                                          *)

LEMMA ReturnIs ==
    ASSUME TypeOK, NEW err, Return(err)
    PROVE  /\ call'.name = call.name /\ call'.n = call.n
           /\ call'.err = IF call.err = "running" THEN MarkBadConn(call.name, err) ELSE call.err
           /\ call'.todo = AtReturn(call.name, call'.err)
<1> DEFINE e == IF call.err = "running" THEN MarkBadConn(call.name, err) ELSE call.err
           l == AtReturn(call.name, e)
<1>1. call \in CallType
  BY DEF TypeOK
<1>2. call' = [call EXCEPT !.todo = l, !.err = e]
  BY DEF Return
<1> HIDE DEF e, l
<1>3. call'.name = call.name /\ call'.n = call.n /\ call'.err = e /\ call'.todo = l
  BY <1>1, <1>2 DEF CallType
<1> QED
  BY <1>3 DEF e, l

LEMMA GoIs ==
    ASSUME TypeOK, NEW todo, Go(todo)
    PROVE  /\ call'.name = call.name /\ call'.n = call.n
           /\ todo # <<>> => call'.todo = todo /\ call'.err = call.err
           /\ todo = <<>> => Return("nil")
<1>1. CASE todo = <<>>
  BY <1>1, ReturnIs DEF Go
<1>2. CASE todo # <<>>
  <2>1. call \in CallType /\ call' = [call EXCEPT !.todo = todo]
    BY <1>2 DEF Go, TypeOK
  <2> QED
    BY <1>2, <2>1 DEF CallType
<1> QED
  BY <1>1, <1>2

Calm ==
    /\ watcher' = watcher /\ mc'.watching = mc.watching /\ mc'.canceled = mc.canceled
    /\ mc.closed => mc'.closed

LEMMA MovesCalm ==
    ASSUME TypeOK, Moves
    PROVE  Calm /\ call.todo # <<>>
<1>1. mc \in ConnType /\ Closed(mc) \in ConnType
  BY ClosedTyped DEF TypeOK
<1>2. /\ Closed(mc).watching = mc.watching /\ Closed(mc).canceled = mc.canceled /\ Closed(mc).closed
      /\ Closed(mc).sequence = mc.sequence
  BY <1>1 DEF Closed, ConnType
<1>3. CASE Step
  BY <1>3 DEF Step, Calm, Open, TakeBuffer, Discard, NextRow, NextResult, More, CloseRows, LookAtContext, Doing
<1>4. CASE ReadPacket
  <2>1. PICK p : mc' = ConnAfter(p) /\ watcher' = watcher /\ call.todo # <<>>
    BY <1>4 DEF ReadPacket
  <2> DEFINE s == (mc.sequence + Span(p)) % 256
             more == IF p.kind = "ok" \/ (p.kind = "eof" /\ ~Doing("columns")) THEN p.flag ELSE mc.more
             tls == IF Doing("handshake") THEN Encrypted(p) ELSE mc.tls
             b == mc.closed \/ p.kind = "readonly"
  <2>2. mc' = [mc EXCEPT !.sequence = s, !.more = more, !.tls = tls, !.closed = b]
    BY <2>1 DEF ConnAfter
  <2>3. mc.closed => b
    OBVIOUS
  <2> HIDE DEF s, more, tls, b
  <2>4. mc'.watching = mc.watching /\ mc'.canceled = mc.canceled /\ mc'.closed = b
    BY <1>1, <2>2 DEF ConnType
  <2> QED
    BY <2>1, <2>3, <2>4 DEF Calm
<1>5. CASE OutOfSync \/ ReadFails \/ ReadTimeout \/ Cleanup \/ TLSHandshake
  BY <1>1, <1>2, <1>5 DEF OutOfSync, ReadFails, ReadTimeout, Cleanup, TLSHandshake, Calm, Doing
<1>6. CASE BusyBuffer
  BY <1>1, <1>6 DEF BusyBuffer, Calm, Doing, ConnType
<1>7. CASE Write
  <2>1. mc.closed \in BOOLEAN
    BY <1>1 DEF ConnType
  <2>2. [Closed(mc) EXCEPT !.reset = FALSE].closed
    BY <1>1, <1>2 DEF ConnType
  <2>3. /\ [Closed(mc) EXCEPT !.reset = FALSE].watching = mc.watching
        /\ [Closed(mc) EXCEPT !.reset = FALSE].canceled = mc.canceled
    BY <1>1, <1>2 DEF ConnType
  <2>4. PICK w : TooLarge(w) \/ Stale \/ Sent(w) \/ NothingWritten \/ PartWritten
    BY <1>7 DEF Write
  <2>5. watcher' = watcher /\ call.todo # <<>>
    BY <1>7 DEF Write, Doing
  <2>6. CASE TooLarge(w) \/ Stale \/ PartWritten
    BY <2>2, <2>3, <2>5, <2>6 DEF TooLarge, Stale, PartWritten, Calm
  <2>7. CASE Sent(w) \/ NothingWritten
    BY <1>1, <2>5, <2>7 DEF Sent, NothingWritten, Calm, ConnType
  <2> QED
    BY <2>4, <2>6, <2>7
<1> QED
  BY <1>3, <1>4, <1>5, <1>6, <1>7 DEF Moves

(* A query that has succeeded has its rows, also when they are empty.      *)
LEMMA QueryHasRows ==
    ASSUME TypeOK, Pooled, TasksInv, Moves, call.name \in {"Query", "StmtQuery"},
           call.err = "running", call'.err = "nil"
    PROVE  held'.of # 0
<1> DEFINE t == Head(call.todo)
           u == At(call.todo, 2)
           v == At(call.todo, 3)
           rest == Tail(call.todo)
<1>1. call.todo # <<>>
  BY MovesCalm
<1>2. /\ Leads(call.name, t, u, v) /\ Ready(call, held, t) /\ t = At(call.todo, 1)
      /\ call.n # 0 /\ OwnerOf(call, held) = call.n
      /\ rest = <<>> => u = None
  BY <1>1, RestSound, RestTyped, AtFirst DEF TasksInv, Pooled, OwnerOf, RowCalls
<1>3. None.do = "none"
  BY TaskIs DEF None
<1>4. ASSUME NEW err, err # "nil", Return(err)
      PROVE  FALSE
  BY <1>4, ReturnIs DEF MarkBadConn
<1>5. ASSUME NEW x, x # <<>>, Go(x)
      PROVE  FALSE
  BY <1>5, GoIs
<1>6. Go(rest) => u.do = "none"
  BY <1>2, <1>3, <1>5
<1> HIDE DEF u, v, rest, t
<1>7. ReadError # "nil" /\ ConnError # "nil" /\ \A p : ErrorOf(p) # "nil"
  BY DEF ReadError, ConnError, ErrorOf
<1>8. CASE OutOfSync \/ ReadFails \/ ReadTimeout \/ BusyBuffer
  BY <1>4, <1>7, <1>8 DEF OutOfSync, ReadFails, ReadTimeout, BusyBuffer
<1>9. CASE Cleanup \/ TLSHandshake
  BY <1>2, <1>9 DEF Leads, IsFile, Cleanup, TLSHandshake, Doing, t
<1>10. CASE Write
  <2>1. t.do = "write"
    BY <1>10 DEF Write, Doing, t
  <2>2. u.do # "none"
    BY <1>2, <2>1 DEF Leads, IsFile, WriteLeads
  <2>3. ASSUME NEW err \in {"ctx", "nowrite", "invalid"}, Fails(err)
        PROVE  FALSE
    BY <1>4, <1>6, <2>2, <2>3 DEF Fails, rest
  <2> QED
    BY <1>4, <1>6, <1>10, <2>2, <2>3 DEF Write, TooLarge, Stale, Sent, NothingWritten, PartWritten, rest
<1>11. CASE Step
  <2>1. CASE Open \/ TakeBuffer
    <3>1. u.do # "none"
      BY <1>2, <2>1 DEF Open, TakeBuffer, Doing, Leads, IsFile, Starts, t
    <3> QED
      BY <1>4, <1>6, <2>1, <3>1 DEF Open, TakeBuffer, rest
  <2>2. CASE Discard \/ NextRow \/ CloseRows \/ LookAtContext
    BY <1>2, <2>2 DEF Discard, NextRow, CloseRows, LookAtContext, Doing, Leads, IsFile, QueryLike, t
  <2>3. CASE NextResult \/ More
    <3>1. held.of = call.n
      BY <1>2, <2>3 DEF NextResult, More, Doing, Ready, Sends, t
    <3>2. held'.of = held.of
      <4>1. held \in HeldType
        BY DEF TypeOK
      <4> QED
        BY <2>3, <4>1 DEF NextResult, More, HeldType
    <3> QED
      BY <1>2, <3>1, <3>2
  <2> QED
    BY <1>11, <2>1, <2>2, <2>3 DEF Step
<1>12. CASE ReadPacket
  <2>1. PICK p : held' = RowsAfter(p) /\ CallReads(p)
    BY <1>12 DEF ReadPacket
  <2>2. CASE t.do = "header"
    <3>1. Header(p)
      BY <1>1, <2>1, <2>2 DEF CallReads, Doing, t
    <3>2. SendFile(<<Task("nextResult")>>) => FALSE
      <4>1. /\ Task("nextResult") \in TaskType /\ Task("ok") \in TaskType /\ Task("any") \in TaskType
            /\ Writing("content", "none") \in TaskType /\ Writing("empty", "none") \in TaskType
        BY TaskTyped, WritingTyped DEF Tasks, Reading, Commands, Forms
      <4> DEFINE a == Small("content") \o Small("empty") \o <<Task("ok")>> \o <<Task("nextResult")>>
                 b == Small("empty") \o <<Task("ok")>> \o <<Task("nextResult")>>
                 d == Small("empty") \o <<Task("any")>>
      <4>2. a # <<>> /\ b # <<>> /\ d # <<>>
        BY <4>1 DEF Small
      <4>3. SendFile(<<Task("nextResult")>>) => Go(a) \/ Go(b) \/ Go(d)
        BY DEF SendFile
      <4> QED
        BY <1>5, <4>2, <4>3
    <3>3. call.name \in QueryLike
      BY DEF QueryLike
    <3> QED
      BY <1>4, <1>5, <1>7, <3>1, <3>2, <3>3 DEF Header
  <2>3. CASE t.do = "ok"
    <3>1. u.do # "none"
      BY <1>2, <2>3 DEF Leads, IsFile, QueryLike
    <3>2. Go(rest) \/ Return(ErrorOf(p))
      BY <1>1, <2>1, <2>3 DEF CallReads, Doing, t, rest
    <3> QED
      BY <1>4, <1>6, <1>7, <3>1, <3>2
  <2>4. CASE t.do = "any"
    <3>1. Return("file")
      BY <1>1, <2>1, <2>4 DEF CallReads, Doing, t
    <3> QED
      BY <1>4, <3>1
  <2>5. CASE t.do = "eof"
    <3>1. u.do # "none" /\ call.todo # <<>>
      BY <1>1, <1>2, <2>5 DEF Leads, IsFile
    <3>2. Go(rest) \/ Go(call.todo) \/ Return(ErrorOf(p))
      BY <1>1, <2>1, <2>5 DEF CallReads, UntilEOF, Doing, t, rest
    <3> QED
      BY <1>4, <1>5, <1>6, <1>7, <3>1, <3>2
  <2>6. CASE t.do \in {"drain", "columns"}
    <3>1. held.of = call.n
      BY <1>2, <2>6 DEF Ready, Sends
    <3>2. held'.of = held.of
      <4>1. held \in HeldType
        BY DEF TypeOK
      <4> QED
        BY <1>1, <2>1, <2>6, <4>1 DEF RowsAfter, Doing, HeldType, t
    <3> QED
      BY <1>2, <3>1, <3>2
  <2> QED
    BY <1>2, <1>12, <2>2, <2>3, <2>4, <2>5, <2>6 DEF Leads, IsFile, ReadPacket, Reading, t
<1> QED
  BY <1>8, <1>9, <1>10, <1>11, <1>12 DEF Moves

HasFinish(todo) == \E i \in 1..Len(todo) : todo[i].do = "finish"

(* Nothing is followed by a finish.                                        *)
LEMMA FinishIsFirst ==
    ASSUME NEW c, NEW h, NEW todo \in Seq(TaskType), Sound(c, h, todo), HasFinish(todo)
    PROVE  todo # <<>> /\ Head(todo).do = "finish"
<1>1. PICK i \in 1..Len(todo) : todo[i].do = "finish"
  BY DEF HasFinish
<1>2. CASE i = 1
  BY <1>1, <1>2
<1>3. CASE i # 1
  <2>1. i - 1 \in 1..Len(todo) /\ (i - 1) + 1 = i
    BY <1>3
  <2> DEFINE j == i - 1
  <2>2. Leads(c.name, todo[j], At(todo, j + 1), At(todo, j + 2)) /\ At(todo, j + 1) = todo[i]
    BY <2>1 DEF Sound, Shape, At
  <2> HIDE DEF j
  <2>3. \A t, u, v : u.do = "finish" => ~Leads(c.name, t, u, v)
    BY DEF Leads, IsFile, WriteLeads, Starts
  <2> QED
    BY <1>1, <2>2, <2>3
<1> QED
  BY <1>2, <1>3

(* What Leads says of the task that is taken when rows are there.          *)
LEMMA HeldMoves ==
    ASSUME TypeOK, Pooled, TasksInv, Moves, TasksInv', Stays, held.of # 0
    PROVE  held'.of # 0
<1>1. held \in HeldType
  BY DEF TypeOK
<1>2. call.n # 0
  BY MovesCalm DEF TasksInv, Pooled
<1>3. CASE Step
  BY <1>1, <1>3 DEF Step, Open, TakeBuffer, Discard, NextRow, NextResult, More, CloseRows, LookAtContext,
     HeldType
<1>4. CASE ReadPacket
  <2>1. PICK p : held' = RowsAfter(p)
    BY <1>4 DEF ReadPacket
  <2>2. RowsAfter(p).of \in {held.of, call.n}
    BY <1>1 DEF RowsAfter, HeldType
  <2> QED
    BY <1>2, <2>1, <2>2
<1>5. CASE ~(Step \/ ReadPacket)
  BY <1>5 DEF Moves, OutOfSync, ReadFails, ReadTimeout, BusyBuffer, Write, Cleanup, TLSHandshake,
     TooLarge, Stale, Sent, NothingWritten, PartWritten
<1> QED
  BY <1>3, <1>4, <1>5

(* How the result of a call comes about.                                   *)
Returns ==
    \/ call'.err = call.err /\ call'.todo # <<>>
    \/ call.err = "running" /\ call'.err # "running" /\ call'.todo = AtReturn(call.name, call'.err)
    \/ call.err # "running" /\ call'.err # "running"

LEMMA GoReturns ==
    ASSUME TypeOK,
           \/ \E todo : Go(todo)
           \/ \E err : err # "running" /\ Return(err)
    PROVE  Returns
<1>1. ASSUME NEW err, err # "running", Return(err)
      PROVE  Returns
  BY <1>1, ReturnIs DEF Returns, MarkBadConn
<1>2. ASSUME NEW todo, Go(todo)
      PROVE  Returns
  BY <1>1, <1>2, GoIs DEF Returns
<1> QED
  BY <1>1, <1>2

LEMMA MovesReturn ==
    ASSUME TypeOK, Pooled, TasksInv, Moves
    PROVE  Returns
<1> DEFINE t == Head(call.todo)
           u == At(call.todo, 2)
           v == At(call.todo, 3)
<1>1. call.todo # <<>>
  BY MovesCalm
<1>2. Leads(call.name, t, u, v) /\ Ready(call, held, t) /\ t = At(call.todo, 1)
  BY <1>1, RestSound
<1> HIDE DEF u, v, t
<1>3. ReadError # "running" /\ ConnError # "running" /\ \A p : ErrorOf(p) # "running"
  BY DEF ReadError, ConnError, ErrorOf
<1>4. ASSUME NEW err, err # "running", Return(err)
      PROVE  Returns
  BY <1>4, GoReturns
<1>5. ASSUME NEW x, Go(x)
      PROVE  Returns
  BY <1>5, GoReturns
<1>6. CASE OutOfSync \/ ReadFails \/ ReadTimeout \/ BusyBuffer
  BY <1>3, <1>4, <1>6 DEF OutOfSync, ReadFails, ReadTimeout, BusyBuffer
<1>7. CASE Cleanup \/ TLSHandshake
  BY <1>2, <1>7 DEF Leads, IsFile, Cleanup, TLSHandshake, Doing, t
<1>8. CASE Write
  <2>1. ASSUME NEW err \in {"ctx", "nowrite", "invalid"}, Fails(err)
        PROVE  Returns
    BY <1>4, <1>5, <2>1 DEF Fails
  <2> QED
    BY <1>4, <1>5, <1>8, <2>1 DEF Write, TooLarge, Stale, Sent, NothingWritten, PartWritten
<1>9. CASE Step
  <2>1. CASE Open \/ TakeBuffer \/ Discard \/ NextRow \/ NextResult \/ More \/ CloseRows
    BY <1>3, <1>4, <1>5, <2>1 DEF Open, TakeBuffer, Discard, NextRow, NextResult, More, CloseRows, ReturnEnd
  <2>2. CASE LookAtContext
    <3>1. call \in CallType /\ call.err = "nil"
      BY <1>2, <2>2 DEF LookAtContext, Doing, Ready, Sends, TypeOK, t
    <3> QED
      BY <2>2, <3>1 DEF LookAtContext, CallType, Returns
  <2> QED
    BY <1>9, <2>1, <2>2 DEF Step
<1>10. CASE ReadPacket
  <2>1. PICK p : CallReads(p)
    BY <1>10 DEF ReadPacket
  <2>2. t.do \in {"ok", "any", "header", "eof", "drain", "columns", "row", "prepared"}
    BY <1>2, <1>10 DEF Leads, IsFile, ReadPacket, Reading, t
  <2>3. \/ t.do = "ok" /\ (Go(Tail(call.todo)) \/ Return(ErrorOf(p)))
        \/ Return("file")
        \/ Header(p) \/ UntilEOF(p) \/ Row(p) \/ Prepared(p)
    BY <1>1, <2>1, <2>2 DEF CallReads, Doing, t
  <2>4. ASSUME NEW rest, SendFile(rest)
        PROVE  Returns
    BY <1>5, <2>4 DEF SendFile
  <2>5. Header(p) => Returns
    BY <1>3, <1>4, <1>5, <2>4 DEF Header
  <2>6. UntilEOF(p) \/ Row(p) \/ Prepared(p) => Returns
    BY <1>3, <1>4, <1>5 DEF UntilEOF, Row, Prepared
  <2> QED
    BY <1>3, <1>4, <1>5, <2>3, <2>5, <2>6
<1> QED
  BY <1>6, <1>7, <1>8, <1>9, <1>10 DEF Moves

LEMMA ReturnFinishes ==
    ASSUME NEW name \in Watched \ {"Connect"}, NEW err,
           ~(name \in {"Query", "StmtQuery"} /\ err = "nil")
    PROVE  HasFinish(AtReturn(name, err))
<1> DEFINE f == Task("finish")
           x == Task("ctx")
<1>1. f.do = "finish"
  BY TaskIs
<1> HIDE DEF f, x
<1>2. AtReturn(name, err) \in {<<f>>, <<f, x>>}
  BY DEF AtReturn, Watched, f, x
<1>3. Len(<<f>>) = 1 /\ <<f>>[1] = f /\ Len(<<f, x>>) = 2 /\ <<f, x>>[1] = f
  OBVIOUS
<1> DEFINE l == AtReturn(name, err)
<1>4. Len(l) >= 1 /\ l[1] = f /\ Len(l) \in Nat
  BY <1>2, <1>3
<1> HIDE DEF l
<1>5. HasFinish(l)
  BY <1>1, <1>4 DEF HasFinish
<1> QED
  BY <1>5 DEF l

LEMMA MovesKeepWatch ==
    ASSUME TypeOK, Pooled, TasksInv, WatchInv, Moves, TasksInv'
    PROVE  WatchInv'
<1>1. Calm /\ call.todo # <<>>
  BY MovesCalm
<1>2. Stays /\ Returns
  <2>1. Stays
    BY ClientStays
  <2> QED
    BY <2>1, MovesReturn
<1>3. call'.name = call.name /\ call'.n = call.n /\ call.name \notin {"Connect", "new", "pooled"}
  BY <1>1, <1>2 DEF Stays, TasksInv, Pooled
<1>4. /\ (watcher'.at = "armed" \/ watcher'.handed) /\ ~mc'.closed => mc'.watching
      /\ watcher'.at = "armed" /\ ~mc'.closed => ~watcher'.handed
      /\ mc'.canceled /\ ~mc'.closed => mc'.watching /\ watcher'.at = "cancel"
  BY <1>1 DEF Calm, WatchInv
<1>5. ASSUME mc'.watching, ~mc'.closed
      PROVE  \/ HasFinish(call'.todo)
             \/ call'.todo # <<>> /\ call'.err = "running" /\ call'.name \in Watched
             \/ /\ held'.of # 0 /\ call'.name # "RowsClose"
                /\ call'.name \in {"Query", "StmtQuery"} /\ held'.of = call'.n => call'.err = "nil"
  <2>1. mc.watching /\ ~mc.closed
    BY <1>1, <1>5 DEF Calm
  <2>2. HasFinish(call.todo) \/ (Running /\ call.name \in Watched) \/ HasRows
    BY <2>1 DEF WatchInv, HasFinish
  <2>3. ~HasFinish(call.todo)
    <3>1. SUFFICES ASSUME HasFinish(call.todo)
                   PROVE  FALSE
      OBVIOUS
    <3>2. Sound(call, held, call.todo) /\ call.todo \in Seq(TaskType)
      BY <1>1, RestTyped DEF TasksInv
    <3>3. Head(call.todo).do = "finish"
      BY <3>1, <3>2, FinishIsFirst
    <3> QED
      BY <3>3 DEF Moves, Step, Open, TakeBuffer, Discard, NextRow, NextResult, More, CloseRows, LookAtContext,
         ReadPacket, OutOfSync, ReadFails, ReadTimeout, BusyBuffer, Write, Cleanup, TLSHandshake, Doing, Reading
  <2>4. ASSUME call.err = "running", call'.err # "running", call.name \in Watched
        PROVE  \/ HasFinish(call'.todo)
               \/ held'.of # 0 /\ call'.err = "nil"
    <3>1. call'.todo = AtReturn(call.name, call'.err)
      BY <1>2, <2>4 DEF Returns
    <3> QED
      BY <1>3, <2>4, <3>1, ReturnFinishes, QueryHasRows
  <2>5. CASE Running /\ call.name \in Watched
    <3>1. call.err = "running"
      BY <2>5 DEF Running, Runs
    <3>2. CASE call'.err = "running"
      BY <1>2, <1>3, <2>5, <3>1, <3>2 DEF Returns
    <3> QED
      BY <1>3, <2>4, <2>5, <3>1, <3>2 DEF Watched
  <2>6. CASE HasRows
    <3>1. held.of # 0 /\ call.name # "RowsClose"
      BY <2>6 DEF HasRows
    <3>2. held'.of # 0
      BY <1>2, <3>1, HeldMoves
    <3>3. CASE call.name \notin {"Query", "StmtQuery"}
      BY <1>3, <3>1, <3>2, <3>3
    <3>4. CASE call.name \in {"Query", "StmtQuery"} /\ call.err = "running"
      <4>1. Running /\ call.name \in Watched
        BY <1>1, <3>4 DEF Running, Runs, Watched
      <4> QED
        BY <2>5, <4>1
    <3>5. CASE call.name \in {"Query", "StmtQuery"} /\ call.err # "running"
      (* Nothing but finish is left to do. *)
      <4>1. Head(call.todo).do = "finish"
        <5>1. /\ Leads(call.name, Head(call.todo), At(call.todo, 2), At(call.todo, 3))
              /\ Ready(call, held, Head(call.todo))
          BY <1>1, RestSound
        <5> QED
          BY <3>5, <5>1 DEF Ready, Leads, IsFile, WriteLeads
      <4>2. HasFinish(call.todo)
        <5>1. Head(call.todo) = call.todo[1] /\ 1 \in 1..Len(call.todo)
          BY <1>1, RestTyped, AtFirst
        <5> QED
          BY <4>1, <5>1 DEF HasFinish
      <4> QED
        BY <2>3, <4>2
    <3> QED
      BY <3>3, <3>4, <3>5
  <2> QED
    BY <2>2, <2>3, <2>5, <2>6
<1> QED
  BY <1>4, <1>5 DEF WatchInv, HasFinish, Running, Runs, HasRows

LEMMA FinishKeepsWatch ==
    ASSUME TypeOK, Pooled, TasksInv, WatchInv, Finish
    PROVE  WatchInv'
<1>1. mc \in ConnType /\ watcher \in WatcherType
  BY DEF TypeOK
<1>2. CASE ~mc.watching /\ UNCHANGED <<mc, watcher>>
  BY <1>2 DEF WatchInv
<1>3. CASE mc.watching /\ mc.closed /\ UNCHANGED <<mc, watcher>>
  BY <1>3 DEF WatchInv
<1>4. CASE /\ mc.watching /\ watcher.at = "armed"
           /\ watcher' = [watcher EXCEPT !.at = "select"]
           /\ mc' = [mc EXCEPT !.watching = FALSE]
  <2>1. /\ watcher'.at = "select" /\ watcher'.handed = watcher.handed
        /\ ~mc'.watching /\ mc'.closed = mc.closed /\ mc'.canceled = mc.canceled
    BY <1>1, <1>4 DEF ConnType, WatcherType
  <2> QED
    BY <1>4, <2>1 DEF WatchInv
<1> QED
  BY <1>2, <1>3, <1>4 DEF Finish

LEMMA OtherKeepWatch ==
    ASSUME TypeOK, Pooled, WatchInv, OtherSteps
    PROVE  WatchInv'
<1>1. /\ mc \in ConnType /\ Closed(mc) \in ConnType /\ Closed(mc).closed
      /\ watcher \in WatcherType
  BY ClosedTyped DEF TypeOK
<1>2. UNCHANGED <<call, held>>
  BY OtherStepsKeep
<1>3. ASSUME mc'.closed
      PROVE  WatchInv'
  BY <1>3 DEF WatchInv
<1>4. ASSUME watcher'.at = watcher.at, watcher'.handed = watcher.handed, mc'.watching = mc.watching,
             mc'.closed = mc.closed, mc'.canceled = mc.canceled
      PROVE  WatchInv'
  BY <1>2, <1>4 DEF WatchInv, HasRows, Running, Runs
<1>5. CASE Server \/ ServerCloses \/ Break
  BY <1>4, <1>5 DEF Server, ServerCloses, Break
<1>6. CASE ResetSession
  BY <1>1, <1>4, <1>6 DEF ResetSession, ConnType
<1>7. CASE CancelContext
  BY <1>1, <1>4, <1>7 DEF CancelContext, WatcherType
<1>8. CASE WatcherEnds \/ WatcherCloses
  BY <1>1, <1>3, <1>8 DEF WatcherEnds, WatcherCloses, HearsClose
<1>9. CASE WatcherTakes
  <2>1. watcher'.at = "armed" /\ ~watcher'.handed /\ mc' = mc /\ watcher.at = "select" /\ watcher.handed
    BY <1>1, <1>9 DEF WatcherTakes, WatcherType
  <2> QED
    BY <1>2, <2>1 DEF WatchInv, HasRows, Running, Runs
<1>10. CASE WatcherSees
  <2>1. /\ watcher'.at = "cancel" /\ watcher'.handed = watcher.handed /\ watcher.at = "armed"
        /\ mc'.watching = mc.watching /\ mc'.closed = mc.closed
    BY <1>1, <1>10 DEF WatcherSees, WatcherType, ConnType
  <2> QED
    BY <1>2, <2>1 DEF WatchInv, HasRows, Running, Runs
<1> QED
  BY <1>5, <1>6, <1>7, <1>8, <1>9, <1>10 DEF OtherSteps, Watcher

LEMMA StartKeepsWatch ==
    ASSUME TypeOK, Pooled, TasksInv, WatchInv, NEW name \in Names, NEW c \in {"none", "live", "done"},
           Start(name, c)
    PROVE  WatchInv'
<1>1. /\ mc \in ConnType /\ held \in HeldType /\ call \in CallType /\ watcher \in WatcherType
      /\ Closed(mc) \in ConnType /\ Closed(mc).closed /\ Legal(name)
  BY ClosedTyped DEF TypeOK, Start
<1>2. Over
  BY <1>1 DEF Legal
<1>3. mc.watching /\ ~mc.closed => HasRows
  BY <1>2 DEF WatchInv, Over, Running, Runs
<1>4. held'.of = (IF HasRows THEN held.of ELSE 0)
  <2> DEFINE b == HasRows
             s == HasStmt
             x == InTx
             n == IF b THEN held.of ELSE 0
             d == held.done /\ b
             o == held.open /\ b
  <2>2. held' = [held EXCEPT !.open = o, !.of = n, !.done = d, !.stmt = s, !.tx = x]
    BY DEF Start
  <2> HIDE DEF n, d, o, s, x
  <2>3. held'.of = n
    BY <1>1, <2>2 DEF HeldType
  <2> QED
    BY <2>3 DEF n
<1>5. ASSUME mc'.closed
      PROVE  WatchInv'
  BY <1>5 DEF WatchInv
(* The connection is watched only for rows, or not at all.                 *)
<1>6. ASSUME mc'.watching = mc.watching, mc'.canceled = mc.canceled, mc'.closed = mc.closed,
             watcher'.at = watcher.at, watcher'.handed = watcher.handed,
             mc.watching => /\ call'.name = name
                            /\ name = "RowsClose" => \E i \in 1..Len(call'.todo) : call'.todo[i].do = "finish"
                            /\ name \notin {"Query", "StmtQuery"} \/ held.of # call'.n
      PROVE  WatchInv'
  <2>1. CASE mc.watching /\ ~mc.closed
    <3>1. HasRows /\ held'.of = held.of /\ held.of # 0
      BY <1>3, <1>4, <2>1 DEF HasRows
    <3>2. \/ \E i \in 1..Len(call'.todo) : call'.todo[i].do = "finish"
          \/ /\ held'.of # 0 /\ call'.name # "RowsClose"
             /\ call'.name \in {"Query", "StmtQuery"} /\ held'.of = call'.n => call'.err = "nil"
      BY <1>6, <2>1, <3>1
    <3> QED
      BY <1>6, <3>2 DEF WatchInv, HasRows
  <2>2. CASE ~(mc.watching /\ ~mc.closed)
    BY <1>6, <2>2 DEF WatchInv
  <2> QED
    BY <2>1, <2>2
<1>7. /\ call.n \in Nat /\ held.of \in Nat /\ held.of <= call.n
  BY <1>1 DEF CallType, HeldType, TasksInv
<1>8. CASE name = "Ping" /\ mc.closed
  BY <1>5, <1>8 DEF Start
<1>9. CASE ~(name = "Ping" /\ mc.closed) /\ c = "done" /\ ~mc.watching
  <2>1. UNCHANGED <<mc, watcher>>
    BY <1>9 DEF Start
  <2> QED
    BY <1>6, <1>9, <2>1
<1>10. CASE ~(name = "Ping" /\ mc.closed) /\ ~(c = "done" /\ ~mc.watching)
  <2> DEFINE w == IF name \in Watched THEN WatchCancel(c)
                  ELSE [mc |-> mc, net |-> net, watcher |-> watcher]
             q == IF HasRows THEN w.mc.sequence ELSE 0
  <2>1. PICK todo \in Program(name) :
            /\ call' = [name |-> name, n |-> call.n + 1, todo |-> todo, err |-> "running", plugin |-> "none"]
            /\ mc' = [w.mc EXCEPT !.sequence = q]
            /\ watcher' = w.watcher
    BY <1>10 DEF Start
  <2>2. call'.name = name /\ call'.n = call.n + 1 /\ call'.todo = todo /\ call'.err = "running"
    BY <2>1
  <2> HIDE DEF q
  <2>3. CASE name \notin Watched
    <3>1. w.mc = mc /\ w.watcher = watcher
      BY <2>3
    <3>2. /\ mc'.watching = mc.watching /\ mc'.canceled = mc.canceled /\ mc'.closed = mc.closed
          /\ watcher' = watcher
      BY <1>1, <2>1, <3>1 DEF ConnType
    <3>3. name = "RowsClose" => \E i \in 1..Len(todo) : todo[i].do = "finish"
      <4>1. SUFFICES ASSUME name = "RowsClose"
                     PROVE  \E i \in 1..Len(todo) : todo[i].do = "finish"
        OBVIOUS
      <4> DEFINE f == Task("finish")
                 r == Task("closeRows")
      <4>2. todo = <<f, r>> /\ f.do = "finish"
        BY <2>1, <4>1, TaskIs DEF Program
      <4> HIDE DEF f, r
      <4> QED
        BY <4>2
    <3> QED
      BY <1>6, <2>2, <2>3, <3>2, <3>3 DEF Watched
  <2>4. CASE name \in Watched
    <3>1. w = WatchCancel(c)
      BY <2>4
    <3>2. CASE mc.watching
      <4>1. w.mc = Closed(mc)
        BY <3>1, <3>2 DEF WatchCancel
      <4>2. mc'.closed
        BY <1>1, <2>1, <4>1 DEF ConnType
      <4> QED
        BY <1>5, <4>2
    <3>3. CASE ~mc.watching /\ c = "live"
      <4>1. w.mc = [mc EXCEPT !.watching = TRUE] /\ w.watcher = [watcher EXCEPT !.handed = TRUE, !.ctx = "live"]
        BY <3>1, <3>3 DEF WatchCancel
      <4>2. /\ mc'.watching /\ mc'.canceled = mc.canceled /\ mc'.closed = mc.closed
            /\ watcher'.at = watcher.at /\ watcher'.handed
        BY <1>1, <2>1, <4>1 DEF ConnType, WatcherType
      <4>3. call'.todo # <<>>
        BY <2>2, StartKeepsTasks
      <4> QED
        BY <2>2, <2>4, <3>3, <4>2, <4>3 DEF WatchInv, Running, Runs
    <3>4. CASE ~mc.watching /\ c # "live"
      <4>1. w.mc = mc /\ w.watcher = [watcher EXCEPT !.ctx = c]
        BY <3>1, <3>4 DEF WatchCancel
      <4>2. /\ mc'.watching = mc.watching /\ mc'.canceled = mc.canceled /\ mc'.closed = mc.closed
            /\ watcher'.at = watcher.at /\ watcher'.handed = watcher.handed
        BY <1>1, <2>1, <4>1 DEF ConnType, WatcherType
      <4> QED
        BY <1>6, <3>4, <4>2
    <3> QED
      BY <3>2, <3>3, <3>4
  <2> QED
    BY <2>3, <2>4
<1> QED
  BY <1>8, <1>9, <1>10

LEMMA InitWatch ==
    ASSUME Init
    PROVE  WatchInv
BY DEF Init, WatchInv

LEMMA NextWatch ==
    ASSUME TypeOK, Pooled => TasksInv /\ WatchInv, [Next]_connVars, (Pooled => TasksInv)'
    PROVE  (Pooled => WatchInv)'
<1> SUFFICES ASSUME Pooled'
             PROVE  WatchInv'
  OBVIOUS
<1>1. CASE UNCHANGED connVars
  BY <1>1 DEF connVars, connectVars, vars, WatchInv, Pooled, HasRows, Running, Runs
<1>2. CASE Next
  <2>1. Pooled /\ TasksInv /\ WatchInv
    BY <1>2, PooledStays
  <2>2. TasksInv'
    BY DEF Pooled
  <2> QED
    BY <1>2, <2>1, <2>2, NextCases, StartKeepsWatch, MovesKeepWatch, FinishKeepsWatch, OtherKeepWatch DEF Moves
<1> QED
  BY <1>1, <1>2

-----------------------------------------------------------------------------
(* Sequences of packets: their ends, and what is kept when they shrink.    *)

LEMMA SeqBasics ==
    ASSUME NEW S, NEW s \in Seq(S)
    PROVE  /\ Len(s) \in Nat /\ (s = <<>> <=> Len(s) = 0)
           /\ \A i \in 1..Len(s) : s[i] \in S
           /\ s # <<>> => /\ 1 \in 1..Len(s) /\ Head(s) = s[1] /\ Tail(s) \in Seq(S)
                          /\ Len(Tail(s)) = Len(s) - 1
                          /\ \A i \in 1..Len(Tail(s)) : Tail(s)[i] = s[i + 1] /\ i + 1 \in 1..Len(s)
<1>1. Len(s) \in Nat /\ (s = <<>> <=> Len(s) = 0) /\ \A i \in 1..Len(s) : s[i] \in S
  OBVIOUS
<1>2. ASSUME s # <<>>
      PROVE  /\ 1 \in 1..Len(s) /\ Head(s) = s[1] /\ Tail(s) \in Seq(S)
             /\ Len(Tail(s)) = Len(s) - 1
             /\ \A i \in 1..Len(Tail(s)) : Tail(s)[i] = s[i + 1] /\ i + 1 \in 1..Len(s)
  BY <1>1, <1>2, HeadTailProperties
<1> QED
  BY <1>1, <1>2

Part(t, s) == Len(t) <= Len(s) /\ \A i \in 1..Len(t) : t[i] = s[i]

(* Nothing is left, or the error of a server that has closed.              *)
LEMMA IdleIsShort ==
    ASSUME NEW s \in Seq(PacketType), NEW up, Idle(s), Marked(s, up)
    PROVE  Len(s) \in {0, 1} /\ \A i \in 1..Len(s) : s[i].of = 0 /\ s[i].seq = 0 /\ ~up
<1>1. Len(s) \in Nat /\ (s # <<>> => 1 \in 1..Len(s)) /\ (s = <<>> => Len(s) = 0)
  BY SeqBasics
<1>2. CASE s = <<>>
  BY <1>1, <1>2
<1>3. CASE s # <<>>
  <2>1. Len(s) = 1 /\ s[1].seq = 0 /\ ~up /\ s[1].of = 0
    BY <1>1, <1>3 DEF Idle, Marked
  <2> QED
    BY <2>1
<1> QED
  BY <1>2, <1>3

LEMMA IdleRests ==
    ASSUME NEW s \in Seq(PacketType), NEW up, Idle(s), Marked(s, up), NEW c, NEW h, NEW m
    PROVE  /\ \A n : Of(s, n)
           /\ Orderly(s) /\ RowsLeft(h, m, s) /\ Rest(c, h, m, s) /\ MoreAt(m, s)
           /\ Expected(c, s)
<1>1. Len(s) \in {0, 1} /\ \A i \in 1..Len(s) : s[i].of = 0
  BY IdleIsShort
<1>2. \A n : Of(s, n)
  BY <1>1 DEF Of
<1>3. Orderly(s)
  BY <1>1 DEF Orderly
<1>4. RowsLeft(h, m, s) /\ MoreAt(m, s)
  BY DEF RowsLeft, MoreAt, AtRows
<1>5. Rest(c, h, m, s)
  BY <1>2, <1>3, <1>4 DEF Rest
<1>6. AtPrepared(s) /\ \A k : Listing(s, k)
  BY <1>1 DEF AtPrepared, Listing
<1>7. Phase(c, s)
  BY DEF Phase, AtHeader, AtColumns, AtRows, AtOk
<1> QED
  BY <1>2, <1>3, <1>4, <1>5, <1>6, <1>7 DEF Expected

LEMMA SilentIsAlone ==
    ASSUME NEW o, Silent(o), NEW c, NEW h
    PROVE  Alone(c, h, o)
BY DEF Silent, Alone

(* When nothing is under way, every task has what it expects.              *)
LEMMA IdleFits ==
    ASSUME NEW s \in Seq(PacketType), NEW up, Idle(s), Marked(s, up), NEW o, Silent(o),
           NEW c, NEW h, NEW m,
           At(c.todo, 1).do = "write" /\ ~At(c.todo, 1).first => m.sequence = 1
    PROVE  Fits(c, h, m, o, s)
<1>1. /\ Of(s, OwnerOf(c, h))
      /\ Orderly(s) /\ RowsLeft(h, m, s) /\ Rest(c, h, m, s) /\ MoreAt(m, s)
      /\ Expected(c, s)
  BY IdleRests
<1>2. Reads(c, h, m, o, s) /\ Looks(c, h, m, o, s)
  BY <1>1, SilentIsAlone DEF Reads, Looks
<1> QED
  BY <1>1, <1>2 DEF Fits

LEMMA OfMore ==
    ASSUME NEW s \in Seq(PacketType), NEW t \in Seq(PacketType), Part(t, s)
    PROVE  /\ Idle(s) => Idle(t)
           /\ \A n : Of(s, n) => Of(t, n)
           /\ Orderly(s) => Orderly(t)
           /\ \A up, v : (v => up) /\ Marked(s, up) => Marked(t, v)
           /\ t # <<>> => s # <<>> /\ t[1] = s[1] /\ Part(Tail(t), Tail(s))
           /\ Len(t) \in Nat /\ Len(s) \in Nat
<1>1. /\ Len(t) \in Nat /\ Len(s) \in Nat /\ Len(t) <= Len(s)
      /\ \A i \in 1..Len(t) : t[i] = s[i] /\ i \in 1..Len(s)
      /\ t # <<>> => s # <<>> /\ 1 \in 1..Len(t)
  BY SeqBasics DEF Part
<1>2. Idle(s) => Idle(t)
  BY <1>1 DEF Idle
<1>3. \A n : Of(s, n) => Of(t, n)
  BY <1>1 DEF Of
<1>4. ASSUME Orderly(s)
      PROVE  Orderly(t)
  <2>1. ASSUME NEW i \in 1..(Len(t) - 1)
        PROVE  Follows(t[i], t[i + 1])
    <3>1. i \in 1..Len(t) /\ i + 1 \in 1..Len(t) /\ i \in 1..(Len(s) - 1)
      BY <1>1, <2>1
    <3>2. t[i] = s[i] /\ t[i + 1] = s[i + 1]
      BY <1>1, <3>1
    <3> QED
      BY <1>4, <3>1, <3>2 DEF Orderly
  <2>2. ASSUME NEW i \in 1..(Len(t) - 2), t[i].kind \in {"row", "eof"}, t[i + 1].kind = "eof", ~t[i + 1].flag
        PROVE  t[i + 2].of = 0
    <3>1. /\ i \in 1..Len(t) /\ i + 1 \in 1..Len(t) /\ i + 2 \in 1..Len(t)
          /\ i \in 1..(Len(s) - 2)
      BY <1>1, <2>2
    <3>2. t[i] = s[i] /\ t[i + 1] = s[i + 1] /\ t[i + 2] = s[i + 2]
      BY <1>1, <3>1
    <3> QED
      BY <1>4, <2>2, <3>1, <3>2 DEF Orderly
  <2> QED
    BY <2>1, <2>2 DEF Orderly
<1>5. ASSUME NEW up, NEW v, v => up, Marked(s, up)
      PROVE  Marked(t, v)
  BY <1>1, <1>5 DEF Marked
<1>6. ASSUME t # <<>>
      PROVE  s # <<>> /\ t[1] = s[1] /\ Part(Tail(t), Tail(s))
  <2>1. s # <<>> /\ 1 \in 1..Len(t) /\ t[1] = s[1]
    BY <1>1, <1>6
  <2>2. /\ Len(Tail(t)) = Len(t) - 1 /\ Len(Tail(s)) = Len(s) - 1
        /\ \A i \in 1..Len(Tail(t)) : Tail(t)[i] = t[i + 1] /\ i + 1 \in 1..Len(t)
        /\ \A i \in 1..Len(Tail(s)) : Tail(s)[i] = s[i + 1] /\ i + 1 \in 1..Len(s)
    BY <1>6, <2>1, SeqBasics
  <2>3. ASSUME NEW i \in 1..Len(Tail(t))
        PROVE  Tail(t)[i] = Tail(s)[i]
    <3>1. i \in 1..Len(Tail(s))
      BY <1>1, <2>2
    <3>2. Tail(t)[i] = t[i + 1] /\ i + 1 \in 1..Len(t) /\ Tail(s)[i] = s[i + 1]
      BY <2>2, <3>1
    <3> QED
      BY <1>1, <3>2
  <2> QED
    BY <1>1, <2>1, <2>2, <2>3 DEF Part
<1> QED
  BY <1>1, <1>2, <1>3, <1>4, <1>5, <1>6

LEMMA PartExpected ==
    ASSUME NEW s \in Seq(PacketType), NEW t \in Seq(PacketType), Part(t, s), NEW c, NEW h, NEW m
    PROVE  /\ MoreAt(m, s) => MoreAt(m, t)
           /\ RowsLeft(h, m, s) => RowsLeft(h, m, t)
           /\ Rest(c, h, m, s) => Rest(c, h, m, t)
           /\ Expected(c, s) => Expected(c, t)
<1>1. /\ Idle(s) => Idle(t)
      /\ \A n : Of(s, n) => Of(t, n)
      /\ Orderly(s) => Orderly(t)
      /\ t # <<>> => s # <<>> /\ t[1] = s[1] /\ Part(Tail(t), Tail(s))
      /\ Len(t) \in Nat /\ Len(s) \in Nat
  BY OfMore
<1>2. ASSUME t # <<>>
      PROVE  /\ Tail(s) \in Seq(PacketType) /\ Tail(t) \in Seq(PacketType) /\ t[1] = s[1]
             /\ Idle(Tail(s)) => Idle(Tail(t))
  <2>1. Tail(s) \in Seq(PacketType) /\ Tail(t) \in Seq(PacketType) /\ Part(Tail(t), Tail(s))
    BY <1>1, <1>2, SeqBasics
  <2> QED
    BY <1>1, <1>2, <2>1, OfMore
<1>3. t = <<>> => Idle(t)
  BY DEF Idle
<1>4. MoreAt(m, s) => MoreAt(m, t)
  BY <1>1, <1>2, <1>3 DEF MoreAt
<1>5. AtRows(s) => AtRows(t)
  BY <1>1, <1>2, <1>3 DEF AtRows
<1>6. RowsLeft(h, m, s) => RowsLeft(h, m, t)
  BY <1>1, <1>4, <1>5 DEF RowsLeft
<1>7. Rest(c, h, m, s) => Rest(c, h, m, t)
  BY <1>1, <1>2, <1>3, <1>6 DEF Rest
<1>8. /\ AtHeader(c, s) => AtHeader(c, t)
      /\ AtColumns(s) => AtColumns(t)
      /\ AtOk(c, s) => AtOk(c, t)
  BY <1>1, <1>2, <1>3 DEF AtHeader, AtColumns, AtOk
<1>9. \A a, b \in Seq(PacketType) : \A k : Part(b, a) /\ Listing(a, k) => Listing(b, k)
  <2> SUFFICES ASSUME NEW a \in Seq(PacketType), NEW b \in Seq(PacketType), NEW k, Part(b, a),
                      Listing(a, k), b # <<>>
               PROVE  Listing(b, k)
    BY DEF Listing
  <2>1. /\ a # <<>> /\ b[1] = a[1]
        /\ \A i \in 1..Len(b) : b[i] = a[i] /\ i \in 1..Len(a)
    <3>1. a # <<>> /\ b[1] = a[1] /\ Len(a) \in Nat /\ Len(b) \in Nat
      BY OfMore
    <3> QED
      BY <3>1 DEF Part
  <2> QED
    BY <2>1 DEF Listing
<1>10. AtPrepared(s) => AtPrepared(t)
  <2> SUFFICES ASSUME AtPrepared(s), t # <<>>
               PROVE  AtPrepared(t)
    BY <1>3 DEF AtPrepared
  <2>1. /\ t[1] = s[1] /\ (Idle(Tail(s)) => Idle(Tail(t)))
        /\ \A k : Listing(Tail(s), k) => Listing(Tail(t), k)
    BY <1>1, <1>2, <1>9
  <2> QED
    BY <1>1, <2>1 DEF AtPrepared
<1>11. Phase(c, s) => Phase(c, t)
  BY <1>5, <1>8 DEF Phase
<1> QED
  BY <1>1, <1>4, <1>6, <1>7, <1>9, <1>10, <1>11 DEF Expected

(* Of what is under way, the last part or everything may be lost.          *)
LEMMA FitsShrinks ==
    ASSUME NEW s \in Seq(PacketType), NEW t \in Seq(PacketType), Part(t, s), NEW c, NEW h, NEW m,
           NEW o, NEW o2, Silent(o) => Silent(o2), Alone(c, h, o) => Alone(c, h, o2),
           NEW up, Marked(s, up), Fits(c, h, m, o, s)
    PROVE  Fits(c, h, m, o2, t)
<1>1. /\ Idle(s) => Idle(t)
      /\ \A n : Of(s, n) => Of(t, n)
      /\ Orderly(s) => Orderly(t)
      /\ t # <<>> => s # <<>> /\ t[1] = s[1]
      /\ Marked(t, up)
  BY OfMore
<1>2. /\ MoreAt(m, s) => MoreAt(m, t)
      /\ Rest(c, h, m, s) => Rest(c, h, m, t)
      /\ Expected(c, s) => Expected(c, t)
  BY PartExpected
<1>3. (Silent(o) => Silent(o2)) /\ (Alone(c, h, o) => Alone(c, h, o2))
  OBVIOUS
<1>4. s = <<>> => t = <<>>
  BY <1>1
<1>5. Looks(c, h, m, o, s) => Looks(c, h, m, o2, t)
  BY <1>1, <1>2, <1>3 DEF Looks
<1>6. Reads(c, h, m, o, s) => Reads(c, h, m, o2, t)
  <2>1. CASE t = <<>>
    <3>1. Idle(t)
      BY <2>1 DEF Idle
    <3>2. Of(t, OwnerOf(c, h)) /\ Expected(c, t)
      BY <1>1, <3>1, IdleRests
    <3> QED
      BY <1>3, <2>1, <3>2 DEF Reads
  <2>2. CASE t # <<>>
    BY <1>1, <1>2, <1>3, <1>4, <2>2 DEF Reads, Blocked
  <2> QED
    BY <2>1, <2>2
<1> QED
  BY <1>1, <1>2, <1>3, <1>5, <1>6 DEF Fits

(* A connection that is closed, or whose cancellation begins, asks less.   *)
LEMMA FitsClosed ==
    ASSUME NEW c, NEW h, NEW m, NEW m2, NEW o, NEW s, Fits(c, h, m, o, s),
           m2.more = m.more, m2.sequence = m.sequence, Lost(c, m) => Lost(c, m2)
    PROVE  Fits(c, h, m2, o, s)
<1>1. /\ RowsLeft(h, m, s) => RowsLeft(h, m2, s)
      /\ Looks(c, h, m, o, s) => Looks(c, h, m2, o, s)
      /\ Reads(c, h, m, o, s) => Reads(c, h, m2, o, s)
  BY DEF RowsLeft, MoreAt, Looks, Reads, Blocked
<1>2. Rest(c, h, m, s) => Rest(c, h, m2, s)
  BY <1>1 DEF Rest
<1> QED
  BY <1>1, <1>2 DEF Fits

-----------------------------------------------------------------------------
(* What is enough for a task, or for a call that returns.                  *)

LEMMA EndFits ==
    ASSUME NEW c, NEW h, NEW m, NEW o, NEW s, c.err # "running",
           At(c.todo, 1).do \in {"none", "finish", "ctx"},
           c.name = "Prepare" /\ c.err = "nil" => Silent(o) /\ Idle(s),
           Reports(c) /\ ~Lost(c, m) => Silent(o) /\ IF Rows(c, h) THEN Rest(c, h, m, s) ELSE Idle(s)
    PROVE  Fits(c, h, m, o, s)
<1>1. /\ At(c.todo, 1).do \notin Reading /\ At(c.todo, 1).do \notin {"discard", "more"}
      /\ At(c.todo, 1).do # "write" /\ ~Runs(c)
  BY DEF Reading, Runs
<1> QED
  BY <1>1 DEF Fits, IsFile

LEMMA ReadingFits ==
    ASSUME NEW c, NEW h, NEW m, NEW o, NEW s, c.err = "running",
           At(c.todo, 1).do \in Reading, Reads(c, h, m, o, s)
    PROVE  Fits(c, h, m, o, s)
<1>1. /\ At(c.todo, 1).do \notin {"discard", "more"} /\ At(c.todo, 1).do \notin Starting
      /\ At(c.todo, 1).do # "write" /\ Runs(c)
  BY TaskIs DEF Reading, Starting, Runs, At, None
<1> QED
  BY <1>1 DEF Fits, IsFile

LEMMA LookingFits ==
    ASSUME NEW c, NEW h, NEW m, NEW o, NEW s, c.err = "running",
           At(c.todo, 1).do \in {"discard", "more"}, Looks(c, h, m, o, s)
    PROVE  Fits(c, h, m, o, s)
<1>1. /\ At(c.todo, 1).do \notin Reading /\ At(c.todo, 1).do \notin Starting
      /\ At(c.todo, 1).do # "write" /\ Runs(c)
  BY TaskIs DEF Reading, Starting, Runs, At, None
<1> QED
  BY <1>1 DEF Fits, IsFile

LEMMA StartingFits ==
    ASSUME NEW c, NEW h, NEW m, NEW o, NEW s, c.err = "running",
           \/ At(c.todo, 1).do \in Starting
           \/ At(c.todo, 1).do = "write" /\ ~IsFile(At(c.todo, 1)),
           ~Lost(c, m) => /\ Silent(o) /\ Rest(c, h, m, s)
                          /\ At(c.todo, 1).do = "write" /\ ~At(c.todo, 1).first => m.sequence = 1
    PROVE  Fits(c, h, m, o, s)
<1>1. /\ At(c.todo, 1).do \notin Reading /\ At(c.todo, 1).do \notin {"discard", "more"}
      /\ ~IsFile(At(c.todo, 1)) /\ Runs(c)
  BY TaskIs DEF Reading, Starting, Runs, At, None, IsFile
<1> QED
  BY <1>1 DEF Fits

LEMMA ReturnFirst ==
    ASSUME NEW name, NEW err, name # "Connect"
    PROVE  At(AtReturn(name, err), 1).do \in {"none", "finish"}
<1>1. At(<<>>, 1).do = "none"
  BY TaskIs DEF At, None
<1>2. At(<<Task("finish")>>, 1).do = "finish" /\ At(<<Task("finish"), Task("ctx")>>, 1).do = "finish"
  BY TaskIs DEF At
<1> QED
  BY <1>1, <1>2 DEF AtReturn

(* A call that fails, and one that returns.                                *)
Dead == {"nowrite", "badconn", "invalid", "sync", "file"}

LEMMA DeadFits ==
    ASSUME TypeOK, Pooled, call.err = "running", NEW err, Return(err), NEW h, NEW m, NEW o, NEW s,
           err \in Dead \/ (err = "ctx" /\ Lost(call', m))
    PROVE  Fits(call', h, m, o, s)
<1>1. /\ call'.err = MarkBadConn(call.name, err) /\ call'.todo = AtReturn(call.name, call'.err)
      /\ call.name # "Connect" /\ call'.name = call.name
  BY ReturnIs DEF Pooled
<1>2. At(call'.todo, 1).do \in {"none", "finish"}
  BY <1>1, ReturnFirst
<1>3. CASE err \in Dead
  <2>1. call'.err \in Dead
    BY <1>1, <1>3 DEF MarkBadConn, Dead
  <2>2. call'.err # "running" /\ call'.err # "nil" /\ ~Reports(call')
    BY <2>1 DEF Dead, Reports
  <2> QED
    BY <1>2, <2>2, EndFits
<1>4. CASE err = "ctx" /\ Lost(call', m)
  <2>1. call'.err = "ctx"
    BY <1>1, <1>4 DEF MarkBadConn
  <2> QED
    BY <1>2, <1>4, <2>1, EndFits
<1> QED
  BY <1>3, <1>4

LEMMA ReturnFits ==
    ASSUME TypeOK, Pooled, call.err = "running", NEW err \in {"nil", "end", "toolarge", "mysql"}, Return(err),
           NEW h, NEW m, NEW o, NEW s,
           err = "nil" => call.name # "Prepare",
           ~Lost(call', m) => Silent(o) /\ IF Rows(call', h) THEN Rest(call', h, m, s) ELSE Idle(s)
    PROVE  Fits(call', h, m, o, s)
<1>1. /\ call'.err = err /\ call'.todo = AtReturn(call.name, call'.err)
      /\ call.name # "Connect" /\ call'.name = call.name
  BY ReturnIs DEF Pooled, MarkBadConn
<1>2. At(call'.todo, 1).do \in {"none", "finish"}
  BY <1>1, ReturnFirst
<1>3. call'.err # "running"
  BY <1>1
<1> QED
  BY <1>1, <1>2, <1>3, EndFits

-----------------------------------------------------------------------------
(* A packet that is read.                                                  *)

Front == TypeOK /\ Pooled /\ TasksInv /\ WatchInv /\ StreamInv /\ NumbersInv

Mine(p) ==
    /\ Stream \in Seq(PacketType) /\ Stream # <<>> /\ p = Stream[1] /\ p \in PacketType
    /\ p.of = OwnerOf(call, held) /\ p.of # 0
    /\ p.seq = mc.sequence /\ p.seq \in 1..210 /\ (p.kind = "file" => p.seq <= 110)
    /\ Silent(net.out) /\ Of(Stream, p.of) /\ Expected(call, Stream)
    /\ call.err = "running" /\ call.name # "Connect"

LEMMA ConcatIs ==
    ASSUME NEW S, NEW a \in Seq(S), NEW b \in Seq(S)
    PROVE  /\ a \o b \in Seq(S) /\ Len(a \o b) = Len(a) + Len(b)
           /\ Len(a) \in Nat /\ Len(b) \in Nat /\ Len(a) <= Len(a \o b)
           /\ \A i \in 1..Len(a) : (a \o b)[i] = a[i]
           /\ \A i \in 1..Len(b) : (a \o b)[Len(a) + i] = b[i]
<1>1. a \o b \in Seq(S) /\ Len(a \o b) = Len(a) + Len(b)
  OBVIOUS
<1>2. Len(a) \in Nat /\ Len(b) \in Nat
  OBVIOUS
<1>3. \A i \in 1..Len(a) : (a \o b)[i] = a[i]
  OBVIOUS
<1>4. \A i \in 1..Len(b) : (a \o b)[Len(a) + i] = b[i]
  OBVIOUS
<1> QED
  BY <1>1, <1>2, <1>3, <1>4

LEMMA TailConcat ==
    ASSUME NEW S, NEW a \in Seq(S), NEW b \in Seq(S), a # <<>>
    PROVE  /\ Tail(a) \in Seq(S) /\ Tail(a) \o b = Tail(a \o b)
           /\ a \o b # <<>> /\ (a \o b)[1] = a[1]
<1>1. /\ Tail(a) \in Seq(S) /\ 1 \in 1..Len(a) /\ Len(Tail(a)) = Len(a) - 1
      /\ \A i \in 1..Len(Tail(a)) : Tail(a)[i] = a[i + 1] /\ i + 1 \in 1..Len(a)
  BY SeqBasics
<1> DEFINE x == Tail(a) \o b
           y == a \o b
<1>2. /\ y \in Seq(S) /\ Len(y) = Len(a) + Len(b) /\ Len(a) \in Nat /\ Len(b) \in Nat
      /\ \A i \in 1..Len(a) : y[i] = a[i]
      /\ \A i \in 1..Len(b) : y[Len(a) + i] = b[i]
  BY ConcatIs
<1>3. /\ x \in Seq(S) /\ Len(x) = Len(a) - 1 + Len(b)
      /\ \A i \in 1..Len(Tail(a)) : x[i] = Tail(a)[i]
      /\ \A i \in 1..Len(b) : x[Len(Tail(a)) + i] = b[i]
  BY <1>1, ConcatIs
<1> HIDE DEF x, y
<1>4. y # <<>> /\ y[1] = a[1]
  BY <1>1, <1>2
<1>5. /\ Tail(y) \in Seq(S) /\ Len(Tail(y)) = Len(y) - 1
      /\ \A i \in 1..Len(Tail(y)) : Tail(y)[i] = y[i + 1]
  BY <1>2, <1>4, SeqBasics
<1>6. Len(x) = Len(Tail(y))
  BY <1>2, <1>3, <1>5
<1>7. ASSUME NEW i \in 1..Len(x)
      PROVE  x[i] = Tail(y)[i]
  <2>1. Tail(y)[i] = y[i + 1]
    BY <1>5, <1>6
  <2>2. CASE i <= Len(a) - 1
    <3>1. i \in 1..Len(Tail(a)) /\ i + 1 \in 1..Len(a)
      BY <1>1, <1>2, <1>3, <2>2
    <3> QED
      BY <1>1, <1>2, <1>3, <2>1, <3>1
  <2>3. CASE i > Len(a) - 1
    <3> DEFINE j == i - (Len(a) - 1)
    <3>1. j \in 1..Len(b) /\ Len(Tail(a)) + j = i /\ Len(a) + j = i + 1
      BY <1>1, <1>2, <1>3, <2>3
    <3>2. x[i] = b[j] /\ y[i + 1] = b[j]
      BY <1>2, <1>3, <3>1
    <3> QED
      BY <2>1, <3>2
  <2> QED
    BY <1>2, <1>3, <2>2, <2>3
<1>8. x = Tail(y)
  BY <1>3, <1>5, <1>6, <1>7
<1> QED
  BY <1>1, <1>4, <1>8 DEF x, y

LEMMA StreamTyped ==
    ASSUME TypeOK
    PROVE  /\ net.buf \in Seq(PacketType) /\ net.wire \in Seq(PacketType) /\ Stream \in Seq(PacketType)
           /\ Len(Stream) = Len(net.buf) + Len(net.wire)
           /\ Part(net.buf, Stream)
           /\ \A i \in 1..Len(net.wire) : Stream[Len(net.buf) + i] = net.wire[i]
<1>1. net.buf \in Seq(PacketType) /\ net.wire \in Seq(PacketType)
  BY DEF TypeOK, NetType
<1> DEFINE a == net.buf
           b == net.wire
<1>2. /\ a \o b \in Seq(PacketType) /\ Len(a \o b) = Len(a) + Len(b)
      /\ \A i \in 1..Len(a) : (a \o b)[i] = a[i]
      /\ \A i \in 1..Len(b) : (a \o b)[Len(a) + i] = b[i]
      /\ Len(a) <= Len(a \o b)
  <2> HIDE DEF a, b
  <2>1. a \in Seq(PacketType) /\ b \in Seq(PacketType)
    BY <1>1 DEF a, b
  <2> QED
    BY <2>1, ConcatIs
<1>3. Stream = a \o b
  BY DEF Stream
<1> HIDE DEF a, b
<1> QED
  BY <1>1, <1>2, <1>3 DEF Part, a, b

LEMMA ArrivalIs ==
    ASSUME TypeOK, NEW r \in Arrivals
    PROVE  /\ Stream # <<>> /\ r.pkt = Stream[1] /\ r.net \in NetType
           /\ r.net.buf \in Seq(PacketType) /\ r.net.wire \in Seq(PacketType)
           /\ r.net.buf \o r.net.wire = Tail(Stream)
           /\ r.net.up = net.up /\ r.net.out = net.out
           /\ \A i \in 1..Len(r.net.buf) :
                 \/ \E j \in 1..Len(net.buf) : r.net.buf[i] = net.buf[j]
                 \/ Len(net.wire) > 1 /\ \E j \in 1..Len(net.wire) : r.net.buf[i] = net.wire[j]
           /\ \A i \in 1..Len(r.net.wire) :
                 Len(r.net.wire) <= Len(net.wire) /\ \E j \in 1..Len(net.wire) : r.net.wire[i] = net.wire[j]
<1>1. /\ net.buf \in Seq(PacketType) /\ net.wire \in Seq(PacketType) /\ net \in NetType
      /\ r.net \in NetType
  BY ArrivalTyped DEF TypeOK, NetType
<1>2. CASE net.buf # <<>>
  <2> DEFINE b == Tail(net.buf)
  <2>1. r = [pkt |-> Head(net.buf), net |-> [net EXCEPT !.buf = b]]
    BY <1>2 DEF Arrivals
  <2>2. /\ b \in Seq(PacketType) /\ Head(net.buf) = net.buf[1] /\ Len(b) = Len(net.buf) - 1
        /\ \A i \in 1..Len(b) : b[i] = net.buf[i + 1] /\ i + 1 \in 1..Len(net.buf)
        /\ 1 \in 1..Len(net.buf)
    BY <1>1, <1>2, SeqBasics
  <2>3. b \o net.wire = Tail(net.buf \o net.wire) /\ net.buf \o net.wire # <<>>
        /\ (net.buf \o net.wire)[1] = net.buf[1]
    BY <1>1, <1>2, TailConcat, ZenonT(60)
  <2> HIDE DEF b
  <2>4. r.net.buf = b /\ r.net.wire = net.wire /\ r.net.up = net.up /\ r.net.out = net.out
        /\ r.pkt = net.buf[1]
    BY <1>1, <2>1, <2>2 DEF NetType
  <2>5. \A i \in 1..Len(b) : \E j \in 1..Len(net.buf) : b[i] = net.buf[j]
    BY <2>2
  <2>6. \A i \in 1..Len(net.wire) : Len(net.wire) <= Len(net.wire) /\ \E j \in 1..Len(net.wire) : net.wire[i] = net.wire[j]
    BY <1>1
  <2>7. b \o net.wire = Tail(Stream) /\ Stream # <<>> /\ Stream[1] = net.buf[1]
    BY <2>3 DEF Stream
  <2> QED
    BY <1>1, <2>2, <2>4, <2>5, <2>6, <2>7
<1>3. CASE net.buf = <<>>
  <2>1. PICK k \in {j \in {1, Len(net.wire)} : net.wire # <<>>} :
           r = [pkt |-> Head(net.wire),
                net |-> [net EXCEPT !.buf = SubSeq(net.wire, 2, k),
                                    !.wire = SubSeq(net.wire, k + 1, Len(net.wire))]]
    BY <1>3 DEF Arrivals
  <2>2. net.wire # <<>> /\ k \in 1..Len(net.wire) /\ k \in {1, Len(net.wire)}
    BY <1>1, <2>1, SeqBasics
  <2> DEFINE b == SubSeq(net.wire, 2, k)
             w == SubSeq(net.wire, k + 1, Len(net.wire))
  <2>3. b \in Seq(PacketType) /\ w \in Seq(PacketType)
    BY <1>1, <2>2
  <2>4. /\ Len(b) = k - 1 /\ Len(w) = Len(net.wire) - k
        /\ \A i \in 1..Len(b) : b[i] = net.wire[i + 1]
        /\ \A i \in 1..Len(w) : w[i] = net.wire[k + i]
    BY <1>1, <2>2
  <2>5. b \o w = Tail(net.wire)
    <3>1. CASE k = 1
      <4>1. b = <<>> /\ w = Tail(net.wire)
        BY <1>1, <2>2, <2>3, <2>4, <3>1
      <4> QED
        BY <2>3, <4>1, ConcatEmptySeq
    <3>2. CASE k = Len(net.wire)
      <4>1. w = <<>> /\ b = Tail(net.wire)
        BY <1>1, <2>2, <2>3, <2>4, <3>2
      <4> QED
        BY <2>3, <4>1, ConcatEmptySeq
    <3> QED
      BY <2>2, <3>1, <3>2
  <2>6. Stream = net.wire /\ Head(net.wire) = net.wire[1]
    BY <1>1, <1>3, <2>2, ConcatEmptySeq DEF Stream
  <2> HIDE DEF b, w
  <2>7. r.net.buf = b /\ r.net.wire = w /\ r.net.up = net.up /\ r.net.out = net.out
        /\ r.pkt = net.wire[1]
    <3>1. r = [pkt |-> Head(net.wire), net |-> [net EXCEPT !.buf = b, !.wire = w]]
      BY <2>1 DEF b, w
    <3> QED
      BY <1>1, <2>6, <3>1 DEF NetType
  <2>8. \A i \in 1..Len(b) : Len(net.wire) > 1 /\ \E j \in 1..Len(net.wire) : b[i] = net.wire[j]
    <3> SUFFICES ASSUME NEW i \in 1..Len(b)
                 PROVE  Len(net.wire) > 1 /\ \E j \in 1..Len(net.wire) : b[i] = net.wire[j]
      OBVIOUS
    <3>1. i + 1 \in 1..Len(net.wire) /\ Len(net.wire) > 1
      BY <1>1, <2>2, <2>3, <2>4
    <3> QED
      BY <2>4, <3>1
  <2>9. \A i \in 1..Len(w) : Len(w) <= Len(net.wire) /\ \E j \in 1..Len(net.wire) : w[i] = net.wire[j]
    <3> SUFFICES ASSUME NEW i \in 1..Len(w)
                 PROVE  Len(w) <= Len(net.wire) /\ \E j \in 1..Len(net.wire) : w[i] = net.wire[j]
      OBVIOUS
    <3>1. k + i \in 1..Len(net.wire) /\ Len(w) <= Len(net.wire)
      BY <1>1, <2>2, <2>3, <2>4
    <3> QED
      BY <2>4, <3>1
  <2> QED
    BY <1>1, <2>2, <2>3, <2>5, <2>6, <2>7, <2>8, <2>9
<1> QED
  BY <1>2, <1>3

LEMMA ArrivalMine ==
    ASSUME Front, call.todo # <<>>, Head(call.todo).do \in Reading, NEW r \in Arrivals, InSequence(r.pkt)
    PROVE  Mine(r.pkt) /\ r.pkt.of = Owner
<1> DEFINE t == Head(call.todo)
           p == r.pkt
           s == Stream
<1>1. /\ t = At(call.todo, 1) /\ Ready(call, held, t) /\ Owner = OwnerOf(call, held)
      /\ call.name # "Connect"
  BY RestSound DEF Front
<1>2. t.do \notin {"finish", "ctx", "write"} /\ t.do \in Reading
  BY DEF Reading
<1>3. call.err = "running"
  BY <1>1, <1>2 DEF Ready
<1>4. Reads(call, held, mc, net.out, s)
  BY <1>1, <1>2 DEF Front, StreamInv, Fits
<1>5. s \in Seq(PacketType) /\ s # <<>> /\ p = s[1] /\ p \in PacketType /\ 1 \in 1..Len(s)
  BY StreamTyped, ArrivalIs, SeqBasics DEF Front
<1>6. mc.sequence >= 1 /\ p.seq = mc.sequence /\ p.seq \in Nat /\ p.of \in Nat
  BY <1>1, <1>2, <1>5 DEF Front, NumbersInv, InSequence, First, PacketType
<1>7. p.of # 0
  BY <1>5, <1>6 DEF Front, StreamInv, Marked
<1>8. p.seq \in 1..210 /\ (p.kind = "file" => p.seq <= 110)
  BY <1>5, <1>7 DEF Front, NumbersInv
<1>9. ~Blocked(call, held, mc, s)
  BY <1>5, <1>6 DEF Blocked
<1>10. Of(s, OwnerOf(call, held)) /\ Expected(call, s) /\ Silent(net.out)
  BY <1>4, <1>5, <1>9 DEF Reads
<1>11. p.of = OwnerOf(call, held)
  BY <1>5, <1>7, <1>10 DEF Of
<1> QED
  BY <1>1, <1>3, <1>5, <1>6, <1>7, <1>8, <1>10, <1>11 DEF Mine

-----------------------------------------------------------------------------
(* What comes after a packet of an answer.                                 *)
LEMMA TailIs ==
    ASSUME NEW s \in Seq(PacketType), s # <<>>, NEW n, n # 0, Of(s, n), Orderly(s)
    PROVE  /\ Tail(s) \in Seq(PacketType) /\ Of(Tail(s), n) /\ Orderly(Tail(s))
           /\ s[1] \in PacketType
           /\ ~Idle(Tail(s)) =>
                 /\ Tail(s) # <<>> /\ Tail(s)[1] \in PacketType /\ Tail(s)[1].of = n
                 /\ Follows(s[1], Tail(s)[1])
                 /\ s[1].kind \in {"row", "eof"} /\ Tail(s)[1].kind = "eof" /\ ~Tail(s)[1].flag =>
                       Idle(Tail(Tail(s)))
<1> DEFINE t == Tail(s)
<1>1. /\ t \in Seq(PacketType) /\ Len(t) = Len(s) - 1 /\ Len(s) \in Nat /\ Len(t) \in Nat
      /\ \A i \in 1..Len(t) : t[i] = s[i + 1] /\ i + 1 \in 1..Len(s)
      /\ 1 \in 1..Len(s) /\ s[1] \in PacketType
  BY SeqBasics
<1> HIDE DEF t
<1>2. Of(t, n)
  BY <1>1 DEF Of
<1>3. Orderly(t)
  <2>1. ASSUME NEW i \in 1..(Len(t) - 1)
        PROVE  Follows(t[i], t[i + 1])
    <3>1. i \in 1..Len(t) /\ i + 1 \in 1..Len(t) /\ i + 1 \in 1..(Len(s) - 1)
      BY <1>1
    <3>2. t[i] = s[i + 1] /\ t[i + 1] = s[i + 1 + 1]
      BY <1>1, <3>1
    <3> QED
      BY <3>1, <3>2 DEF Orderly
  <2>2. ASSUME NEW i \in 1..(Len(t) - 2), t[i].kind \in {"row", "eof"}, t[i + 1].kind = "eof", ~t[i + 1].flag
        PROVE  t[i + 2].of = 0
    <3>1. /\ i \in 1..Len(t) /\ i + 1 \in 1..Len(t) /\ i + 2 \in 1..Len(t)
          /\ i + 1 \in 1..(Len(s) - 2) /\ (i + 1) + 1 = i + 2 /\ (i + 1) + 2 = (i + 2) + 1
      BY <1>1
    <3>2. t[i] = s[i + 1] /\ t[i + 1] = s[(i + 1) + 1] /\ t[i + 2] = s[(i + 1) + 2]
      BY <1>1, <3>1
    <3> QED
      BY <2>2, <3>1, <3>2 DEF Orderly
  <2> QED
    BY <2>1, <2>2 DEF Orderly
<1>4. ASSUME ~Idle(t)
      PROVE  /\ t # <<>> /\ t[1] \in PacketType /\ t[1].of = n
             /\ Follows(s[1], t[1])
             /\ s[1].kind \in {"row", "eof"} /\ t[1].kind = "eof" /\ ~t[1].flag => Idle(Tail(t))
  <2>1. t # <<>> /\ t[1].of # 0
    BY <1>4 DEF Idle
  <2>2. 1 \in 1..Len(t) /\ t[1] \in PacketType /\ t[1] = s[1 + 1] /\ 1 \in 1..(Len(s) - 1)
    BY <1>1, <2>1, SeqBasics
  <2>3. t[1].of = n
    BY <1>2, <2>1, <2>2 DEF Of
  <2>4. Follows(s[1], t[1])
    BY <2>2 DEF Orderly
  <2>5. ASSUME s[1].kind \in {"row", "eof"}, t[1].kind = "eof", ~t[1].flag, Tail(t) # <<>>
        PROVE  Tail(t)[1].of = 0
    <3>1. Tail(t) \in Seq(PacketType) /\ Len(Tail(t)) = Len(t) - 1 /\ 1 \in 1..Len(Tail(t))
          /\ Tail(t)[1] = t[1 + 1] /\ 1 + 1 \in 1..Len(t)
      BY <1>1, <2>1, <2>5, SeqBasics
    <3>2. t[2] = s[2 + 1] /\ 1 \in 1..(Len(s) - 2) /\ 1 + 1 = 2 /\ 2 + 1 = 1 + 2
      BY <1>1, <3>1
    <3>3. s[1 + 2].of = 0
      BY <2>2, <2>5, <3>2 DEF Orderly
    <3> QED
      BY <3>1, <3>2, <3>3
  <2> QED
    BY <2>1, <2>2, <2>3, <2>4, <2>5 DEF Idle
<1> QED
  BY <1>1, <1>2, <1>3, <1>4 DEF t

LEMMA AfterPacket ==
    ASSUME NEW s \in Seq(PacketType), s # <<>>, NEW n, n # 0, Of(s, n), Orderly(s), NEW m, s[1].seq >= 1
    PROVE  /\ s[1].kind \in {"err", "file", "readonly"} \/ (s[1].kind = "ok" /\ ~s[1].flag) => Idle(Tail(s))
           /\ s[1].kind \in {"ok", "eof"} /\ m.more = s[1].flag
              /\ (s[1].kind = "eof" /\ ~s[1].flag => Idle(Tail(s))) => MoreAt(m, Tail(s))
           /\ s[1].kind = "result" => AtColumns(Tail(s))
           /\ s[1].kind = "field" /\ s[1].seq >= 2 => AtColumns(Tail(s))
           /\ s[1].kind = "eof" /\ ~s[1].flag /\ s[1].seq >= 3 => AtRows(Tail(s))
           /\ s[1].kind = "row" /\ s[1].seq >= 4 => AtRows(Tail(s))
           /\ Idle(Tail(s)) \/ Tail(s)[1].seq = s[1].seq + Span(s[1])
<1> DEFINE t == Tail(s)
           p == s[1]
           q == t[1]
<1>1. p \in PacketType /\ p.seq \in Nat
  BY TailIs DEF PacketType
<1>2. ASSUME ~Idle(t)
      PROVE  /\ q \in PacketType /\ q.of # 0 /\ Follows(p, q) /\ q.seq = p.seq + Span(p)
             /\ p.kind \in {"row", "eof"} /\ q.kind = "eof" /\ ~q.flag => Idle(Tail(t))
  <2>1. /\ q \in PacketType /\ q.of = n /\ Follows(p, q)
        /\ p.kind \in {"row", "eof"} /\ q.kind = "eof" /\ ~q.flag => Idle(Tail(t))
    BY <1>2, TailIs
  <2> QED
    BY <2>1 DEF Follows
<1> HIDE DEF q, t, p
<1>3. CASE Idle(t)
  BY <1>3 DEF t, MoreAt, AtColumns, AtRows
<1>4. CASE ~Idle(t)
  <2>1. p.kind \notin {"err", "file", "readonly"} /\ ~(p.kind = "ok" /\ ~p.flag)
    BY <1>2, <1>4 DEF Follows
  <2>2. p.kind \in {"ok", "eof"} /\ m.more = p.flag /\ p.flag => MoreAt(m, t)
    BY <1>2, <1>4 DEF Follows, MoreAt, q
  <2>3. p.kind = "result" \/ (p.kind = "field" /\ p.seq >= 2) => AtColumns(t)
    <3>1. p.seq >= 1
      BY DEF p
    <3>2. q.seq >= p.seq + 1
      BY <1>1, <1>2, <1>4, Spans
    <3>3. q.seq >= 2 /\ (p.seq >= 2 => q.seq >= 3)
      BY <1>1, <1>2, <1>4, <3>1, <3>2 DEF PacketType
    <3> QED
      BY <1>1, <1>2, <1>4, <3>3 DEF Follows, AtColumns, q
  <2>4. (p.kind = "eof" /\ ~p.flag /\ p.seq >= 3) \/ (p.kind = "row" /\ p.seq >= 4) => AtRows(t)
    <3>1. q.seq >= p.seq + 1 /\ q.seq \in Nat
      BY <1>1, <1>2, <1>4, Spans DEF PacketType
    <3>2. p.seq >= 3 => q.seq >= 4
      BY <1>1, <3>1
    <3>3. p.seq >= 4 => p.seq >= 3
      BY <1>1
    <3> QED
      BY <1>1, <1>2, <1>4, <3>2, <3>3 DEF Follows, AtRows, q
  <2> QED
    BY <1>2, <1>4, <2>1, <2>2, <2>3, <2>4 DEF p, t, q
<1> QED
  BY <1>3, <1>4

-----------------------------------------------------------------------------
(* Every kind of packet a task reads leaves the task after it what it      *)
(* expects.                                                                *)

Fitted(p) ==
    /\ Fits(call', held', mc', net.out, Tail(Stream))
    /\ IsFile(At(call'.todo, 1)) => p.kind = "file"

Read(p) ==
    /\ Front /\ Mine(p) /\ p.kind # "readonly" /\ call.todo # <<>>
    /\ mc' = ConnAfter(p) /\ held' = RowsAfter(p) /\ CallReads(p)

LEMMA TaskFacts ==
    ASSUME TypeOK, Pooled, TasksInv, call.todo # <<>>
    PROVE  LET t == At(call.todo, 1)
               u == At(call.todo, 2)
               v == At(call.todo, 3)
           IN  /\ t = Head(call.todo) /\ t \in TaskType /\ Owner = OwnerOf(call, held)
               /\ Leads(call.name, t, u, v) /\ Ready(call, held, t)
               /\ u.do # "none" =>
                     /\ Leads(call.name, u, v, At(call.todo, 4)) /\ Ready(call, held, u)
                     /\ Tail(call.todo) # <<>> /\ u \in TaskType
               /\ call.name # "Connect"
               /\ call.todo \in Seq(TaskType) /\ Tail(call.todo) \in Seq(TaskType)
               /\ At(Tail(call.todo), 1) = u /\ At(Tail(call.todo), 2) = v
               /\ u.do = "none" => Tail(call.todo) = <<>>
               /\ call.err = "running" \/ t.do \in {"finish", "ctx"} \/ (t.do = "write" /\ call.name = "Prepare")
<1> DEFINE todo == call.todo
           t == At(todo, 1)
           u == At(todo, 2)
           v == At(todo, 3)
<1>1. todo \in Seq(TaskType) /\ Sound(call, held, todo) /\ todo # <<>> /\ call.name # "Connect"
  BY RestTyped DEF TasksInv, Pooled
<1>2. /\ t = Head(todo) /\ t = todo[1] /\ t \in TaskType /\ Tail(todo) \in Seq(TaskType)
      /\ u = At(Tail(todo), 1) /\ v = At(Tail(todo), 2) /\ 1 \in 1..Len(todo)
  BY <1>1, AtFirst
<1>3. Leads(call.name, t, u, v) /\ Ready(call, held, t)
  BY <1>1, SoundFirst
<1>4. u.do = "none" => Tail(todo) = <<>>
  BY <1>1, LastTask
<1>5. ASSUME u.do # "none"
      PROVE  /\ Leads(call.name, u, v, At(todo, 4)) /\ Ready(call, held, u)
             /\ Tail(todo) # <<>> /\ u \in TaskType
  <2>1. 2 \in 1..Len(todo) /\ u = todo[2]
    BY <1>5, TaskIs DEF At, None
  <2>2. Leads(call.name, todo[2], At(todo, 2 + 1), At(todo, 2 + 2)) /\ Ready(call, held, todo[2])
    BY <1>1, <2>1 DEF Sound, Shape
  <2>3. 2 + 1 = 3 /\ 2 + 2 = 4
    OBVIOUS
  <2>4. At(<<>>, 1).do = "none"
    BY TaskIs DEF At, None
  <2>5. Tail(todo) # <<>>
    BY <1>2, <1>5, <2>4
  <2> QED
    BY <1>1, <2>1, <2>2, <2>3, <2>5
<1>6. Owner = OwnerOf(call, held)
  BY DEF Owner, OwnerOf, RowCalls
<1>7. call.err = "running" \/ t.do \in {"finish", "ctx"} \/ (t.do = "write" /\ call.name = "Prepare")
  BY <1>3 DEF Ready
<1> HIDE DEF t, u, v
<1>8. /\ t = Head(call.todo) /\ t \in TaskType /\ Owner = OwnerOf(call, held)
      /\ Leads(call.name, t, u, v) /\ Ready(call, held, t)
      /\ u.do # "none" =>
            /\ Leads(call.name, u, v, At(call.todo, 4)) /\ Ready(call, held, u)
            /\ Tail(call.todo) # <<>> /\ u \in TaskType
      /\ call.name # "Connect"
      /\ call.todo \in Seq(TaskType) /\ Tail(call.todo) \in Seq(TaskType)
      /\ At(Tail(call.todo), 1) = u /\ At(Tail(call.todo), 2) = v
      /\ u.do = "none" => Tail(call.todo) = <<>>
      /\ call.err = "running" \/ t.do \in {"finish", "ctx"} \/ (t.do = "write" /\ call.name = "Prepare")
  BY <1>1, <1>2, <1>3, <1>4, <1>5, <1>6, <1>7
<1> QED
  BY <1>8 DEF t, u, v

LEMMA MarkedTail ==
    ASSUME NEW s \in Seq(PacketType), NEW up, Marked(s, up), s # <<>>
    PROVE  Marked(Tail(s), up)
<1>1. /\ Len(Tail(s)) = Len(s) - 1 /\ Len(s) \in Nat
      /\ \A i \in 1..Len(Tail(s)) : Tail(s)[i] = s[i + 1] /\ i + 1 \in 1..Len(s)
  BY SeqBasics
<1> DEFINE t == Tail(s)
<1> HIDE DEF t
<1>2. Len(t) = Len(s) - 1 /\ \A i \in 1..Len(t) : t[i] = s[i + 1] /\ i + 1 \in 1..Len(s)
  BY <1>1 DEF t
<1>3. ASSUME NEW i \in 1..Len(t), t[i].of = 0
      PROVE  i = Len(t) /\ t[i].seq = 0 /\ ~up
  <2>1. s[i + 1].of = 0 /\ i + 1 \in 1..Len(s) /\ t[i] = s[i + 1]
    BY <1>2, <1>3
  <2>2. i + 1 = Len(s) /\ s[i + 1].seq = 0 /\ ~up
    BY <2>1 DEF Marked
  <2>3. t[i].seq = 0 /\ ~up
    BY <2>1, <2>2
  <2>4. i + 1 = Len(s) /\ Len(t) = Len(s) - 1 /\ Len(s) \in Nat
    BY <1>1, <1>2, <2>2
  <2>5. i = Len(t)
    BY <2>4
  <2> QED
    BY <2>3, <2>5
<1>4. Marked(t, up)
  BY <1>3 DEF Marked
<1> QED
  BY <1>4 DEF t

LEMMA ReadIdle ==
    ASSUME Front, NEW p, Mine(p), Idle(Tail(Stream)), NEW h, NEW m, NEW c,
           At(c.todo, 1).do # "write" \/ At(c.todo, 1).first
    PROVE  Fits(c, h, m, net.out, Tail(Stream))
<1>1. Marked(Tail(Stream), net.up) /\ Tail(Stream) \in Seq(PacketType)
  BY MarkedTail, SeqBasics DEF Mine, Front, StreamInv
<1> QED
  BY <1>1, IdleFits DEF Mine

LEMMA ReturnIdle ==
    ASSUME Front, NEW p, Mine(p), Idle(Tail(Stream)), NEW err, Return(err)
    PROVE  Fitted(p)
<1>1. call'.todo = AtReturn(call.name, call'.err) /\ call.name # "Connect"
  BY ReturnIs DEF Front, Pooled
<1>2. At(call'.todo, 1).do \in {"none", "finish"}
  BY <1>1, ReturnFirst
<1> QED
  BY <1>2, ReadIdle DEF Fitted, IsFile

LEMMA ConnAfterIs ==
    ASSUME TypeOK, Columns <= 25,
           NEW p, p.seq = mc.sequence, p.seq \in 1..210, p.kind # "readonly", mc' = ConnAfter(p),
           p.flag \in BOOLEAN
    PROVE  /\ mc'.sequence = p.seq + Span(p) /\ mc'.canceled = mc.canceled /\ mc'.closed = mc.closed
           /\ p.kind = "ok" \/ (p.kind = "eof" /\ ~Doing("columns")) => mc'.more = p.flag
<1> DEFINE d == Span(p)
           s == (mc.sequence + d) % 256
           more == IF p.kind = "ok" \/ (p.kind = "eof" /\ ~Doing("columns")) THEN p.flag ELSE mc.more
           tls == IF Doing("handshake") THEN Encrypted(p) ELSE mc.tls
           b == mc.closed \/ p.kind = "readonly"
<1>1. mc \in ConnType
  BY DEF TypeOK
<1>2. mc' = [mc EXCEPT !.sequence = s, !.more = more, !.tls = tls, !.closed = b]
  BY DEF ConnAfter
<1>3. b = mc.closed
  BY <1>1 DEF ConnType
<1>4. s = p.seq + Span(p)
  <2>1. d \in 1..25 /\ Span(p) = d
    BY Spans
  <2> HIDE DEF d
  <2> QED
    BY <2>1
<1>5. p.kind = "ok" \/ (p.kind = "eof" /\ ~Doing("columns")) => more = p.flag
  OBVIOUS
<1> HIDE DEF s, more, tls, b
<1>6. mc'.sequence = s /\ mc'.more = more /\ mc'.closed = b /\ mc'.canceled = mc.canceled
  BY <1>1, <1>2 DEF ConnType
<1> QED
  BY <1>3, <1>4, <1>5, <1>6

-----------------------------------------------------------------------------
LEMMA ReadFacts ==
    ASSUME NEW p, Read(p)
    PROVE  LET t == At(call.todo, 1)
               rest == Tail(Stream)
           IN  /\ Stream \in Seq(PacketType) /\ rest \in Seq(PacketType) /\ Of(rest, p.of)
               /\ t.do \in {"ok", "header", "eof", "drain", "columns", "row"} /\ call.name # "Prepare" =>
                     /\ Orderly(Stream) /\ Orderly(rest) /\ Phase(call, Stream)
                     /\ p.kind \in {"err", "file"} \/ (p.kind = "ok" /\ ~p.flag) => Idle(rest)
                     /\ p.kind = "ok" \/ (p.kind = "eof" /\ t.do # "columns" /\ (~p.flag => Idle(rest))) =>
                           MoreAt(mc', rest)
                     /\ p.kind = "result" => AtColumns(rest)
                     /\ p.kind = "field" /\ p.seq >= 2 => AtColumns(rest)
                     /\ p.kind = "eof" /\ ~p.flag /\ p.seq >= 3 => AtRows(rest)
                     /\ p.kind = "row" /\ p.seq >= 4 => AtRows(rest)
                     /\ Idle(rest) \/ rest[1].seq = p.seq + Span(p)
               /\ ~Idle(Stream) /\ Silent(net.out) /\ p = Stream[1] /\ p \in PacketType
               /\ mc'.sequence = p.seq + Span(p) /\ mc'.canceled = mc.canceled /\ mc'.closed = mc.closed
               /\ t = Head(call.todo)
<1> DEFINE t == At(call.todo, 1)
           rest == Tail(Stream)
           n == p.of
<1>1. /\ Mine(p) /\ TypeOK /\ Pooled /\ TasksInv /\ p.kind # "readonly" /\ call.todo # <<>>
      /\ mc' = ConnAfter(p)
  BY DEF Read, Front
<1>2. t = Head(call.todo)
  BY <1>1, TaskFacts
<1>3. /\ Stream \in Seq(PacketType) /\ Stream # <<>> /\ p = Stream[1] /\ p \in PacketType /\ n # 0
      /\ Silent(net.out) /\ Of(Stream, n) /\ Expected(call, Stream) /\ p.seq >= 1
      /\ p.seq = mc.sequence /\ p.seq \in 1..210 /\ p.flag \in BOOLEAN
  <2>1. /\ Stream \in Seq(PacketType) /\ Stream # <<>> /\ p = Stream[1] /\ p \in PacketType /\ p.of # 0
        /\ Silent(net.out) /\ Of(Stream, p.of) /\ Expected(call, Stream)
        /\ p.seq = mc.sequence /\ p.seq \in 1..210
    BY <1>1 DEF Mine
  <2>2. p \in PacketType /\ p.seq \in 1..210
    BY <2>1
  <2>3. p.flag \in BOOLEAN
    BY <2>2 DEF PacketType
  <2>4. p.seq >= 1
    BY <2>2
  <2> QED
    BY <2>1, <2>3, <2>4
<1>4. /\ mc'.sequence = p.seq + Span(p) /\ mc'.canceled = mc.canceled /\ mc'.closed = mc.closed
      /\ p.kind = "ok" \/ (p.kind = "eof" /\ ~Doing("columns")) => mc'.more = p.flag
  BY <1>1, <1>3, ConnAfterIs DEF Read, Front, NumbersInv
<1>5. ~Idle(Stream)
  BY <1>3 DEF Idle
<1>6. rest \in Seq(PacketType) /\ Of(rest, n)
  <2>1. rest \in Seq(PacketType) /\ \A i \in 1..Len(rest) : rest[i] = Stream[i + 1] /\ i + 1 \in 1..Len(Stream)
    BY <1>3, SeqBasics
  <2> QED
    BY <1>3, <2>1 DEF Of
<1>7. ASSUME t.do \in {"ok", "header", "eof", "drain", "columns", "row"}, call.name # "Prepare"
      PROVE  Orderly(Stream) /\ Phase(call, Stream)
  BY <1>3, <1>7 DEF Expected
<1>8. ASSUME Orderly(Stream)
      PROVE  /\ Orderly(rest)
             /\ p.kind \in {"err", "file"} \/ (p.kind = "ok" /\ ~p.flag) => Idle(rest)
             /\ p.kind = "ok" \/ (p.kind = "eof" /\ t.do # "columns" /\ (~p.flag => Idle(rest))) =>
                   MoreAt(mc', rest)
             /\ p.kind = "result" => AtColumns(rest)
             /\ p.kind = "field" /\ p.seq >= 2 => AtColumns(rest)
             /\ p.kind = "eof" /\ ~p.flag /\ p.seq >= 3 => AtRows(rest)
             /\ p.kind = "row" /\ p.seq >= 4 => AtRows(rest)
             /\ Idle(rest) \/ rest[1].seq = p.seq + Span(p)
  <2>1. Orderly(rest)
    BY <1>3, <1>8, TailIs
  <2>2. /\ p.kind \in {"err", "file", "readonly"} \/ (p.kind = "ok" /\ ~p.flag) => Idle(rest)
        /\ p.kind \in {"ok", "eof"} /\ mc'.more = p.flag
           /\ (p.kind = "eof" /\ ~p.flag => Idle(rest)) => MoreAt(mc', rest)
        /\ p.kind = "result" => AtColumns(rest)
        /\ p.kind = "field" /\ p.seq >= 2 => AtColumns(rest)
        /\ p.kind = "eof" /\ ~p.flag /\ p.seq >= 3 => AtRows(rest)
        /\ p.kind = "row" /\ p.seq >= 4 => AtRows(rest)
        /\ Idle(rest) \/ rest[1].seq = p.seq + Span(p)
    BY <1>3, <1>8, AfterPacket
  <2>3. t.do # "columns" => ~Doing("columns")
    BY <1>2 DEF Doing
  <2> HIDE DEF rest, t
  <2> QED
    BY <1>4, <2>1, <2>2, <2>3
<1> HIDE DEF t, rest
<1> QED
  BY <1>2, <1>3, <1>4, <1>5, <1>6, <1>7, <1>8 DEF t, rest

LEMMA ReadOk ==
    ASSUME NEW p, Read(p), At(call.todo, 1).do = "ok"
    PROVE  Fitted(p)
<1> DEFINE t == At(call.todo, 1)
           u == At(call.todo, 2)
           rest == Tail(Stream)
           tail == Tail(call.todo)
<1>1. Front /\ Mine(p) /\ call.todo # <<>> /\ p.kind # "readonly" /\ CallReads(p) /\ held' = RowsAfter(p)
  BY DEF Read
<1>2. TypeOK /\ Pooled /\ TasksInv
  BY <1>1 DEF Front
<1>3. /\ t = Head(call.todo) /\ Leads(call.name, t, u, At(call.todo, 3)) /\ Ready(call, held, t)
      /\ u.do # "none" => Leads(call.name, u, At(call.todo, 3), At(call.todo, 4)) /\ Ready(call, held, u) /\ tail # <<>>
      /\ At(tail, 1) = u /\ (u.do = "none" => tail = <<>>)
  BY <1>1, <1>2, TaskFacts
<1>4. call.err = "running" /\ p.of = OwnerOf(call, held) /\ p.of # 0
  BY <1>1 DEF Mine
<1> HIDE DEF t, u
<1>5. t.do = "ok"
  BY DEF t
<1>6. /\ call.name = "Ping" => u.do = "none"
      /\ call.name # "Ping" => u.do = IF call.name \in QueryLike THEN "nextResult" ELSE "discard"
      /\ call.name # "StmtQuery"
  BY <1>3, <1>5 DEF Leads, IsFile
<1>7. call.name # "Prepare"
  BY <1>3, <1>6 DEF Leads, IsFile, QueryLike
<1>8. /\ IF p.kind = "ok" THEN Go(tail) ELSE Return("mysql")
      /\ held' = held
  <2>1. Head(call.todo).do = "ok"
    BY <1>3, <1>5
  <2> QED
    BY <1>1, <2>1 DEF CallReads, ErrorOf, RowsAfter, Doing
<1>9. /\ rest \in Seq(PacketType) /\ Of(rest, p.of) /\ Orderly(rest)
      /\ p.kind \in {"err", "file"} \/ (p.kind = "ok" /\ ~p.flag) => Idle(rest)
      /\ p.kind = "ok" => MoreAt(mc', rest)
      /\ Phase(call, Stream) /\ ~Idle(Stream) /\ Silent(net.out) /\ p = Stream[1]
  BY <1>5, <1>7, ReadFacts DEF t
<1>10. p.kind \in {"ok", "err"} /\ (call.name = "Ping" => ~p.flag)
  BY <1>5, <1>9 DEF Phase, AtOk, t
<1> HIDE DEF rest, tail
<1>11. CASE p.kind = "err" \/ call.name = "Ping"
  <2>1. Idle(rest)
    BY <1>9, <1>10, <1>11
  <2>2. Return("mysql") \/ Return("nil")
    BY <1>2, <1>3, <1>6, <1>8, <1>10, <1>11, GoIs
  <2> QED
    BY <1>1, <2>1, <2>2, ReturnIdle DEF rest
<1>12. CASE p.kind = "ok" /\ call.name # "Ping"
  <2>1. /\ call'.todo = tail /\ call'.err = "running" /\ call'.name = call.name /\ call'.n = call.n
        /\ tail # <<>>
    BY <1>2, <1>3, <1>4, <1>6, <1>8, <1>12, GoIs
  <2>2. At(call'.todo, 1) = u /\ ~IsFile(u)
    BY <1>3, <1>6, <1>12, <2>1 DEF IsFile
  <2>3. OwnerOf(call', held') = p.of
    BY <1>4, <1>8, <2>1 DEF OwnerOf
  <2>4. CASE call.name \in QueryLike
    <3>1. u.do = "nextResult"
      BY <1>6, <1>12, <2>4
    <3>2. held.done /\ held.open /\ held.of = p.of
      BY <1>3, <1>4, <1>5, <1>6, <2>4, <3>1 DEF Ready
    <3>3. RowsLeft(held', mc', rest)
      BY <1>8, <1>9, <1>12, <3>2 DEF RowsLeft
    <3>4. Rest(call', held', mc', rest)
      BY <1>4, <1>8, <1>9, <2>1, <2>3, <3>2, <3>3 DEF Rest, Runs
    <3>5. Fits(call', held', mc', net.out, rest)
      BY <1>9, <2>1, <2>2, <3>1, <3>4, StartingFits DEF Starting
    <3> QED
      BY <2>2, <3>5 DEF Fitted, rest
  <2>5. CASE call.name \notin QueryLike
    <3>1. u.do = "discard"
      BY <1>6, <1>12, <2>5
    <3>2. Looks(call', held', mc', net.out, rest)
      BY <1>9, <1>12, <2>3 DEF Looks
    <3>3. Fits(call', held', mc', net.out, rest)
      BY <2>1, <2>2, <3>1, <3>2, LookingFits
    <3> QED
      BY <2>2, <3>3 DEF Fitted, rest
  <2> QED
    BY <2>4, <2>5
<1> QED
  BY <1>10, <1>11, <1>12

-----------------------------------------------------------------------------
LEMMA ReadBasics ==
    ASSUME NEW p, Read(p)
    PROVE  /\ Front /\ Mine(p) /\ TypeOK /\ Pooled /\ TasksInv /\ call.todo # <<>> /\ p.kind # "readonly"
           /\ CallReads(p) /\ held' = RowsAfter(p) /\ call.err = "running" /\ held \in HeldType
           /\ p.of = OwnerOf(call, held) /\ p.of # 0
           /\ p.seq \in 1..210
BY DEF Read, Front, Mine, TypeOK

LEMMA ReadAny ==
    ASSUME NEW p, Read(p), At(call.todo, 1).do = "any"
    PROVE  Fitted(p)
<1>1. /\ TypeOK /\ Pooled /\ TasksInv /\ CallReads(p) /\ call.todo # <<>>
      /\ call.err = "running"
  BY ReadBasics
<1>2. At(call.todo, 1) = Head(call.todo)
  BY <1>1, TaskFacts
<1>3. Return("file")
  BY <1>1, <1>2 DEF CallReads, Doing
<1>4. Fits(call', held', mc', net.out, Tail(Stream))
  BY <1>1, <1>3, DeadFits DEF Dead
<1>5. call'.todo = AtReturn(call.name, call'.err) /\ call.name # "Connect"
  BY <1>1, <1>3, ReturnIs DEF Pooled
<1>6. At(call'.todo, 1).do \in {"none", "finish"}
  BY <1>5, ReturnFirst
<1> QED
  BY <1>4, <1>6 DEF Fitted, IsFile

(* A task that stays, for the next packet, or is the next to read.         *)
LEMMA ReadOn ==
    ASSUME NEW p, Read(p), call'.err = "running", call'.name # "Prepare",
           OwnerOf(call', held') = p.of,
           At(call'.todo, 1).do \in Reading, Orderly(Tail(Stream)), Phase(call', Tail(Stream))
    PROVE  Fitted(p)
<1>1. Of(Tail(Stream), p.of) /\ Silent(net.out)
  BY ReadFacts
<1>2. Expected(call', Tail(Stream))
  BY DEF Expected
<1>3. Reads(call', held', mc', net.out, Tail(Stream))
  BY <1>1, <1>2, SilentIsAlone DEF Reads
<1>4. Fits(call', held', mc', net.out, Tail(Stream))
  BY <1>3, ReadingFits
<1>5. ~IsFile(At(call'.todo, 1))
  BY DEF IsFile, Reading
<1> QED
  BY <1>4, <1>5 DEF Fitted

LEMMA ReadDrain ==
    ASSUME NEW p, Read(p), At(call.todo, 1).do = "drain"
    PROVE  Fitted(p)
<1> DEFINE t == At(call.todo, 1)
           u == At(call.todo, 2)
           rest == Tail(Stream)
           tail == Tail(call.todo)
<1>1. /\ Front /\ Mine(p) /\ TypeOK /\ Pooled /\ TasksInv /\ call.todo # <<>> /\ p.kind # "readonly"
      /\ CallReads(p) /\ held' = RowsAfter(p) /\ call.err = "running" /\ held \in HeldType
      /\ p.of = OwnerOf(call, held) /\ p.of # 0 /\ p.seq \in 1..210
  BY ReadBasics
<1>2. /\ t = Head(call.todo) /\ Leads(call.name, t, u, At(call.todo, 3))
      /\ u.do # "none" => tail # <<>>
      /\ At(tail, 1) = u
  BY <1>1, TaskFacts
<1> HIDE DEF t, u
<1>3. t.do = "drain"
  BY DEF t
<1>4. u.do = "more" /\ call.name \in QueryLike /\ call.name # "Prepare"
  BY <1>2, <1>3 DEF Leads, QueryLike
<1>5. /\ IF p.kind = "err" THEN Return("mysql") ELSE Go(IF p.kind = "eof" THEN tail ELSE call.todo)
      /\ held'.of = held.of
  <2>1. Head(call.todo).do = "drain"
    BY <1>2, <1>3
  <2>2. UntilEOF(p) /\ held' = IF p.kind = "eof" THEN [held EXCEPT !.done = TRUE] ELSE held
    BY <1>1, <2>1 DEF CallReads, RowsAfter, Doing
  <2>3. held'.of = held.of
    BY <1>1, <2>2 DEF HeldType
  <2> QED
    BY <1>1, <2>2, <2>3 DEF UntilEOF, IsError, ErrorOf
<1>6. /\ rest \in Seq(PacketType) /\ Of(rest, p.of) /\ Orderly(rest)
      /\ p.kind \in {"err", "file"} \/ (p.kind = "ok" /\ ~p.flag) => Idle(rest)
      /\ p.kind = "eof" /\ (~p.flag => Idle(rest)) => MoreAt(mc', rest)
      /\ p.kind = "row" /\ p.seq >= 4 => AtRows(rest)
      /\ Phase(call, Stream) /\ ~Idle(Stream) /\ Silent(net.out) /\ p = Stream[1]
  BY <1>3, <1>4, ReadFacts DEF t
<1>7. p.seq >= 4 /\ p.kind \in {"row", "err", "eof"} /\ (p.kind = "eof" /\ ~p.flag => Idle(rest))
  BY <1>3, <1>6 DEF Phase, AtRows, t
<1> HIDE DEF rest, tail
<1>8. CASE p.kind = "err"
  BY <1>1, <1>5, <1>6, <1>8, ReturnIdle DEF rest
<1>9. CASE p.kind # "err"
  <2> DEFINE x == IF p.kind = "eof" THEN tail ELSE call.todo
  <2>1. x # <<>> /\ Go(x)
    BY <1>1, <1>2, <1>4, <1>5, <1>9
  <2> HIDE DEF x
  <2>2. call'.todo = x /\ call'.err = "running" /\ call'.name = call.name /\ call'.n = call.n
    BY <1>1, <2>1, GoIs
  <2>3. OwnerOf(call', held') = p.of
    BY <1>1, <1>5, <2>2 DEF OwnerOf
  <2>4. CASE p.kind = "eof"
    <3>1. At(call'.todo, 1) = u
      BY <1>2, <2>2, <2>4 DEF x
    <3>2. Looks(call', held', mc', net.out, rest)
      BY <1>6, <1>7, <2>3, <2>4 DEF Looks
    <3>3. Fits(call', held', mc', net.out, rest)
      BY <1>4, <2>2, <3>1, <3>2, LookingFits
    <3> QED
      BY <1>4, <3>1, <3>3 DEF Fitted, rest, IsFile
  <2>5. CASE p.kind = "row"
    <3>1. call'.todo = call.todo /\ At(call'.todo, 1) = t
      BY <2>2, <2>5 DEF x, t
    <3>2. Phase(call', rest)
      BY <1>3, <1>6, <1>7, <2>5, <3>1 DEF Phase
    <3> QED
      BY <1>3, <1>4, <1>6, <2>2, <2>3, <3>1, <3>2, ReadOn DEF Reading, rest
  <2> QED
    BY <1>7, <1>9, <2>4, <2>5
<1> QED
  BY <1>8, <1>9

LEMMA ReadRow ==
    ASSUME NEW p, Read(p), At(call.todo, 1).do = "row"
    PROVE  Fitted(p)
<1> DEFINE t == At(call.todo, 1)
           rest == Tail(Stream)
<1>1. /\ Front /\ Mine(p) /\ TypeOK /\ Pooled /\ TasksInv /\ call.todo # <<>> /\ p.kind # "readonly"
      /\ CallReads(p) /\ held' = RowsAfter(p) /\ call.err = "running" /\ held \in HeldType
      /\ p.of = OwnerOf(call, held) /\ p.of # 0 /\ p.seq \in 1..210
  BY ReadBasics
<1>2. /\ t = Head(call.todo) /\ Leads(call.name, t, At(call.todo, 2), At(call.todo, 3))
      /\ Ready(call, held, t)
  BY <1>1, TaskFacts
<1> HIDE DEF t
<1>3. t.do = "row"
  BY DEF t
<1>4. call.name = "Next" /\ held.open /\ ~held.done
  BY <1>2, <1>3 DEF Leads, Ready
<1>5. held.of = p.of
  BY <1>1, <1>4 DEF OwnerOf, RowCalls
<1>6. /\ Row(p)
      /\ held' = IF p.kind = "eof" THEN [held EXCEPT !.done = TRUE, !.open = p.flag]
                 ELSE IF p.kind = "err" THEN [held EXCEPT !.open = FALSE] ELSE held
  <2>1. Head(call.todo).do = "row"
    BY <1>2, <1>3
  <2> QED
    BY <1>1, <2>1 DEF CallReads, RowsAfter, Doing, IsError
<1>7. /\ rest \in Seq(PacketType) /\ Of(rest, p.of) /\ Orderly(rest)
      /\ p.kind \in {"err", "file"} \/ (p.kind = "ok" /\ ~p.flag) => Idle(rest)
      /\ p.kind = "eof" /\ (~p.flag => Idle(rest)) => MoreAt(mc', rest)
      /\ p.kind = "row" /\ p.seq >= 4 => AtRows(rest)
      /\ Phase(call, Stream) /\ ~Idle(Stream) /\ Silent(net.out) /\ p = Stream[1] /\ p \in PacketType
      /\ Idle(rest) \/ rest[1].seq = p.seq + Span(p)
  BY <1>3, <1>4, ReadFacts DEF t
<1>8. p.seq >= 4 /\ p.kind \in {"row", "err", "eof"} /\ (p.kind = "eof" /\ ~p.flag => Idle(rest))
  BY <1>3, <1>7 DEF Phase, AtRows, t
<1> HIDE DEF rest
<1>9. CASE p.kind = "err"
  <2>1. Return("mysql")
    BY <1>6, <1>9 DEF Row, ErrorOf
  <2> QED
    BY <1>1, <1>7, <1>9, <2>1, ReturnIdle DEF rest
<1>10. CASE p.kind # "err"
  <2> DEFINE e == IF p.kind = "row" THEN "nil" ELSE "end"
  <2>1. Return(e)
    BY <1>6, <1>8, <1>10 DEF Row
  <2> HIDE DEF e
  <2>2. /\ held'.of = held.of
        /\ p.kind = "eof" => held'.done /\ held'.open = p.flag
        /\ p.kind = "row" => held' = held
    BY <1>1, <1>6, <1>8, <1>10 DEF HeldType
  <2>3. call'.name = "Next"
    BY <1>1, <1>4, <2>1, ReturnIs
  <2>4. RowsLeft(held', mc', rest)
    <3>1. CASE p.kind = "row"
      BY <1>4, <1>7, <1>8, <2>2, <3>1 DEF RowsLeft
    <3>2. CASE p.kind = "eof"
      BY <1>7, <1>8, <2>2, <3>2 DEF RowsLeft
    <3> QED
      BY <1>8, <1>10, <3>1, <3>2
  <2>5. Idle(rest) \/ rest[1].seq >= 4
    <3>1. p.seq \in 1..210 /\ p.seq >= 4
      BY <1>1, <1>8
    <3>2. p.seq + Span(p) >= 4
      BY <3>1, Spans
    <3> QED
      BY <1>7, <3>2
  <2>6. Rest(call', held', mc', rest)
    BY <1>1, <1>5, <1>7, <2>2, <2>4, <2>5 DEF Rest
  <2>7. Rows(call', held')
    BY <1>1, <1>5, <2>2, <2>3 DEF Rows
  <2>8. Fits(call', held', mc', net.out, rest)
    BY <1>1, <1>4, <1>7, <2>1, <2>6, <2>7, ReturnFits DEF e
  <2>9. call'.todo = AtReturn(call.name, call'.err) /\ call.name # "Connect"
    BY <1>1, <1>4, <2>1, ReturnIs
  <2>10. At(call'.todo, 1).do \in {"none", "finish"}
    BY <2>9, ReturnFirst
  <2> QED
    BY <2>8, <2>10 DEF Fitted, IsFile, rest
<1> QED
  BY <1>9, <1>10

-----------------------------------------------------------------------------
LEMMA ReadColumns ==
    ASSUME NEW p, Read(p), At(call.todo, 1).do = "columns"
    PROVE  Fitted(p)
<1> DEFINE t == At(call.todo, 1)
           u == At(call.todo, 2)
           rest == Tail(Stream)
           tail == Tail(call.todo)
<1>1. /\ Front /\ Mine(p) /\ TypeOK /\ Pooled /\ TasksInv /\ call.todo # <<>> /\ p.kind # "readonly"
      /\ CallReads(p) /\ held' = RowsAfter(p) /\ call.err = "running" /\ held \in HeldType
      /\ p.of = OwnerOf(call, held) /\ p.of # 0 /\ p.seq \in 1..210
  BY ReadBasics
<1>2. /\ t = Head(call.todo) /\ Leads(call.name, t, u, At(call.todo, 3)) /\ Ready(call, held, t)
      /\ u.do = "none" => tail = <<>>
  BY <1>1, TaskFacts
<1> HIDE DEF t, u
<1>3. t.do = "columns"
  BY DEF t
<1>4. /\ u.do = "none" /\ call.name \in QueryLike /\ call.name # "Prepare" /\ call.name # "RowsClose"
      /\ held.of = p.of /\ held.open /\ ~held.done
  BY <1>1, <1>2, <1>3 DEF Leads, QueryLike, Ready
<1>5. UntilEOF(p) /\ held' = held
  <2>1. Head(call.todo).do = "columns"
    BY <1>2, <1>3
  <2> QED
    BY <1>1, <2>1 DEF CallReads, RowsAfter, Doing
<1>6. /\ rest \in Seq(PacketType) /\ Of(rest, p.of) /\ Orderly(rest)
      /\ p.kind = "field" /\ p.seq >= 2 => AtColumns(rest)
      /\ p.kind = "eof" /\ ~p.flag /\ p.seq >= 3 => AtRows(rest)
      /\ Phase(call, Stream) /\ ~Idle(Stream) /\ Silent(net.out) /\ p = Stream[1]
      /\ Idle(rest) \/ rest[1].seq = p.seq + Span(p)
  BY <1>3, <1>4, ReadFacts DEF t
<1>7. (p.kind = "field" /\ p.seq >= 2) \/ (p.kind = "eof" /\ ~p.flag /\ p.seq >= 3)
  BY <1>3, <1>6 DEF Phase, AtColumns, t
<1> HIDE DEF rest, tail
<1>8. CASE p.kind = "field"
  <2>1. Go(call.todo)
    BY <1>5, <1>8 DEF UntilEOF, IsError
  <2>2. call'.todo = call.todo /\ call'.err = "running" /\ call'.name = call.name /\ call'.n = call.n
    BY <1>1, <2>1, GoIs
  <2>3. OwnerOf(call', held') = p.of /\ At(call'.todo, 1) = t
    BY <1>1, <1>5, <2>2 DEF OwnerOf, t
  <2>4. Phase(call', rest)
    BY <1>3, <1>6, <1>7, <1>8, <2>3 DEF Phase
  <2> QED
    BY <1>3, <1>4, <1>6, <2>2, <2>3, <2>4, ReadOn DEF Reading, rest
<1>9. CASE p.kind = "eof"
  <2>1. Return("nil")
    <3>1. Go(tail) /\ tail = <<>>
      BY <1>2, <1>4, <1>5, <1>9 DEF UntilEOF, IsError, tail
    <3> QED
      BY <1>1, <3>1, GoIs
  <2>2. call'.name = call.name /\ call'.err = "nil"
    BY <1>1, <2>1, ReturnIs DEF MarkBadConn
  <2>3. RowsLeft(held', mc', rest)
    BY <1>4, <1>5, <1>6, <1>7, <1>9 DEF RowsLeft
  <2>4. Idle(rest) \/ rest[1].seq >= 4
    <3>1. p.seq \in 1..210 /\ p.seq >= 3
      BY <1>1, <1>7, <1>9
    <3>2. p.seq + Span(p) >= 4
      BY <3>1, Spans
    <3> QED
      BY <1>6, <3>2
  <2>5. Rest(call', held', mc', rest)
    BY <1>1, <1>4, <1>5, <1>6, <2>3, <2>4 DEF Rest
  <2>6. Rows(call', held')
    BY <1>1, <1>4, <1>5, <2>2 DEF Rows
  <2>7. Fits(call', held', mc', net.out, rest)
    BY <1>1, <1>4, <1>6, <2>1, <2>5, <2>6, ReturnFits
  <2>8. call'.todo = AtReturn(call.name, call'.err) /\ call.name # "Connect"
    BY <1>1, <2>1, ReturnIs DEF Pooled
  <2>9. At(call'.todo, 1).do \in {"none", "finish"}
    BY <2>8, ReturnFirst
  <2> QED
    BY <2>7, <2>9 DEF Fitted, IsFile, rest
<1> QED
  BY <1>7, <1>8, <1>9

(* The lists of a prepared statement, after a packet.                      *)
LEMMA ListingTail ==
    ASSUME NEW s \in Seq(PacketType), s # <<>>, s[1].of # 0, NEW k \in {1, 2}, Listing(s, k),
           NEW up, Marked(s, up)
    PROVE  /\ s[1].kind \in {"field", "eof"}
           /\ s[1].kind = "field" => Listing(Tail(s), k)
           /\ s[1].kind = "eof" /\ k = 2 => Listing(Tail(s), 1)
           /\ s[1].kind = "eof" /\ k = 1 => Idle(Tail(s))
<1> DEFINE t == Tail(s)
           l == IF s[1].kind = "field" THEN 2 * k ELSE 2 * k - 1
<1>1. /\ t \in Seq(PacketType) /\ Len(t) = Len(s) - 1 /\ Len(s) \in Nat /\ Len(t) \in Nat
      /\ \A i \in 1..Len(t) : t[i] = s[i + 1] /\ i + 1 \in 1..Len(s)
      /\ 1 \in 1..Len(s)
  BY SeqBasics
<1>2. \A i \in 1..Len(s) : s[i].of = 0 \/ (i <= l /\ s[i].kind = IF l - i \in {1, 3} THEN "field" ELSE "eof")
  BY DEF Listing
<1>3. l \in {1, 2, 3, 4}
  OBVIOUS
<1> HIDE DEF t
<1>4. s[1].kind = IF l - 1 \in {1, 3} THEN "field" ELSE "eof"
  BY <1>1, <1>2
<1>5. s[1].kind \in {"field", "eof"}
  BY <1>4
<1>6. ASSUME NEW i \in 1..Len(t)
      PROVE  t[i].of = 0 \/ (i + 1 <= l /\ t[i].kind = IF l - (i + 1) \in {1, 3} THEN "field" ELSE "eof")
  <2>1. t[i] = s[i + 1] /\ i + 1 \in 1..Len(s)
    BY <1>1
  <2> QED
    BY <1>2, <2>1
<1>7. t # <<>> => 1 \in 1..Len(t)
  BY <1>1, SeqBasics
<1>8. ASSUME NEW j \in {1, 2}, t # <<>>, t[1].of # 0,
             l - 1 = IF t[1].kind = "field" THEN 2 * j ELSE 2 * j - 1
      PROVE  Listing(t, j)
  <2>1. ASSUME NEW i \in 1..Len(t)
        PROVE  t[i].of = 0 \/ (i <= l - 1 /\ t[i].kind = IF l - 1 - i \in {1, 3} THEN "field" ELSE "eof")
    <3>1. i \in Nat /\ (i + 1 <= l <=> i <= l - 1) /\ l - (i + 1) = l - 1 - i
      BY <1>1, <1>3
    <3> QED
      BY <1>6, <3>1
  <2> QED
    BY <1>8, <2>1 DEF Listing
<1>9. ASSUME Idle(t), NEW j
      PROVE  Listing(t, j)
  <2>1. Marked(t, up)
    BY MarkedTail DEF t
  <2>2. \A i \in 1..Len(t) : t[i].of = 0
    BY <1>1, <1>9, <2>1, IdleIsShort
  <2> QED
    BY <2>2 DEF Listing
<1>10. CASE Idle(t)
  BY <1>5, <1>9, <1>10 DEF t
<1>11. CASE ~Idle(t)
  <2>1. t # <<>> /\ t[1].of # 0
    BY <1>11 DEF Idle
  <2>2. 1 + 1 <= l /\ t[1].kind = IF l - (1 + 1) \in {1, 3} THEN "field" ELSE "eof"
    BY <1>6, <1>7, <2>1
  <2>3. CASE s[1].kind = "field"
    <3>1. l = 2 * k
      BY <2>3
    <3>2. t[1].kind = "eof" /\ l - 1 = 2 * k - 1
      BY <2>2, <3>1
    <3>3. Listing(t, k)
      BY <1>8, <2>1, <3>2
    <3> QED
      BY <2>3, <3>3 DEF t
  <2>4. CASE s[1].kind = "eof"
    <3>1. l = 2 * k - 1
      BY <2>4
    <3>2. k = 2
      BY <2>2, <3>1
    <3>3. t[1].kind = "field" /\ l - 1 = 2 * 1
      BY <2>2, <3>1, <3>2
    <3>4. Listing(t, 1)
      BY <1>8, <2>1, <3>3
    <3> QED
      BY <2>4, <3>2, <3>4 DEF t
  <2> QED
    BY <1>5, <2>3, <2>4
<1> QED
  BY <1>10, <1>11

LEMMA ReadPrepared ==
    ASSUME NEW p, Read(p), At(call.todo, 1).do = "prepared"
    PROVE  Fitted(p)
<1> DEFINE t == At(call.todo, 1)
           u == At(call.todo, 2)
           rest == Tail(Stream)
           tail == Tail(call.todo)
           e == Task("eof")
<1>1. /\ Front /\ Mine(p) /\ TypeOK /\ Pooled /\ TasksInv /\ call.todo # <<>> /\ p.kind # "readonly"
      /\ CallReads(p) /\ held' = RowsAfter(p) /\ call.err = "running" /\ held \in HeldType
      /\ p.of = OwnerOf(call, held) /\ p.of # 0 /\ p.seq \in 1..210
  BY ReadBasics
<1>2. /\ t = Head(call.todo) /\ Leads(call.name, t, u, At(call.todo, 3))
      /\ u.do = "none" => tail = <<>>
  BY <1>1, TaskFacts
<1> HIDE DEF t, u
<1>3. t.do = "prepared"
  BY DEF t
<1>4. call.name = "Prepare" /\ tail = <<>>
  BY <1>2, <1>3 DEF Leads
<1>5. Prepared(p) /\ held' = held
  <2>1. Head(call.todo).do = "prepared"
    BY <1>2, <1>3
  <2> QED
    BY <1>1, <2>1 DEF CallReads, RowsAfter, Doing
<1>6. /\ rest \in Seq(PacketType) /\ Of(rest, p.of)
      /\ ~Idle(Stream) /\ Silent(net.out) /\ p = Stream[1]
  BY ReadFacts
<1>7. Expected(call, Stream)
  BY <1>1 DEF Mine
<1>8. \/ p.kind \in {"err", "prep0"} /\ Idle(rest)
      \/ p.kind = "prep1" /\ Listing(rest, 1)
      \/ p.kind = "prep2" /\ Listing(rest, 2)
  BY <1>3, <1>4, <1>6, <1>7 DEF Expected, AtPrepared, t
<1> HIDE DEF rest, tail
<1>9. CASE p.kind \in {"err", "prep0"} /\ Idle(rest)
  <2>1. Return("mysql") \/ Return("nil")
    BY <1>1, <1>4, <1>5, <1>9, GoIs DEF Prepared, ErrorOf, tail
  <2> QED
    BY <1>1, <1>9, <2>1, ReturnIdle DEF rest
<1>10. e \in TaskType /\ e.do = "eof"
  BY TaskTyped, TaskIs DEF Tasks, Reading
<1> HIDE DEF e
<1>11. ASSUME NEW x \in {<<e>>, <<e, e>>}, Go(x), Listing(rest, Len(x))
       PROVE  Fitted(p)
  <2>1. x # <<>> /\ At(x, 1) = e
    <3>1. At(<<e>>, 1) = e /\ At(<<e, e>>, 1) = e
      BY DEF At
    <3>2. <<e>> # <<>> /\ <<e, e>> # <<>>
      OBVIOUS
    <3> QED
      BY <1>11, <3>1, <3>2
  <2>2. call'.todo = x /\ call'.err = "running" /\ call'.name = call.name /\ call'.n = call.n
    BY <1>1, <1>11, <2>1, GoIs
  <2>3. At(call'.todo, 1).do = "eof"
    BY <1>10, <2>1, <2>2
  <2>4. OwnerOf(call', held') = p.of
    BY <1>1, <1>5, <2>2 DEF OwnerOf
  <2>5. Expected(call', rest)
    BY <1>4, <1>11, <2>2, <2>3 DEF Expected
  <2>6. Reads(call', held', mc', net.out, rest)
    BY <1>6, <2>4, <2>5, SilentIsAlone DEF Reads
  <2>7. Fits(call', held', mc', net.out, rest)
    BY <2>2, <2>3, <2>6, ReadingFits DEF Reading
  <2> QED
    BY <2>3, <2>7 DEF Fitted, IsFile, rest
<1>12. CASE p.kind = "prep1" /\ Listing(rest, 1)
  <2>1. Go(<<e>> \o tail)
    BY <1>5, <1>12 DEF Prepared, e, tail
  <2>2. <<e>> \o <<>> = <<e>> /\ Len(<<e>>) = 1
    BY <1>10
  <2> QED
    BY <1>4, <1>11, <1>12, <2>1, <2>2
<1>13. CASE p.kind = "prep2" /\ Listing(rest, 2)
  <2>1. Go(<<e, e>> \o tail)
    BY <1>5, <1>13 DEF Prepared, e, tail
  <2>2. <<e, e>> \o <<>> = <<e, e>> /\ Len(<<e, e>>) = 2
    BY <1>10
  <2> QED
    BY <1>4, <1>11, <1>13, <2>1, <2>2
<1> QED
  BY <1>8, <1>9, <1>12, <1>13

-----------------------------------------------------------------------------
LEMMA LengthIs ==
    ASSUME NEW S, NEW x \in Seq(S), x # <<>>
    PROVE  /\ Tail(x) = <<>> => Len(x) = 1
           /\ Tail(x) # <<>> /\ Tail(Tail(x)) = <<>> => Len(x) = 2 /\ Len(Tail(x)) = 1
<1>1. Len(<<>>) = 0
  OBVIOUS
<1>2. ASSUME NEW a \in Nat, NEW b, b = a - 1, b \in {0, 1}
      PROVE  a = b + 1
  BY <1>2
<1>3. ASSUME NEW y \in Seq(S), y # <<>>
      PROVE  Len(Tail(y)) = Len(y) - 1 /\ Len(y) \in Nat /\ Tail(y) \in Seq(S)
  BY <1>3
<1>4. ASSUME NEW y \in Seq(S), y # <<>>, Tail(y) = <<>>
      PROVE  Len(y) = 1
  <2>1. Len(Tail(y)) = 0
    BY <1>1, <1>4, Zenon
  <2>2. Len(y) = 0 + 1
    BY <1>2, <1>3, <1>4, <2>1
  <2> QED
    BY <2>2
<1>5. ASSUME Tail(x) # <<>>, Tail(Tail(x)) = <<>>
      PROVE  Len(x) = 2 /\ Len(Tail(x)) = 1
  <2>1. Len(Tail(x)) = 1
    BY <1>3, <1>4, <1>5
  <2>2. Len(x) = 1 + 1
    BY <1>2, <1>3, <2>1
  <2> QED
    BY <2>1, <2>2
<1> QED
  BY <1>4, <1>5

LEMMA ReadListing ==
    ASSUME NEW p, Read(p), At(call.todo, 1).do = "eof", call.name = "Prepare"
    PROVE  Fitted(p)
<1> DEFINE t == At(call.todo, 1)
           u == At(call.todo, 2)
           v == At(call.todo, 3)
           rest == Tail(Stream)
           tail == Tail(call.todo)
<1>1. /\ Front /\ Mine(p) /\ TypeOK /\ Pooled /\ TasksInv /\ call.todo # <<>> /\ p.kind # "readonly"
      /\ CallReads(p) /\ held' = RowsAfter(p) /\ call.err = "running" /\ held \in HeldType
      /\ p.of = OwnerOf(call, held) /\ p.of # 0 /\ p.seq \in 1..210
  BY ReadBasics
<1>2. /\ t = Head(call.todo) /\ Leads(call.name, t, u, v)
      /\ u.do = "none" => tail = <<>>
      /\ u.do # "none" => tail # <<>>
      /\ tail \in Seq(TaskType) /\ call.todo \in Seq(TaskType)
      /\ At(tail, 1) = u /\ At(tail, 2) = v
  BY <1>1, TaskFacts
<1>3. Sound(call, held, tail)
  BY <1>1, RestSound
<1> HIDE DEF t, u, v
<1>5. t.do = "eof"
  BY DEF t
<1>6. u.do \in {"eof", "none"} /\ v.do = "none"
  BY <1>2, <1>5 DEF Leads
<1>7. (u.do = "none" /\ tail = <<>> /\ Len(call.todo) = 1)
      \/ (u.do = "eof" /\ tail # <<>> /\ Len(call.todo) = 2 /\ Len(tail) = 1)
  <2>1. CASE u.do = "none"
    BY <1>1, <1>2, <2>1, LengthIs
  <2>2. CASE u.do = "eof"
    <3>1. tail # <<>> /\ tail \in Seq(TaskType)
      BY <1>2, <2>2
    <3> HIDE DEF tail
    <3>2. Tail(tail) = <<>>
      BY <1>2, <1>3, <1>6, <3>1, LastTask
    <3>3. Len(call.todo) = 2 /\ Len(tail) = 1
      BY <1>1, <1>2, <3>1, <3>2, LengthIs DEF tail
    <3> QED
      BY <2>2, <3>1, <3>3
  <2> QED
    BY <1>6, <2>1, <2>2
<1>8. UntilEOF(p) /\ held' = held
  <2>1. Head(call.todo).do = "eof"
    BY <1>2, <1>5
  <2> QED
    BY <1>1, <2>1 DEF CallReads, RowsAfter, Doing
<1>9. /\ Stream \in Seq(PacketType) /\ rest \in Seq(PacketType) /\ Of(rest, p.of)
      /\ ~Idle(Stream) /\ Silent(net.out) /\ p = Stream[1]
  BY ReadFacts
<1>10. Expected(call, Stream) /\ Stream # <<>> /\ Marked(Stream, net.up)
  BY <1>1 DEF Mine, Front, StreamInv
<1>11. Listing(Stream, Len(call.todo))
  BY <1>5, <1>10 DEF Expected, t
<1>12. /\ p.kind \in {"field", "eof"}
       /\ p.kind = "field" => Listing(rest, Len(call.todo))
       /\ p.kind = "eof" /\ Len(call.todo) = 2 => Listing(rest, 1)
       /\ p.kind = "eof" /\ Len(call.todo) = 1 => Idle(rest)
  <2>1. Len(call.todo) \in {1, 2}
    BY <1>7
  <2> QED
    BY <1>1, <1>9, <1>10, <1>11, <2>1, ListingTail
<1> HIDE DEF rest, tail
<1>13. ASSUME NEW x, x # <<>>, Go(x), At(x, 1).do = "eof", Listing(rest, Len(x))
       PROVE  Fitted(p)
  <2>1. call'.todo = x /\ call'.err = "running" /\ call'.name = call.name /\ call'.n = call.n
    BY <1>1, <1>13, GoIs
  <2>2. At(call'.todo, 1).do = "eof"
    BY <1>13, <2>1
  <2>3. OwnerOf(call', held') = p.of
    BY <1>1, <1>8, <2>1 DEF OwnerOf
  <2>4. Expected(call', rest)
    BY <1>13, <2>1, <2>2 DEF Expected
  <2>5. Reads(call', held', mc', net.out, rest)
    BY <1>9, <2>3, <2>4, SilentIsAlone DEF Reads
  <2>6. Fits(call', held', mc', net.out, rest)
    BY <2>1, <2>2, <2>5, ReadingFits DEF Reading
  <2> QED
    BY <2>2, <2>6 DEF Fitted, IsFile, rest
<1>14. CASE p.kind = "field"
  <2>1. Go(call.todo)
    BY <1>8, <1>14 DEF UntilEOF, IsError
  <2> QED
    BY <1>1, <1>5, <1>12, <1>13, <1>14, <2>1 DEF t
<1>15. CASE p.kind = "eof"
  <2>1. Go(tail)
    BY <1>8, <1>15 DEF UntilEOF, IsError, tail
  <2>2. CASE tail = <<>>
    <3>1. Return("nil") /\ Idle(rest)
      BY <1>1, <1>7, <1>12, <1>15, <2>1, <2>2, GoIs
    <3> QED
      BY <1>1, <3>1, ReturnIdle DEF rest
  <2>3. CASE tail # <<>>
    <3>1. At(tail, 1).do = "eof" /\ Listing(rest, Len(tail))
      BY <1>2, <1>7, <1>12, <1>15, <2>3
    <3> QED
      BY <1>13, <2>1, <2>3, <3>1
  <2> QED
    BY <2>2, <2>3
<1> QED
  BY <1>12, <1>14, <1>15

LEMMA ReadEOF ==
    ASSUME NEW p, Read(p), At(call.todo, 1).do = "eof", call.name # "Prepare"
    PROVE  Fitted(p)
<1> DEFINE t == At(call.todo, 1)
           u == At(call.todo, 2)
           v == At(call.todo, 3)
           rest == Tail(Stream)
           tail == Tail(call.todo)
<1>1. /\ Front /\ Mine(p) /\ TypeOK /\ Pooled /\ TasksInv /\ call.todo # <<>> /\ p.kind # "readonly"
      /\ CallReads(p) /\ held' = RowsAfter(p) /\ call.err = "running" /\ held \in HeldType
      /\ p.of = OwnerOf(call, held) /\ p.of # 0 /\ p.seq \in 1..210
  BY ReadBasics
<1>2. /\ t = Head(call.todo) /\ Leads(call.name, t, u, v)
      /\ u.do # "none" => tail # <<>>
      /\ At(tail, 1) = u /\ At(tail, 2) = v
  BY <1>1, TaskFacts
<1> HIDE DEF t, u, v
<1>3. t.do = "eof"
  BY DEF t
<1>4. u.do = "discard" \/ (u.do = "eof" /\ v.do = "discard")
  BY <1>2, <1>3 DEF Leads
<1>5. UntilEOF(p) /\ held' = held
  <2>1. Head(call.todo).do = "eof"
    BY <1>2, <1>3
  <2> QED
    BY <1>1, <2>1 DEF CallReads, RowsAfter, Doing
<1>6. /\ rest \in Seq(PacketType) /\ Of(rest, p.of) /\ Orderly(rest)
      /\ p.kind \in {"err", "file"} \/ (p.kind = "ok" /\ ~p.flag) => Idle(rest)
      /\ p.kind = "eof" /\ (~p.flag => Idle(rest)) => MoreAt(mc', rest)
      /\ p.kind = "field" /\ p.seq >= 2 => AtColumns(rest)
      /\ p.kind = "eof" /\ ~p.flag /\ p.seq >= 3 => AtRows(rest)
      /\ p.kind = "row" /\ p.seq >= 4 => AtRows(rest)
      /\ Phase(call, Stream) /\ ~Idle(Stream) /\ Silent(net.out) /\ p = Stream[1]
  BY <1>3, ReadFacts DEF t
<1>7. /\ u.do = "eof" => (p.kind = "field" /\ p.seq >= 2) \/ (p.kind = "eof" /\ ~p.flag /\ p.seq >= 3)
      /\ u.do = "discard" =>
            /\ p.seq >= 4 /\ p.kind \in {"row", "err", "eof"}
            /\ p.kind = "eof" /\ ~p.flag => Idle(rest)
  BY <1>3, <1>6 DEF Phase, AtColumns, AtRows, t, u
<1> HIDE DEF rest, tail
<1>8. CASE p.kind = "err"
  <2>1. Return("mysql")
    BY <1>5, <1>8 DEF UntilEOF, IsError, ErrorOf
  <2> QED
    BY <1>1, <1>6, <1>8, <2>1, ReturnIdle DEF rest
<1>9. ASSUME NEW x, x # <<>>, Go(x)
      PROVE  /\ call'.todo = x /\ call'.err = "running" /\ call'.name = call.name /\ call'.name # "Prepare"
             /\ OwnerOf(call', held') = p.of
  <2>1. call'.todo = x /\ call'.err = "running" /\ call'.name = call.name /\ call'.n = call.n
    BY <1>1, <1>9, GoIs
  <2> QED
    BY <1>1, <1>5, <2>1 DEF OwnerOf
<1>10. CASE p.kind \in {"field", "row"}
  <2>1. Go(call.todo)
    BY <1>5, <1>10 DEF UntilEOF, IsError
  <2>2. At(call'.todo, 1) = t /\ At(call'.todo, 2) = u
    BY <1>1, <1>9, <2>1 DEF t, u
  <2>3. Phase(call', rest)
    BY <1>3, <1>4, <1>6, <1>7, <1>10, <2>2 DEF Phase
  <2> QED
    BY <1>1, <1>3, <1>6, <1>9, <2>1, <2>2, <2>3, ReadOn DEF Reading, rest
<1>11. CASE p.kind = "eof"
  <2>1. Go(tail) /\ tail # <<>>
    BY <1>2, <1>4, <1>5, <1>11 DEF UntilEOF, IsError, tail
  <2>2. At(call'.todo, 1) = u /\ At(call'.todo, 2) = v
    BY <1>2, <1>9, <2>1
  <2>3. CASE u.do = "eof"
    <3>1. Phase(call', rest)
      BY <1>4, <1>6, <1>7, <1>11, <2>2, <2>3 DEF Phase
    <3> QED
      BY <1>6, <1>9, <2>1, <2>2, <2>3, <3>1, ReadOn DEF Reading, rest
  <2>4. CASE u.do = "discard"
    <3>1. Looks(call', held', mc', net.out, rest)
      BY <1>6, <1>7, <1>9, <1>11, <2>1, <2>4 DEF Looks
    <3>2. Fits(call', held', mc', net.out, rest)
      BY <1>9, <2>1, <2>2, <2>4, <3>1, LookingFits
    <3> QED
      BY <2>2, <2>4, <3>2 DEF Fitted, IsFile, rest
  <2> QED
    BY <1>4, <2>3, <2>4
<1> QED
  BY <1>4, <1>7, <1>8, <1>10, <1>11

-----------------------------------------------------------------------------
(* The header of an answer that has no rows.                               *)
LEMMA HeaderBasics ==
    ASSUME NEW p, Read(p), At(call.todo, 1).do = "header"
    PROVE  /\ Header(p) /\ Doing("header") /\ call.name \notin {"Ping", "Prepare", "Next"}
           /\ p.kind \in {"ok", "err", "result", "file"} /\ p.seq >= 1
           /\ call.name = "StmtQuery" => p.kind # "file" /\ (p.kind = "ok" => ~p.flag)
           /\ call.name \notin QueryLike \/ IsError(p) => held' = held
           /\ call.name \in QueryLike /\ ~IsError(p) =>
                 /\ held'.of = OwnerOf(call, held') /\ held'.of = p.of
                 /\ held'.done = (p.kind # "result")
                 /\ IF call.name = "StmtQuery" /\ p.kind # "result" THEN ~held'.open ELSE held'.open
           /\ OwnerOf(call, held') = p.of
           /\ call.name \notin QueryLike =>
                 /\ At(Tail(call.todo), 1).do = "discard" /\ Tail(call.todo) # <<>>
                 /\ Tail(call.todo) \in Seq(TaskType) /\ Sound(call, held, Tail(call.todo))
<1> DEFINE t == At(call.todo, 1)
           u == At(call.todo, 2)
           rest == Tail(Stream)
           tail == Tail(call.todo)
<1>1. /\ Front /\ Mine(p) /\ TypeOK /\ Pooled /\ TasksInv /\ call.todo # <<>> /\ p.kind # "readonly"
      /\ CallReads(p) /\ held' = RowsAfter(p) /\ call.err = "running" /\ held \in HeldType
      /\ p.of = OwnerOf(call, held) /\ p.of # 0 /\ p.seq \in 1..210
  BY ReadBasics
<1>2. /\ t = Head(call.todo) /\ Leads(call.name, t, u, At(call.todo, 3)) /\ Ready(call, held, t)
      /\ u.do # "none" => tail # <<>>
      /\ At(tail, 1) = u /\ tail \in Seq(TaskType)
  BY <1>1, TaskFacts
<1>17. Sound(call, held, tail)
  BY <1>1, RestSound
<1> HIDE DEF t, u
<1>3. t.do = "header"
  BY DEF t
<1>4. /\ u.do = IF call.name \in QueryLike THEN "none" ELSE "discard"
      /\ call.name \notin {"Ping", "Prepare", "Next"}
  BY <1>2, <1>3 DEF Leads, IsFile
<1>5. Doing("header") /\ Header(p)
  <2>1. Head(call.todo).do = "header"
    BY <1>2, <1>3
  <2> QED
    BY <1>1, <2>1 DEF CallReads, Doing
<1>6. Phase(call, Stream) /\ ~Idle(Stream) /\ p = Stream[1]
  BY <1>3, <1>4, ReadFacts DEF t
<1>7. AtHeader(call, Stream)
  BY <1>3, <1>6 DEF Phase, t
<1>8. /\ p.kind \in {"ok", "err", "result", "file"} /\ p.seq >= 1
      /\ call.name = "StmtQuery" => p.kind # "file" /\ (p.kind = "ok" => ~p.flag)
  BY <1>1, <1>6, <1>7 DEF AtHeader, NextKinds
<1>9. call.name \notin QueryLike \/ IsError(p) => held' = held
  <2>1. Head(call.todo).do = "header"
    BY <1>2, <1>3
  <2> QED
    BY <1>1, <2>1 DEF RowsAfter, Doing, QueryLike
<1>10. ASSUME call.name \in QueryLike, ~IsError(p)
       PROVE  /\ held'.of = OwnerOf(call, held') /\ held'.of = p.of
              /\ held'.done = (p.kind # "result")
              /\ IF call.name = "StmtQuery" /\ p.kind # "result" THEN ~held'.open ELSE held'.open
  <2>1. /\ held'.of = OwnerOf(call, held') /\ held'.done = (p.kind # "result")
        /\ IF call.name = "StmtQuery" /\ p.kind # "result" THEN ~held'.open ELSE held'.open
        /\ call.name = "NextResultSet" => held'.of = held.of
    BY <1>1, <1>5, <1>10, HeldAfterHeader
  <2>2. OwnerOf(call, held') = OwnerOf(call, held)
    BY <1>10, <2>1 DEF OwnerOf, RowCalls, QueryLike
  <2> QED
    BY <1>1, <2>1, <2>2
<1>11. OwnerOf(call, held') = p.of
  <2>1. CASE call.name \in QueryLike /\ ~IsError(p)
    BY <1>10, <2>1
  <2>2. CASE call.name \notin QueryLike \/ IsError(p)
    BY <1>1, <1>9, <2>2
  <2> QED
    BY <2>1, <2>2
<1>12. call.name \notin QueryLike => At(tail, 1).do = "discard" /\ tail # <<>>
  BY <1>2, <1>4
<1> HIDE DEF tail
<1>13. call.name \notin QueryLike =>
          At(tail, 1).do = "discard" /\ tail # <<>> /\ tail \in Seq(TaskType) /\ Sound(call, held, tail)
  BY <1>2, <1>12, <1>17
<1> QED
  BY <1>4, <1>5, <1>8, <1>9, <1>10, <1>11, <1>13 DEF tail

LEMMA HeaderOfNone ==
    ASSUME NEW p, Read(p), At(call.todo, 1).do = "header", p.kind = "ok"
    PROVE  Fitted(p)
<1> DEFINE rest == Tail(Stream)
           tail == Tail(call.todo)
           k == Task("nextResult")
<1>1. /\ Front /\ Mine(p) /\ TypeOK /\ Pooled /\ call.todo # <<>>
      /\ call.err = "running" /\ p.of # 0
  BY ReadBasics
<1>2. /\ Header(p) /\ call.name \notin {"Ping", "Prepare", "Next"}
      /\ call.name = "StmtQuery" => ~p.flag
      /\ call.name \in QueryLike =>
            /\ held'.of = p.of /\ held'.done
            /\ IF call.name = "StmtQuery" THEN ~held'.open ELSE held'.open
      /\ OwnerOf(call, held') = p.of
      /\ call.name \notin QueryLike => At(tail, 1).do = "discard" /\ tail # <<>>
  BY HeaderBasics DEF IsError
<1>3. /\ rest \in Seq(PacketType) /\ Of(rest, p.of) /\ Orderly(rest)
      /\ ~p.flag => Idle(rest)
      /\ MoreAt(mc', rest) /\ Silent(net.out)
  BY <1>2, ReadFacts
<1>4. Go(IF call.name \in QueryLike THEN <<k>> ELSE tail)
  BY <1>2 DEF Header
<1>5. k.do = "nextResult" /\ At(<<k>>, 1) = k /\ <<k>> # <<>>
  BY TaskIs DEF At
<1> HIDE DEF rest, tail, k
<1>6. ASSUME NEW x, x # <<>>, Go(x)
      PROVE  /\ call'.todo = x /\ call'.err = "running" /\ call'.name = call.name
             /\ OwnerOf(call', held') = p.of
  <2>1. call'.todo = x /\ call'.err = "running" /\ call'.name = call.name /\ call'.n = call.n
    BY <1>1, <1>6, GoIs
  <2> QED
    BY <1>2, <2>1 DEF OwnerOf
<1>7. CASE call.name \in QueryLike
  <2>1. /\ call'.todo = <<k>> /\ call'.err = "running" /\ call'.name = call.name
        /\ OwnerOf(call', held') = p.of
    BY <1>4, <1>5, <1>6, <1>7
  <2>2. At(call'.todo, 1).do = "nextResult"
    BY <1>5, <2>1
  <2>3. RowsLeft(held', mc', rest)
    BY <1>2, <1>3, <1>7 DEF RowsLeft
  <2>4. Rest(call', held', mc', rest)
    BY <1>1, <1>2, <1>3, <1>7, <2>1, <2>3 DEF Rest, Runs
  <2>5. Fits(call', held', mc', net.out, rest)
    BY <1>3, <2>1, <2>2, <2>4, StartingFits DEF Starting
  <2> QED
    BY <2>2, <2>5 DEF Fitted, IsFile, rest
<1>8. CASE call.name \notin QueryLike
  <2>1. /\ call'.todo = tail /\ call'.err = "running" /\ OwnerOf(call', held') = p.of
    BY <1>2, <1>4, <1>6, <1>8
  <2>2. At(call'.todo, 1).do = "discard"
    BY <1>2, <1>8, <2>1
  <2>3. Looks(call', held', mc', net.out, rest)
    BY <1>3, <2>1 DEF Looks
  <2>4. Fits(call', held', mc', net.out, rest)
    BY <2>1, <2>2, <2>3, LookingFits
  <2> QED
    BY <2>2, <2>4 DEF Fitted, IsFile, rest
<1> QED
  BY <1>7, <1>8

LEMMA HeaderOfFile ==
    ASSUME NEW p, Read(p), At(call.todo, 1).do = "header", p.kind = "file"
    PROVE  Fitted(p) /\ IsFile(At(call'.todo, 1))
<1> DEFINE tail == Tail(call.todo)
           k == Task("nextResult")
           rest == IF call.name \in QueryLike THEN <<k>> ELSE tail
<1>1. /\ Front /\ Mine(p) /\ TypeOK /\ Pooled /\ call.todo # <<>>
      /\ call.err = "running" /\ p.of # 0
  BY ReadBasics
<1>2. /\ Header(p) /\ call.name \notin {"Ping", "Prepare", "Next"} /\ call.name # "StmtQuery"
      /\ call.name \notin QueryLike => held' = held
      /\ call.name \in QueryLike => held'.of = p.of /\ held'.done /\ held'.open
      /\ OwnerOf(call, held') = p.of
      /\ call.name \notin QueryLike =>
            /\ At(tail, 1).do = "discard" /\ tail # <<>>
            /\ tail \in Seq(TaskType) /\ Sound(call, held, tail)
  BY HeaderBasics DEF IsError
<1>3. Idle(Tail(Stream))
  BY <1>2, ReadFacts
<1>4. k.do = "nextResult" /\ At(<<k>>, 1) = k /\ k \in TaskType /\ <<k>> \in Seq(TaskType)
  BY TaskIs, TaskTyped DEF At, Tasks
<1>5. SendFile(rest)
  BY <1>2 DEF Header
<1> HIDE DEF tail, k
<1>6. /\ rest \in Seq(TaskType) /\ Sound(call, held', rest)
      /\ At(rest, 1).do = IF call.name \in QueryLike THEN "nextResult" ELSE "discard"
  <2>1. CASE call.name \in QueryLike
    <3>1. Leads(call.name, k, None, None)
      BY <1>4, <2>1, TaskIs DEF Leads, IsFile, None
    <3>2. Ready(call, held', k)
      BY <1>1, <1>2, <1>4, <2>1 DEF Ready, Sends
    <3>3. Sound(call, held', <<k>>)
      BY <3>1, <3>2, SoundOne
    <3> QED
      BY <1>4, <2>1, <3>3
  <2>2. CASE call.name \notin QueryLike
    BY <1>2, <2>2
  <2> QED
    BY <2>1, <2>2
<1> HIDE DEF rest
<1>7. PICK x : Go(x) /\ x # <<>> /\ At(x, 1).do = "write" /\ At(x, 1).first /\ IsFile(At(x, 1))
  <2>1. call.name \in QueryLike => held'.done /\ (IF call.name = "StmtQuery" THEN ~held'.open ELSE held'.open)
    BY <1>2
  <2> QED
    BY <1>1, <1>2, <1>5, <1>6, <2>1, SendFileSound
<1>8. call'.todo = x
  BY <1>1, <1>7, GoIs
<1>9. Fits(call', held', mc', net.out, Tail(Stream))
  BY <1>1, <1>3, <1>7, <1>8, ReadIdle
<1> QED
  BY <1>7, <1>8, <1>9 DEF Fitted

LEMMA HeaderOfResult ==
    ASSUME NEW p, Read(p), At(call.todo, 1).do = "header", p.kind = "result"
    PROVE  Fitted(p)
<1> DEFINE rest == Tail(Stream)
           tail == Tail(call.todo)
           l == Task("columns")
           e == Task("eof")
<1>1. /\ Front /\ Mine(p) /\ TypeOK /\ Pooled /\ call.todo # <<>>
      /\ call.err = "running" /\ p.of # 0
  BY ReadBasics
<1>2. /\ Header(p) /\ call.name \notin {"Ping", "Prepare", "Next"}
      /\ OwnerOf(call, held') = p.of
      /\ call.name \notin QueryLike => tail \in Seq(TaskType)
  BY HeaderBasics DEF IsError
<1>3. Orderly(rest) /\ AtColumns(rest)
  BY <1>2, ReadFacts
<1>4. Go(IF call.name \in QueryLike THEN <<l>> ELSE <<e, e>> \o tail)
  BY <1>2 DEF Header
<1>5. /\ l.do = "columns" /\ At(<<l>>, 1) = l /\ <<l>> # <<>>
      /\ e.do = "eof" /\ e \in TaskType
  BY TaskIs, TaskTyped DEF At, Tasks, Reading
<1> HIDE DEF rest, tail, l, e
<1>6. ASSUME NEW x, x # <<>>, Go(x)
      PROVE  /\ call'.todo = x /\ call'.err = "running" /\ call'.name = call.name
             /\ OwnerOf(call', held') = p.of
  <2>1. call'.todo = x /\ call'.err = "running" /\ call'.name = call.name /\ call'.n = call.n
    BY <1>1, <1>6, GoIs
  <2> QED
    BY <1>2, <2>1 DEF OwnerOf
<1>7. CASE call.name \in QueryLike
  <2>1. /\ call'.todo = <<l>> /\ call'.err = "running" /\ call'.name = call.name
        /\ OwnerOf(call', held') = p.of
    BY <1>4, <1>5, <1>6, <1>7
  <2>2. At(call'.todo, 1).do = "columns"
    BY <1>5, <2>1
  <2>3. Phase(call', rest)
    BY <1>3, <2>2 DEF Phase
  <2> QED
    BY <1>2, <1>3, <2>1, <2>2, <2>3, ReadOn DEF Reading, rest
<1>8. CASE call.name \notin QueryLike
  <2> DEFINE y == <<e>> \o tail
  <2>1. y \in Seq(TaskType) /\ At(y, 1) = e
    BY <1>2, <1>5, <1>8, AtCons
  <2>2. <<e, e>> \o tail = <<e>> \o y
    <3>1. tail \in Seq(TaskType) /\ e \in TaskType
      BY <1>2, <1>5, <1>8
    <3> QED
      BY <3>1, PairCons, SMTT(30)
  <2> HIDE DEF y
  <2> DEFINE x == <<e>> \o y
  <2>3. x # <<>> /\ At(x, 1) = e /\ At(x, 1 + 1) = At(y, 1)
    BY <1>5, <2>1, AtCons
  <2>8. Go(x)
    BY <1>4, <1>8, <2>2
  <2> HIDE DEF x
  <2>4. /\ call'.todo = x /\ call'.err = "running" /\ call'.name = call.name
        /\ OwnerOf(call', held') = p.of
    BY <1>6, <2>3, <2>8
  <2>5. At(call'.todo, 1).do = "eof" /\ At(call'.todo, 2).do = "eof"
    BY <1>5, <2>1, <2>3, <2>4
  <2>6. Phase(call', rest)
    BY <1>3, <2>5 DEF Phase
  <2> QED
    BY <1>2, <1>3, <2>4, <2>5, <2>6, ReadOn DEF Reading, rest
<1> QED
  BY <1>7, <1>8

LEMMA ReadHeader ==
    ASSUME NEW p, Read(p), At(call.todo, 1).do = "header"
    PROVE  Fitted(p)
<1>1. Front /\ Mine(p)
  BY ReadBasics
<1>2. Header(p) /\ p.kind \in {"ok", "err", "result", "file"} /\ call.name # "Prepare"
  BY HeaderBasics
<1>3. CASE p.kind = "err"
  <2>1. Return("mysql")
    BY <1>2, <1>3 DEF Header, ErrorOf
  <2>2. Idle(Tail(Stream))
    BY <1>2, <1>3, ReadFacts
  <2> QED
    BY <1>1, <2>1, <2>2, ReturnIdle
<1> QED
  BY <1>2, <1>3, HeaderOfNone, HeaderOfFile, HeaderOfResult

-----------------------------------------------------------------------------
(* A packet is read, whatever it is.                                       *)

Among(t, s) == \A i \in 1..Len(t) : \E j \in 1..Len(s) : t[i] = s[j]

LEMMA NumbersKept ==
    ASSUME NumbersInv, mc'.sequence <= 240, Among(net'.out, net.out), Among(Stream', Stream),
           IsFile(First') => mc'.sequence <= IF First'.cmd = "content" THEN 111 ELSE 112,
           First'.do \in Reading \cup {"discard", "more"} => mc'.sequence >= 1,
           held'.of # 0 /\ Reported' /\ ~mc'.closed => mc'.sequence >= 1
    PROVE  NumbersInv'
<1> DEFINE Command(a) ==
              /\ a.of # 0 /\ a.cmd \notin {"ssl", "response", "secret"}
              /\ Asks(a) => a.seq <= IF a.cmd = "empty" THEN 112 ELSE 1
           LowNumber(q) == q.of # 0 => q.seq \in 1..210 /\ (q.kind = "file" => q.seq <= 110)
<1>1. /\ \A i \in 1..Len(net.out) : Command(net.out[i])
      /\ \A i \in 1..Len(Stream) : LowNumber(Stream[i])
  BY DEF NumbersInv
<1> HIDE DEF Command, LowNumber
<1>2. \A i \in 1..Len(net'.out) : Command(net'.out[i])
  BY <1>1 DEF Among
<1>3. \A i \in 1..Len(Stream') : LowNumber(Stream'[i])
  BY <1>1 DEF Among
<1> USE DEF Command, LowNumber
<1>4. Columns <= 25
  BY DEF NumbersInv
<1> QED
  BY <1>2, <1>3, <1>4 DEF NumbersInv

LEMMA ReadsFitted ==
    ASSUME NEW p, Read(p), Head(call.todo).do \in Reading
    PROVE  Fitted(p)
<1>1. /\ TypeOK /\ Pooled /\ TasksInv /\ call.todo # <<>>
  BY ReadBasics
<1>2. /\ At(call.todo, 1) = Head(call.todo)
      /\ Leads(call.name, At(call.todo, 1), At(call.todo, 2), At(call.todo, 3))
  BY <1>1, TaskFacts
<1>3. At(call.todo, 1).do \in {"ok", "any", "header", "eof", "drain", "columns", "row", "prepared"}
  BY <1>2 DEF Leads, Reading
<1> QED
  BY <1>3, ReadOk, ReadAny, ReadHeader, ReadListing, ReadEOF, ReadDrain, ReadColumns, ReadRow, ReadPrepared

(* The connection to a read-only server is closed.                         *)
LEMMA ReadOnlyFits ==
    ASSUME Front, NEW p, Mine(p), p.kind = "readonly", call.todo # <<>>, Head(call.todo).do \in Reading,
           CallReads(p), NEW h, NEW m, NEW o, NEW s
    PROVE  Fits(call', h, m, o, s) /\ ~IsFile(At(call'.todo, 1))
<1>1. TypeOK /\ Pooled /\ TasksInv /\ call.err = "running"
  BY DEF Front, Mine
<1>2. /\ At(call.todo, 1) = Head(call.todo)
      /\ Leads(call.name, At(call.todo, 1), At(call.todo, 2), At(call.todo, 3))
  BY <1>1, TaskFacts
<1>3. Head(call.todo).do \in {"ok", "any", "header", "eof", "drain", "columns", "row", "prepared"}
  BY <1>2 DEF Leads, Reading
<1>4. Return("badconn") \/ Return("file")
  BY <1>3 DEF CallReads, Doing, ErrorOf, IsError, Header, UntilEOF, Row, Prepared
<1>5. Fits(call', h, m, o, s)
  BY <1>1, <1>4, DeadFits DEF Dead
<1>6. call'.todo = AtReturn(call.name, call'.err) /\ call.name # "Connect"
  BY <1>1, <1>4, ReturnIs DEF Pooled
<1>7. At(call'.todo, 1).do \in {"none", "finish"}
  BY <1>6, ReturnFirst
<1> QED
  BY <1>5, <1>7 DEF IsFile

LEMMA ReadNoFile ==
    ASSUME Front
    PROVE  NoFileAsked
<1> SUFFICES ASSUME call.name = "StmtQuery", Doing("header"), NEW r \in Arrivals, InSequence(r.pkt)
             PROVE  r.pkt.kind # "file"
  BY DEF NoFileAsked
<1>1. call.todo # <<>> /\ Head(call.todo).do = "header"
  BY DEF Doing
<1>2. Mine(r.pkt)
  BY <1>1, ArrivalMine DEF Reading
<1>3. At(call.todo, 1) = Head(call.todo)
  BY <1>1, TaskFacts DEF Front
<1>4. AtHeader(call, Stream) /\ ~Idle(Stream) /\ r.pkt = Stream[1]
  BY <1>1, <1>2, <1>3 DEF Mine, Expected, Phase, Idle
<1> QED
  BY <1>4 DEF AtHeader

(* What is left when a packet has been taken off.                          *)
LEMMA ArrivalLeaves ==
    ASSUME Front, NEW r \in Arrivals, net' = r.net \/ net' = Dropped(r.net)
    PROVE  /\ net' = r.net => Stream' = Tail(Stream)
           /\ Stream' \in Seq(PacketType) /\ Stream # <<>> /\ r.pkt = Stream[1]
           /\ Part(Stream', Tail(Stream)) /\ Among(Stream', Stream)
           /\ BufferInv' /\ Marked(Stream', net'.up) /\ net'.out = net.out /\ net'.up = net.up
<1> DEFINE buf == r.net.buf
           wire == r.net.wire
           rest == Tail(Stream)
<1>1. /\ TypeOK /\ BufferInv /\ Marked(Stream, net.up)
      /\ Stream \in Seq(PacketType)
  BY StreamTyped DEF Front, StreamInv
<1>2. /\ Stream # <<>> /\ r.pkt = Stream[1] /\ r.net \in NetType
      /\ buf \in Seq(PacketType) /\ wire \in Seq(PacketType)
      /\ buf \o wire = rest
      /\ r.net.up = net.up /\ r.net.out = net.out
      /\ \A i \in 1..Len(buf) :
            \/ \E j \in 1..Len(net.buf) : buf[i] = net.buf[j]
            \/ Len(net.wire) > 1 /\ \E j \in 1..Len(net.wire) : buf[i] = net.wire[j]
      /\ \A i \in 1..Len(wire) :
            Len(wire) <= Len(net.wire) /\ \E j \in 1..Len(net.wire) : wire[i] = net.wire[j]
  BY <1>1, ArrivalIs
<1>3. Dropped(r.net).buf = buf /\ Dropped(r.net).wire = <<>> /\ Dropped(r.net).up = net.up /\ Dropped(r.net).out = net.out
  BY <1>2 DEF Dropped, NetType
<1>4. net'.buf = buf /\ (net'.wire = wire \/ net'.wire = <<>>) /\ net'.up = net.up /\ net'.out = net.out
      /\ (net' = r.net => net'.wire = wire)
  BY <1>2, <1>3
<1>5. /\ rest \in Seq(PacketType) /\ Marked(rest, net.up) /\ Len(rest) \in Nat
      /\ \A i \in 1..Len(rest) : rest[i] = Stream[i + 1] /\ i + 1 \in 1..Len(Stream)
  BY <1>1, <1>2, MarkedTail, SeqBasics
<1> HIDE DEF buf, wire, rest
<1>6. Stream' = buf \o net'.wire
  BY <1>4 DEF Stream
<1>7. /\ Stream' \in Seq(PacketType) /\ Part(Stream', rest)
      /\ net' = r.net => Stream' = rest
  <2>1. CASE net'.wire = wire
    <3>1. Stream' = rest
      BY <1>2, <1>6, <2>1
    <3> QED
      BY <1>5, <3>1 DEF Part
  <2>2. CASE net'.wire = <<>> /\ net'.wire # wire
    <3>1. Stream' = buf /\ net' # r.net
      BY <1>2, <1>4, <1>6, <2>2, ConcatEmptySeq
    <3>2. Len(buf) <= Len(buf \o wire) /\ \A i \in 1..Len(buf) : (buf \o wire)[i] = buf[i]
      BY <1>2, ConcatIs
    <3> QED
      BY <1>2, <3>1, <3>2 DEF Part
  <2> QED
    BY <1>4, <2>1, <2>2
<1>8. Among(Stream', Stream)
  <2> DEFINE x == Stream'
  <2>1. Len(x) <= Len(rest) /\ (\A i \in 1..Len(x) : x[i] = rest[i]) /\ Len(x) \in Nat
    BY <1>7, SeqBasics DEF Part
  <2> HIDE DEF x
  <2>2. ASSUME NEW i \in 1..Len(x) PROVE \E j \in 1..Len(Stream) : x[i] = Stream[j]
    <3>1. i \in 1..Len(rest) /\ x[i] = rest[i]
      BY <1>5, <2>1
    <3> QED
      BY <1>5, <3>1
  <2>3. Among(x, Stream)
    BY <2>2 DEF Among
  <2> QED
    BY <2>3 DEF x
<1>9. BufferInv'
  <2>1. \A i \in 1..Len(buf) : buf[i].of # 0
    <3> SUFFICES ASSUME NEW i \in 1..Len(buf) PROVE buf[i].of # 0
      OBVIOUS
    <3>1. CASE \E j \in 1..Len(net.buf) : buf[i] = net.buf[j]
      BY <1>1, <3>1 DEF BufferInv
    <3>2. CASE Len(net.wire) > 1 /\ \E j \in 1..Len(net.wire) : buf[i] = net.wire[j]
      <4>1. PICK j \in 1..Len(net.wire) : buf[i] = net.wire[j]
        BY <3>2
      <4>3. Len(net.wire) > 1
        BY <3>2
      <4>4. Len(net.wire) \in Nat
        BY <1>1, StreamTyped
      <4>2. Len(net.wire) # 1
        <5> DEFINE n == Len(net.wire)
        <5>1. n \in Nat /\ n > 1
          BY <4>3, <4>4
        <5> HIDE DEF n
        <5>2. n # 1
          BY <5>1
        <5> QED
          BY <5>2 DEF n
      <4> QED
        BY <1>1, <4>1, <4>2 DEF BufferInv
    <3> QED
      BY <1>2, <3>1, <3>2
  <2>2. ASSUME NEW i \in 1..Len(wire), wire[i].of = 0
        PROVE  Len(wire) = 1
    <3>1. Len(wire) <= Len(net.wire) /\ \E j \in 1..Len(net.wire) : wire[i] = net.wire[j]
      BY <1>2
    <3>2. Len(net.wire) = 1
      BY <1>1, <2>2, <3>1 DEF BufferInv
    <3>3. Len(wire) \in Nat /\ Len(wire) <= 1
      BY <1>2, <3>1, <3>2
    <3>4. i \in 1..Len(wire)
      OBVIOUS
    <3> QED
      BY <3>3, <3>4
  <2>3. \A i \in 1..Len(net'.wire) : net'.wire[i].of = 0 => Len(net'.wire) = 1
    <3>1. CASE net'.wire = wire
      BY <2>2, <3>1
    <3>2. CASE net'.wire = <<>>
      BY <3>2
    <3> QED
      BY <1>4, <3>1, <3>2
  <2> QED
    BY <1>4, <2>1, <2>3 DEF BufferInv
<1>10. Marked(Stream', net.up)
  BY <1>5, <1>7, OfMore
<1> QED
  BY <1>2, <1>4, <1>7, <1>8, <1>9, <1>10 DEF rest

LEMMA ReadKeepsStream ==
    ASSUME Front, ReadPacket
    PROVE  StreamInv' /\ NumbersInv'
<1>1. PICK r \in Arrivals :
          /\ InSequence(r.pkt)
          /\ net' = IF r.pkt.kind = "readonly" THEN Dropped(r.net) ELSE r.net
          /\ mc' = ConnAfter(r.pkt)
          /\ held' = RowsAfter(r.pkt)
          /\ CallReads(r.pkt)
  BY DEF ReadPacket
<1> DEFINE p == r.pkt
<1>2. call.todo # <<>> /\ Head(call.todo).do \in Reading
  BY DEF ReadPacket
<1>3. Mine(p)
  BY <1>1, <1>2, ArrivalMine
<1>4. /\ net' = r.net => Stream' = Tail(Stream)
      /\ BufferInv' /\ Marked(Stream', net'.up) /\ net'.out = net.out /\ Among(Stream', Stream)
  BY <1>1, ArrivalLeaves
<1> HIDE DEF p
<1>5. /\ Fits(call', held', mc', net'.out, Stream')
      /\ IsFile(At(call'.todo, 1)) => p.kind = "file"
  <2>1. CASE p.kind = "readonly"
    BY <1>1, <1>2, <1>3, <2>1, ReadOnlyFits DEF p
  <2>2. CASE p.kind # "readonly"
    <3>1. Read(p)
      BY <1>1, <1>2, <1>3, <2>2 DEF Read, p
    <3>2. Fitted(p)
      BY <1>2, <3>1, ReadsFitted
    <3> QED
      BY <1>1, <1>4, <2>2, <3>2 DEF Fitted, p
  <2> QED
    BY <2>1, <2>2
<1>6. StreamInv'
  BY <1>4, <1>5 DEF StreamInv
<1> DEFINE d == Span(p)
<1>7. d \in 1..25 /\ (p.kind = "file" => d = 1)
  <2>1. p.kind = "file" => d = 1
    BY DEF Span
  <2>2. Columns <= 25 /\ 25 \in Nat
    BY <1>3 DEF Mine, Front, NumbersInv
  <2>3. d \in Nat /\ d >= 1 /\ d <= 25
    BY <2>2, Spans
  <2> QED
    BY <2>1, <2>3
<1> HIDE DEF d
<1>8. mc'.sequence = p.seq + d /\ p.seq \in 1..210 /\ (p.kind = "file" => p.seq <= 110)
  <2>1. mc \in ConnType /\ p.seq = mc.sequence /\ p.seq \in 1..210 /\ (p.kind = "file" => p.seq <= 110)
    BY <1>3 DEF Mine, Front, TypeOK
  <2> DEFINE s == (mc.sequence + d) % 256
             more == IF p.kind = "ok" \/ (p.kind = "eof" /\ ~Doing("columns")) THEN p.flag ELSE mc.more
             tls == IF Doing("handshake") THEN Encrypted(p) ELSE mc.tls
             b == mc.closed \/ p.kind = "readonly"
  <2>2. mc' = [mc EXCEPT !.sequence = s, !.more = more, !.tls = tls, !.closed = b]
    BY <1>1 DEF ConnAfter, p, d
  <2>3. s = p.seq + d
    BY <1>7, <2>1
  <2> HIDE DEF s, more, tls, b
  <2>4. mc'.sequence = s
    BY <2>1, <2>2 DEF ConnType
  <2> QED
    BY <2>1, <2>3, <2>4
<1>81. mc'.sequence <= 235 /\ mc'.sequence >= 1 /\ (p.kind = "file" => mc'.sequence <= 111)
  BY <1>7, <1>8
<1>9. /\ mc'.sequence <= 240 /\ mc'.sequence >= 1
      /\ IsFile(First') => mc'.sequence <= IF First'.cmd = "content" THEN 111 ELSE 112
  <2>1. First' = At(call'.todo, 1)
    BY DEF First
  <2>2. IsFile(First') => mc'.sequence <= 111
    BY <1>5, <1>81, <2>1
  <2>3. mc'.sequence <= 240 /\ (mc'.sequence <= 111 => mc'.sequence <= 112)
    BY <1>7, <1>8, <1>81
  <2> QED
    BY <1>81, <2>2, <2>3
<1>10. NumbersInv /\ Among(net'.out, net.out)
  BY <1>4 DEF Front, Among
<1>11. NumbersInv'
  BY <1>4, <1>9, <1>10, NumbersKept
<1> QED
  BY <1>6, <1>11

-----------------------------------------------------------------------------
(* The steps between two packets leave what has arrived as it is.          *)

Stepped ==
    /\ Fits(call', held', mc, net.out, Stream) /\ ~IsFile(At(call'.todo, 1))
    /\ At(call'.todo, 1).do \in Reading \cup {"discard", "more"} => mc.sequence >= 1

LEMMA PairIs ==
    ASSUME NEW S, NEW t \in S, NEW u \in S
    PROVE  <<t>> \o <<u>> = <<t, u>>
<1> DEFINE r == <<>>
<1>3. r \in Seq(S)
  OBVIOUS
<1> HIDE DEF r
<1>4. <<t, u>> \o r = <<t>> \o (<<u>> \o r)
  BY <1>3, PairCons
<1>1. <<t, u>> \o <<>> = <<t>> \o (<<u>> \o <<>>)
  BY <1>4, Zenon DEF r
<1>2. <<t, u>> \in Seq(S) /\ <<u>> \in Seq(S)
  OBVIOUS
<1> QED
  BY <1>1, <1>2, ConcatEmptySeq

LEMMA RestSame ==
    ASSUME NEW c, NEW d, NEW h, NEW m, NEW s, Rest(c, h, m, s),
           d.n = c.n, d.name = c.name, Runs(c) /\ h.of = OwnerOf(c, h) => Runs(d)
    PROVE  Rest(d, h, m, s)
<1>1. OwnerOf(d, h) = OwnerOf(c, h)
  BY DEF OwnerOf
<1> QED
  BY <1>1 DEF Rest

LEMMA FrontFacts ==
    ASSUME Front
    PROVE  /\ TypeOK /\ Pooled /\ TasksInv /\ WatchInv /\ NumbersInv
           /\ Stream \in Seq(PacketType) /\ Marked(Stream, net.up) /\ BufferInv
           /\ Fits(call, held, mc, net.out, Stream)
           /\ held \in HeldType /\ call \in CallType /\ mc \in ConnType /\ net \in NetType
           /\ call.todo # <<>> => call.n # 0 /\ OwnerOf(call, held) # 0
           /\ held.of = 0 \/ mc.closed \/ mc.sequence >= 1 \/ ~Reported
<1>1. /\ TypeOK /\ Pooled /\ TasksInv /\ WatchInv /\ NumbersInv
      /\ Stream \in Seq(PacketType) /\ Marked(Stream, net.up) /\ BufferInv
      /\ Fits(call, held, mc, net.out, Stream)
      /\ held \in HeldType /\ call \in CallType /\ mc \in ConnType /\ net \in NetType
  BY StreamTyped DEF Front, StreamInv, TypeOK
<1>2. call.todo # <<>> => call.n # 0 /\ OwnerOf(call, held) # 0
  BY <1>1 DEF TasksInv, OwnerOf
<1>3. held.of = 0 \/ mc.closed \/ mc.sequence >= 1 \/ ~Reported
  BY <1>1 DEF NumbersInv
<1> QED
  BY <1>1, <1>2, <1>3

(* A call that fails, and one that ends with nothing left.                 *)
LEMMA SteppedOut ==
    ASSUME Front, NEW err, Return(err),
           \/ call.err = "running" /\ (err \in Dead \/ (err = "ctx" /\ mc.closed))
           \/ Idle(Stream) /\ Silent(net.out)
           \/ /\ call.err = "running" /\ err \in {"nil", "end"} /\ (err = "nil" => call.name # "Prepare")
              /\ mc.closed \/ (Idle(Stream) /\ Silent(net.out))
    PROVE  Stepped
<1>1. /\ TypeOK /\ Pooled /\ Stream \in Seq(PacketType) /\ Marked(Stream, net.up)
  BY FrontFacts
<1>2. call'.todo = AtReturn(call.name, call'.err) /\ call.name # "Connect"
  BY <1>1, ReturnIs DEF Pooled
<1>3. At(call'.todo, 1).do \in {"none", "finish"}
  BY <1>2, ReturnFirst
<1>4. Fits(call', held', mc, net.out, Stream)
  <2>1. CASE Idle(Stream) /\ Silent(net.out)
    BY <1>1, <1>3, <2>1, IdleFits
  <2>2. CASE call.err = "running" /\ (err \in Dead \/ (err = "ctx" /\ mc.closed))
    BY <1>1, <2>2, DeadFits DEF Lost
  <2>3. CASE /\ call.err = "running" /\ err \in {"nil", "end"} /\ (err = "nil" => call.name # "Prepare")
             /\ mc.closed
    BY <1>1, <2>3, ReturnFits DEF Lost
  <2> QED
    BY <2>1, <2>2, <2>3
<1> QED
  BY <1>3, <1>4 DEF Stepped, IsFile, Reading

(* What is left of the rows, when a task is about to look at them.         *)
LEMMA AboutRows ==
    ASSUME Front, call.todo # <<>>, call.err = "running", ~mc.closed,
           At(call.todo, 1).do \in {"next", "nextResult", "closeRows"}
    PROVE  /\ Silent(net.out) /\ Of(Stream, held.of) /\ Orderly(Stream) /\ RowsLeft(held, mc, Stream)
           /\ held.of = OwnerOf(call, held) /\ held.of # 0 /\ mc.sequence >= 1
<1> DEFINE t == At(call.todo, 1)
<1>1. /\ TypeOK /\ Pooled /\ TasksInv /\ Fits(call, held, mc, net.out, Stream)
      /\ OwnerOf(call, held) # 0
      /\ held.of = 0 \/ mc.closed \/ mc.sequence >= 1 \/ ~Reported
  BY FrontFacts
<1>2. Leads(call.name, t, At(call.todo, 2), At(call.todo, 3)) /\ Ready(call, held, t)
  BY <1>1, TaskFacts
<1>3. t.do \in {"next", "nextResult", "closeRows"}
  OBVIOUS
<1> HIDE DEF t
<1>4. /\ t.do = "next" => call.name = "Next"
      /\ t.do = "closeRows" => call.name = "RowsClose"
      /\ t.do = "nextResult" => call.name \in QueryLike /\ held.of = OwnerOf(call, held)
  BY <1>2 DEF Leads, Ready
<1>5. held.of = OwnerOf(call, held) /\ held.of # 0
  BY <1>1, <1>3, <1>4 DEF OwnerOf, RowCalls
<1>6. mc.sequence >= 1
  BY <1>1, <1>5 DEF Reported
<1>7. call.name # "StmtClose"
  BY <1>3, <1>4 DEF QueryLike
<1>8. Runs(call) /\ ~Lost(call, mc)
  BY <1>3, <1>7 DEF Runs, Lost, t
<1>9. Silent(net.out) /\ Rest(call, held, mc, Stream)
  BY <1>1, <1>3, <1>8 DEF Fits, Starting, t
<1> QED
  BY <1>5, <1>6, <1>9 DEF Rest

(* They are read.                                                          *)
LEMMA RowsRead ==
    ASSUME Front, call.todo # <<>>, call.err = "running", ~mc.closed,
           At(call.todo, 1).do \in {"next", "nextResult", "closeRows"},
           call.name # "Prepare", held.open, held' = held,
           NEW todo, Go(todo), todo # <<>>,
           IF held.done THEN At(todo, 1).do \in {"discard", "more"}
           ELSE \/ At(todo, 1).do \in {"drain", "row"}
                \/ At(todo, 1).do = "eof" /\ At(todo, 2).do = "discard"
    PROVE  Stepped
<1>1. /\ Silent(net.out) /\ Of(Stream, held.of) /\ Orderly(Stream) /\ RowsLeft(held, mc, Stream)
      /\ held.of = OwnerOf(call, held) /\ held.of # 0 /\ mc.sequence >= 1
  BY AboutRows
<1>2. /\ call'.todo = todo /\ call'.err = "running" /\ call'.name = call.name /\ call'.n = call.n
  BY GoIs, FrontFacts
<1>3. OwnerOf(call', held') = held.of
  BY <1>1, <1>2 DEF OwnerOf
<1>4. CASE held.done
  <2>1. Looks(call', held', mc, net.out, Stream)
    BY <1>1, <1>3, <1>4 DEF Looks, RowsLeft
  <2>2. Fits(call', held', mc, net.out, Stream)
    BY <1>2, <1>4, <2>1, LookingFits
  <2> QED
    BY <1>1, <1>2, <1>4, <2>2 DEF Stepped, IsFile
<1>5. CASE ~held.done
  <2>1. AtRows(Stream)
    BY <1>1, <1>5 DEF RowsLeft
  <2>2. Phase(call', Stream) /\ At(call'.todo, 1).do \in Reading
    BY <1>2, <1>5, <2>1 DEF Phase, Reading
  <2>3. Reads(call', held', mc, net.out, Stream)
    BY <1>1, <1>2, <1>3, <2>2, SilentIsAlone DEF Reads, Expected
  <2>4. Fits(call', held', mc, net.out, Stream)
    BY <1>2, <2>2, <2>3, ReadingFits
  <2> QED
    BY <1>1, <2>2, <2>4 DEF Stepped, IsFile, Reading
<1> QED
  BY <1>4, <1>5

LEMMA RowsSteps ==
    ASSUME Front, NextRow \/ NextResult \/ CloseRows
    PROVE  Stepped
<1> DEFINE t == At(call.todo, 1)
           r == Task("row")
           d == Task("drain")
           m == Task("more")
           e == Task("eof")
           k == Task("discard")
<1>1. /\ TypeOK /\ Pooled /\ TasksInv /\ call.todo # <<>> /\ held' = held
  BY FrontFacts DEF NextRow, NextResult, CloseRows, Doing
<1>2. /\ t = Head(call.todo) /\ Leads(call.name, t, At(call.todo, 2), At(call.todo, 3))
      /\ Ready(call, held, t)
  BY <1>1, TaskFacts
<1>3. t.do = IF NextRow THEN "next" ELSE IF NextResult THEN "nextResult" ELSE "closeRows"
  BY <1>2 DEF NextRow, NextResult, CloseRows, Doing
<1>4. t.do \in {"next", "nextResult", "closeRows"}
  BY <1>3
<1>5. /\ r.do = "row" /\ d.do = "drain" /\ m.do = "more" /\ e.do = "eof" /\ k.do = "discard"
  BY TaskIs
<1>6. /\ At(<<r>>, 1) = r /\ At(<<m>>, 1) = m /\ At(<<d, m>>, 1) = d
      /\ At(<<e, k>>, 1) = e /\ At(<<e, k>>, 2) = k /\ At(<<k>>, 1) = k
      /\ <<r>> # <<>> /\ <<m>> # <<>> /\ <<d, m>> # <<>> /\ <<e, k>> # <<>> /\ <<k>> # <<>>
  BY DEF At
<1>7. \/ ~held.open /\ (Return("end") \/ (Return("nil") /\ t.do # "next"))
      \/ held.open /\ mc.closed /\ (Return("ctx") \/ Return("invalid"))
      \/ /\ held.open /\ ~mc.closed
         /\ \/ NextRow /\ Go(<<r>>)
            \/ t.do = "nextResult" /\ held.done /\ Go(<<m>>)
            \/ t.do = "nextResult" /\ ~held.done /\ Go(<<d, m>>)
            \/ t.do = "closeRows" /\ held.done /\ Go(<<>> \o <<k>>)
            \/ t.do = "closeRows" /\ ~held.done /\ Go(<<e>> \o <<k>>)
  <2>1. CASE NextRow
    BY <2>1 DEF NextRow, ConnError, r
  <2>2. CASE NextResult /\ ~NextRow
    BY <1>3, <2>2 DEF NextResult, ConnError, ReturnEnd, d, m
  <2>3. CASE CloseRows /\ ~NextResult /\ ~NextRow
    BY <1>3, <2>3 DEF CloseRows, ConnError, e, k
  <2> QED
    BY <2>1, <2>2, <2>3
<1> HIDE DEF t, r, d, m, e, k
<1>8. <<>> \o <<k>> = <<k>> /\ <<e>> \o <<k>> = <<e, k>>
  <2>1. <<k>> \in Seq({k})
    OBVIOUS
  <2>2. <<>> \o <<k>> = <<k>>
    BY <2>1, ConcatEmptySeq
  <2>3. e \in TaskType /\ k \in TaskType
    BY TaskTyped DEF Tasks, Reading, e, k
  <2>4. <<e>> \o <<k>> = <<e, k>>
    BY <2>3, PairIs, SMTT(30)
  <2> QED
    BY <2>2, <2>4
<1>9. /\ call.err = "running" /\ call.name # "Prepare"
      /\ t.do = "next" => ~held.done
  BY <1>2, <1>4 DEF Leads, Ready, QueryLike
<1>10. CASE ~held.open /\ (Return("end") \/ (Return("nil") /\ t.do # "next"))
  <2>1. CASE mc.closed
    BY <1>9, <1>10, <2>1, SteppedOut
  <2>2. CASE ~mc.closed
    <3>1. Silent(net.out) /\ RowsLeft(held, mc, Stream)
      BY <1>1, <1>4, <1>9, <2>2, AboutRows DEF t
    <3>2. Idle(Stream)
      BY <1>10, <3>1 DEF RowsLeft
    <3> QED
      BY <1>10, <3>1, <3>2, SteppedOut
  <2> QED
    BY <2>1, <2>2
<1>11. CASE held.open /\ mc.closed /\ (Return("ctx") \/ Return("invalid"))
  BY <1>9, <1>11, SteppedOut DEF Dead
<1>12. ASSUME held.open, ~mc.closed, NEW todo, Go(todo), todo # <<>>,
              IF held.done THEN At(todo, 1).do \in {"discard", "more"}
              ELSE \/ At(todo, 1).do \in {"drain", "row"}
                   \/ At(todo, 1).do = "eof" /\ At(todo, 2).do = "discard"
       PROVE  Stepped
  BY <1>1, <1>4, <1>9, <1>12, RowsRead DEF t
<1>13. CASE held.open /\ ~mc.closed /\ NextRow /\ Go(<<r>>)
  <2>1. ~held.done
    BY <1>3, <1>9, <1>13
  <2> QED
    BY <1>5, <1>6, <1>12, <1>13, <2>1
<1>14. CASE held.open /\ ~mc.closed /\ t.do = "nextResult" /\ held.done /\ Go(<<m>>)
  BY <1>5, <1>6, <1>12, <1>14
<1>15. CASE held.open /\ ~mc.closed /\ t.do = "nextResult" /\ ~held.done /\ Go(<<d, m>>)
  BY <1>5, <1>6, <1>12, <1>15
<1>16. CASE held.open /\ ~mc.closed /\ t.do = "closeRows" /\ held.done /\ Go(<<k>>)
  BY <1>5, <1>6, <1>12, <1>16
<1>17. CASE held.open /\ ~mc.closed /\ t.do = "closeRows" /\ ~held.done /\ Go(<<e, k>>)
  BY <1>5, <1>6, <1>12, <1>17
<1> QED
  BY <1>7, <1>8, <1>10, <1>11, <1>13, <1>14, <1>15, <1>16, <1>17

-----------------------------------------------------------------------------
(* A command is about to be written.                                       *)
LEMMA OpenStepped ==
    ASSUME Front, Open \/ TakeBuffer
    PROVE  Stepped
<1> DEFINE t == At(call.todo, 1)
           u == At(call.todo, 2)
           tail == Tail(call.todo)
<1>1. /\ TypeOK /\ Pooled /\ TasksInv /\ call.todo # <<>> /\ held' = held
      /\ Fits(call, held, mc, net.out, Stream)
  BY FrontFacts DEF Open, TakeBuffer, Doing
<1>2. /\ t = Head(call.todo) /\ Leads(call.name, t, u, At(call.todo, 3)) /\ Ready(call, held, t)
      /\ u.do # "none" => tail # <<>>
      /\ At(tail, 1) = u
  BY <1>1, TaskFacts
<1>3. t.do \in {"open", "buffer"}
  BY <1>2 DEF Open, TakeBuffer, Doing
<1> HIDE DEF t, u
<1>4. call.err = "running" /\ (Starts(u) \/ u.do = "buffer")
  BY <1>2, <1>3 DEF Leads, Ready
<1>5. Return("invalid") \/ Return("badconn") \/ Return("nowrite") \/ Go(tail)
  BY DEF Open, TakeBuffer, tail
<1> HIDE DEF tail
<1>6. CASE Return("invalid") \/ Return("badconn") \/ Return("nowrite")
  BY <1>4, <1>6, SteppedOut DEF Dead
<1>7. CASE Go(tail)
  <2>1. tail # <<>>
    BY <1>2, <1>4 DEF Starts
  <2>2. /\ call'.todo = tail /\ call'.err = "running" /\ call'.name = call.name /\ call'.n = call.n
    BY <1>1, <1>4, <1>7, <2>1, GoIs
  <2>3. At(call'.todo, 1) = u
    BY <1>2, <2>2
  <2>4. Runs(call) /\ Runs(call')
    BY <1>1, <1>4, <2>1, <2>2 DEF Runs
  <2>5. ~Lost(call', mc) => ~Lost(call, mc)
    BY <1>3, <1>4, <2>2 DEF Lost, t
  <2>6. ~Lost(call', mc) => Silent(net.out) /\ Rest(call, held, mc, Stream)
    BY <1>1, <1>3, <2>4, <2>5 DEF Fits, Starting, t
  <2>7. ~Lost(call', mc) => Silent(net.out) /\ Rest(call', held', mc, Stream)
    BY <1>1, <2>2, <2>4, <2>6, RestSame
  <2>8. Fits(call', held', mc, net.out, Stream)
    BY <1>4, <2>2, <2>3, <2>7, StartingFits DEF Starts, Starting, IsFile
  <2> QED
    BY <1>4, <2>3, <2>8 DEF Stepped, Starts, IsFile, Reading
<1> QED
  BY <1>5, <1>6, <1>7

(* After a result that another may follow.                                 *)
LEMMA LooksOn ==
    ASSUME Front, call.todo # <<>>, call.err = "running", Looks(call, held, mc, net.out, Stream),
           call.name \notin {"Prepare", "StmtQuery"}, mc.more,
           NEW todo, todo # <<>>, Go(todo), At(todo, 1).do = "header", held'.of = held.of,
           mc.sequence >= 1
    PROVE  Stepped
<1>1. /\ TypeOK /\ NumbersInv /\ Stream \in Seq(PacketType)
  BY FrontFacts
<1>2. /\ call'.todo = todo /\ call'.err = "running" /\ call'.name = call.name /\ call'.n = call.n
  BY <1>1, GoIs
<1>3. Silent(net.out) /\ Of(Stream, OwnerOf(call, held)) /\ Orderly(Stream) /\ MoreAt(mc, Stream)
  BY DEF Looks
<1>4. OwnerOf(call', held') = OwnerOf(call, held)
  BY <1>2 DEF OwnerOf
<1>5. AtHeader(call', Stream)
  <2>1. CASE Idle(Stream)
    BY <2>1 DEF AtHeader
  <2>2. CASE ~Idle(Stream)
    <3>1. Stream # <<>> /\ Stream[1].of # 0 /\ Stream[1].kind \in NextKinds
      BY <1>3, <2>2 DEF Idle, MoreAt
    <3>2. 1 \in 1..Len(Stream)
      BY <1>1, <3>1, SeqBasics
    <3>3. Stream[1].seq \in 1..210
      BY <1>1, <3>1, <3>2 DEF NumbersInv
    <3>4. Stream[1].seq >= 1
      <4> DEFINE n == Stream[1].seq
      <4>1. n \in 1..210
        BY <3>3
      <4> HIDE DEF n
      <4>2. n >= 1
        BY <4>1
      <4> QED
        BY <4>2 DEF n
    <3> QED
      BY <1>2, <3>1, <3>4 DEF AtHeader, NextKinds
  <2> QED
    BY <2>1, <2>2
<1>6. Phase(call', Stream)
  BY <1>2, <1>5 DEF Phase
<1>7. Reads(call', held', mc, net.out, Stream)
  BY <1>2, <1>3, <1>4, <1>6, SilentIsAlone DEF Reads, Expected
<1>8. Fits(call', held', mc, net.out, Stream)
  BY <1>2, <1>7, ReadingFits DEF Reading
<1> QED
  BY <1>2, <1>8 DEF Stepped, IsFile

LEMMA DiscardStepped ==
    ASSUME Front, Discard
    PROVE  Stepped
<1> DEFINE t == At(call.todo, 1)
           u == At(call.todo, 2)
           tail == Tail(call.todo)
           k == Task("header")
<1>1. /\ TypeOK /\ Pooled /\ TasksInv /\ NumbersInv /\ call.todo # <<>> /\ held' = held
      /\ Stream \in Seq(PacketType) /\ Marked(Stream, net.up)
      /\ Fits(call, held, mc, net.out, Stream)
  BY FrontFacts DEF Discard, Doing
<1>2. /\ t = Head(call.todo) /\ Leads(call.name, t, u, At(call.todo, 3)) /\ Ready(call, held, t)
      /\ u.do = "none" => tail = <<>>
      /\ u.do # "none" => tail # <<>>
      /\ At(tail, 1) = u /\ call.todo \in Seq(TaskType)
  BY <1>1, TaskFacts
<1>3. t.do = "discard"
  BY <1>2 DEF Discard, Doing
<1>4. Looks(call, held, mc, net.out, Stream) /\ mc.sequence >= 1
  BY <1>1, <1>3 DEF Fits, NumbersInv, First
<1> HIDE DEF t, u
<1>5. /\ call.err = "running" /\ call.name \notin {"Prepare", "StmtQuery"}
      /\ u.do \in {"open", "none"}
  BY <1>2, <1>3 DEF Leads, Ready, QueryLike
<1>6. CASE mc.more
  <2>1. Go(<<k>> \o call.todo)
    BY <1>6 DEF Discard
  <2>2. k \in TaskType /\ k.do = "header"
    BY TaskIs, TaskTyped DEF Tasks, Reading
  <2> HIDE DEF k
  <2>3. At(<<k>> \o call.todo, 1) = k /\ <<k>> \o call.todo # <<>>
    BY <1>2, <2>2, AtCons
  <2> DEFINE x == <<k>> \o call.todo
  <2>4. Go(x) /\ x # <<>> /\ At(x, 1).do = "header"
    BY <2>1, <2>2, <2>3
  <2> HIDE DEF x
  <2> QED
    BY <1>1, <1>4, <1>5, <1>6, <2>4, LooksOn
<1>7. CASE ~mc.more
  <2>1. Go(tail)
    BY <1>7 DEF Discard
  <2>2. Idle(Stream) /\ Silent(net.out)
    BY <1>4, <1>7 DEF Looks, MoreAt
  <2> HIDE DEF tail
  <2>3. CASE tail = <<>>
    <3>1. Return("nil")
      BY <1>1, <2>1, <2>3, GoIs
    <3> QED
      BY <2>2, <3>1, SteppedOut
  <2>4. CASE tail # <<>>
    <3>1. call'.todo = tail
      BY <1>1, <2>1, <2>4, GoIs
    <3>2. At(call'.todo, 1).do = "open"
      BY <1>2, <1>5, <2>4, <3>1
    <3>3. Fits(call', held', mc, net.out, Stream)
      BY <1>1, <2>2, <3>2, IdleFits
    <3> QED
      BY <3>2, <3>3 DEF Stepped, IsFile, Reading
  <2> QED
    BY <2>3, <2>4
<1> QED
  BY <1>6, <1>7

LEMMA MoreStepped ==
    ASSUME Front, More
    PROVE  Stepped
<1> DEFINE t == At(call.todo, 1)
           k == Task("header")
<1>1. /\ TypeOK /\ Pooled /\ TasksInv /\ NumbersInv /\ call.todo # <<>> /\ held \in HeldType
      /\ Fits(call, held, mc, net.out, Stream)
  BY FrontFacts DEF More, Doing
<1>2. /\ t = Head(call.todo) /\ Leads(call.name, t, At(call.todo, 2), At(call.todo, 3))
      /\ Ready(call, held, t)
  BY <1>1, TaskFacts
<1>3. t.do = "more"
  BY <1>2 DEF More, Doing
<1>4. Looks(call, held, mc, net.out, Stream) /\ mc.sequence >= 1
  BY <1>1, <1>3 DEF Fits, NumbersInv, First
<1> HIDE DEF t
<1>5. /\ call.err = "running" /\ call.name \notin {"Prepare", "StmtQuery"}
  BY <1>2, <1>3 DEF Leads, Ready, QueryLike
<1>6. held'.of = held.of
  BY <1>1 DEF More, HeldType
<1>7. CASE mc.more
  <2>1. Go(<<k>>)
    BY <1>7 DEF More
  <2>2. At(<<k>>, 1).do = "header" /\ <<k>> # <<>>
    BY TaskIs DEF At
  <2> DEFINE x == <<k>>
  <2>4. Go(x) /\ x # <<>> /\ At(x, 1).do = "header"
    BY <2>1, <2>2
  <2> HIDE DEF x
  <2> QED
    BY <1>1, <1>4, <1>5, <1>6, <1>7, <2>4, LooksOn
<1>8. CASE ~mc.more
  <2>1. Return("nil") \/ Return("end")
    BY <1>8 DEF More, ReturnEnd
  <2>2. Idle(Stream) /\ Silent(net.out)
    BY <1>4, <1>8 DEF Looks, MoreAt
  <2> QED
    BY <2>1, <2>2, SteppedOut
<1> QED
  BY <1>7, <1>8

LEMMA ContextStepped ==
    ASSUME Front, LookAtContext
    PROVE  Stepped
<1> DEFINE t == At(call.todo, 1)
<1>1. /\ TypeOK /\ Pooled /\ TasksInv /\ call.todo # <<>> /\ call \in CallType
      /\ Stream \in Seq(PacketType) /\ Marked(Stream, net.up)
      /\ Fits(call, held, mc, net.out, Stream)
  BY FrontFacts DEF LookAtContext, Doing
<1>2. /\ t = Head(call.todo) /\ Leads(call.name, t, At(call.todo, 2), At(call.todo, 3))
      /\ Ready(call, held, t)
  BY <1>1, TaskFacts
<1>3. t.do = "ctx"
  BY <1>2 DEF LookAtContext, Doing
<1> HIDE DEF t
<1>4. call.err = "nil" /\ call.name = "Prepare"
  BY <1>2, <1>3 DEF Leads, Ready
<1>5. Silent(net.out) /\ Idle(Stream)
  BY <1>1, <1>4 DEF Fits
<1>6. call'.todo = <<>> \/ call'.todo = Small("stmtClose")
  BY <1>1 DEF LookAtContext, CallType
<1>7. /\ At(<<>>, 1).do = "none"
      /\ At(Small("stmtClose"), 1).do = "write" /\ At(Small("stmtClose"), 1).first
      /\ At(Small("stmtClose"), 1).cmd = "stmtClose"
  BY TaskIs, WritingIs DEF At, None, Small
<1>8. Fits(call', held', mc, net.out, Stream)
  BY <1>1, <1>5, <1>6, <1>7, IdleFits
<1>9. ~IsFile(At(call'.todo, 1)) /\ At(call'.todo, 1).do \in {"none", "write"}
  BY <1>6, <1>7 DEF IsFile
<1> QED
  BY <1>8, <1>9 DEF Stepped, Reading

LEMMA StepKeepsStream ==
    ASSUME Front, Step
    PROVE  StreamInv' /\ NumbersInv'
<1>1. /\ TypeOK /\ Pooled /\ TasksInv /\ NumbersInv /\ BufferInv /\ Marked(Stream, net.up)
      /\ call \in CallType /\ held \in HeldType
  BY FrontFacts
<1>2. mc' = mc /\ net' = net
  BY DEF Step
<1>3. Stepped
  BY OpenStepped, DiscardStepped, MoreStepped, RowsSteps, ContextStepped DEF Step
<1>4. Stream' = Stream /\ net'.out = net.out
  BY <1>2 DEF Stream
<1>5. StreamInv'
  BY <1>1, <1>2, <1>3, <1>4 DEF StreamInv, BufferInv, Stepped
<1>6. call.todo # <<>>
  BY DEF Step, Open, TakeBuffer, Discard, NextRow, NextResult, More, CloseRows, LookAtContext, Doing
<1>7. Reported
  <2>1. /\ Leads(call.name, At(call.todo, 1), At(call.todo, 2), At(call.todo, 3))
        /\ Ready(call, held, At(call.todo, 1)) /\ At(call.todo, 1) = Head(call.todo)
    BY <1>1, <1>6, TaskFacts
  <2> QED
    BY <2>1 DEF Step, Open, TakeBuffer, Discard, NextRow, NextResult, More, CloseRows, LookAtContext, Doing,
                Ready, Reported
<1>8. held'.of = held.of
  BY <1>1 DEF Step, Open, TakeBuffer, Discard, NextRow, NextResult, More, CloseRows, LookAtContext, HeldType
<1>9. NumbersInv'
  <2>1. mc'.sequence <= 240 /\ (held'.of # 0 /\ Reported' /\ ~mc'.closed => mc'.sequence >= 1)
    BY <1>1, <1>2, <1>7, <1>8 DEF NumbersInv
  <2>2. Among(net'.out, net.out) /\ Among(Stream', Stream)
    BY <1>4 DEF Among
  <2>3. ~IsFile(First') /\ (First'.do \in Reading \cup {"discard", "more"} => mc'.sequence >= 1)
    BY <1>2, <1>3 DEF Stepped, First
  <2> QED
    BY <1>1, <2>1, <2>2, <2>3, NumbersKept
<1> QED
  BY <1>5, <1>9

-----------------------------------------------------------------------------
(* A call fails, or a part of what is under way is lost.                   *)

LEMMA StreamShrinks ==
    ASSUME Front, net'.buf = net.buf, net'.wire \in Seq(PacketType), Part(net'.wire, net.wire),
           net'.up => net.up
    PROVE  /\ Part(Stream', Stream) /\ Among(Stream', Stream) /\ Stream' \in Seq(PacketType)
           /\ Marked(Stream', net'.up) /\ BufferInv'
<1> DEFINE buf == net.buf
           wire == net.wire
           less == net'.wire
<1>1. /\ Stream \in Seq(PacketType) /\ Marked(Stream, net.up) /\ BufferInv /\ TypeOK
  BY FrontFacts
<1>2. buf \in Seq(PacketType) /\ wire \in Seq(PacketType) /\ less \in Seq(PacketType)
      /\ Stream = buf \o wire /\ Stream' = buf \o less
      /\ Len(less) <= Len(wire) /\ \A i \in 1..Len(less) : less[i] = wire[i]
  BY <1>1, StreamTyped DEF Stream, Part
<1>3. \A i \in 1..Len(wire) : wire[i].of = 0 => Len(wire) = 1
  BY <1>1 DEF BufferInv
<1> DEFINE x == buf \o less
           y == buf \o wire
<1> HIDE DEF buf, wire, less
<1>4. /\ x \in Seq(PacketType) /\ Len(x) = Len(buf) + Len(less)
      /\ y \in Seq(PacketType) /\ Len(y) = Len(buf) + Len(wire)
      /\ Len(buf) \in Nat /\ Len(less) \in Nat /\ Len(wire) \in Nat
      /\ \A i \in 1..Len(buf) : x[i] = buf[i] /\ y[i] = buf[i]
      /\ \A i \in 1..Len(less) : x[Len(buf) + i] = less[i]
      /\ \A i \in 1..Len(wire) : y[Len(buf) + i] = wire[i]
  BY <1>2, ConcatIs
<1>5. x = Stream' /\ y = Stream
  BY <1>2
<1> HIDE DEF x, y
<1>6. \A i \in 1..Len(x) : x[i] = y[i] /\ i \in 1..Len(y)
  <2> SUFFICES ASSUME NEW i \in 1..Len(x)
               PROVE  x[i] = y[i] /\ i \in 1..Len(y)
    OBVIOUS
  <2>1. i \in 1..Len(y)
    BY <1>2, <1>4
  <2>2. CASE i <= Len(buf)
    <3>1. i \in 1..Len(buf)
      BY <1>4, <2>2
    <3> QED
      BY <1>4, <2>1, <3>1
  <2>3. CASE i > Len(buf)
    <3>1. i - Len(buf) \in 1..Len(less) /\ i - Len(buf) \in 1..Len(wire) /\ Len(buf) + (i - Len(buf)) = i
      BY <1>2, <1>4, <2>3
    <3>2. x[Len(buf) + (i - Len(buf))] = less[i - Len(buf)]
      BY <1>4, <3>1
    <3>3. y[Len(buf) + (i - Len(buf))] = wire[i - Len(buf)]
      BY <1>4, <3>1
    <3>4. less[i - Len(buf)] = wire[i - Len(buf)]
      BY <1>2, <3>1
    <3> QED
      BY <2>1, <3>1, <3>2, <3>3, <3>4
  <2>4. i \in Nat /\ Len(buf) \in Nat
    BY <1>4
  <2> QED
    BY <2>2, <2>3, <2>4
<1>7. Part(x, y) /\ Among(x, y)
  <2>1. Len(x) <= Len(y)
    BY <1>2, <1>4
  <2> QED
    BY <1>6, <2>1 DEF Part, Among
<1>8. Marked(x, net'.up)
  BY <1>1, <1>4, <1>5, <1>7, OfMore
<1>9. ASSUME NEW i \in 1..Len(less), less[i].of = 0
      PROVE  Len(less) = 1
  <2>1. i \in 1..Len(wire)
    BY <1>2, <1>4
  <2>2. wire[i].of = 0
    BY <1>2, <1>9
  <2>3. Len(wire) = 1
    BY <1>3, <2>1, <2>2
  <2> QED
    BY <1>2, <1>4, <2>3
<1>10. BufferInv'
  <2>1. \A i \in 1..Len(net'.buf) : net'.buf[i].of # 0
    BY <1>1 DEF BufferInv
  <2>2. \A i \in 1..Len(net'.wire) : net'.wire[i].of = 0 => Len(net'.wire) = 1
    BY <1>9 DEF less
  <2> QED
    BY <2>1, <2>2 DEF BufferInv
<1> QED
  BY <1>4, <1>5, <1>7, <1>8, <1>10

(* Nothing changes, or what has not been taken off is dropped.             *)
LEMMA StreamDropped ==
    ASSUME Front, net'.buf = net.buf, net'.wire = net.wire \/ net'.wire = <<>>, net'.up = net.up
    PROVE  /\ Part(Stream', Stream) /\ Among(Stream', Stream) /\ Stream' \in Seq(PacketType)
           /\ Marked(Stream', net'.up) /\ BufferInv'
<1>1. net.wire \in Seq(PacketType)
  BY FrontFacts, StreamTyped
<1>2. net'.wire \in Seq(PacketType) /\ Part(net'.wire, net.wire)
  <2>1. CASE net'.wire = net.wire
    BY <1>1, <2>1, SeqBasics DEF Part
  <2>2. CASE net'.wire = <<>>
    <3>1. Len(<<>>) = 0 /\ Len(net.wire) \in Nat /\ <<>> \in Seq(PacketType)
      BY <1>1
    <3> QED
      BY <2>2, <3>1 DEF Part
  <2> QED
    BY <2>1, <2>2
<1> QED
  BY <1>2, StreamShrinks

LEMMA FailKeeps ==
    ASSUME Front, call.todo # <<>>, call.err = "running", NEW err, Return(err),
           err \in Dead \/ (err = "ctx" /\ Lost(call', mc')),
           held'.of = held.of, Marked(Stream', net'.up), BufferInv', Among(Stream', Stream),
           Among(net'.out, net.out),
           mc'.sequence <= 240, err = "ctx" => mc'.sequence = mc.sequence, mc.closed => mc'.closed
    PROVE  StreamInv' /\ NumbersInv'
<1>1. /\ TypeOK /\ Pooled /\ NumbersInv
      /\ held.of = 0 \/ mc.closed \/ mc.sequence >= 1 \/ ~Reported
  BY FrontFacts
<1>2. Fits(call', held', mc', net'.out, Stream')
  BY <1>1, DeadFits
<1>3. call'.todo = AtReturn(call.name, call'.err) /\ call.name # "Connect" /\ call'.err = MarkBadConn(call.name, err)
  BY <1>1, ReturnIs DEF Pooled
<1>4. At(call'.todo, 1).do \in {"none", "finish"}
  BY <1>3, ReturnFirst
<1>5. ~IsFile(First') /\ First'.do \notin Reading \cup {"discard", "more"}
  BY <1>4 DEF First, IsFile, Reading
<1>6. held'.of # 0 /\ Reported' /\ ~mc'.closed => mc'.sequence >= 1
  <2>1. CASE err \in Dead
    <3>1. call'.err \in Dead
      BY <1>3, <2>1 DEF MarkBadConn, Dead
    <3>2. ~Reported'
      BY <3>1 DEF Dead, Reported
    <3> QED
      BY <3>2
  <2>2. CASE err = "ctx"
    <3>1. Reported
      BY DEF Reported
    <3> QED
      BY <1>1, <2>2, <3>1
  <2> QED
    BY <2>1, <2>2
<1> QED
  BY <1>1, <1>2, <1>5, <1>6, NumbersKept DEF StreamInv

LEMMA ReadingRuns ==
    ASSUME Front, call.todo # <<>>, Head(call.todo).do \in Reading
    PROVE  call.err = "running" /\ ~Doing("handshake")
<1>1. /\ Leads(call.name, At(call.todo, 1), At(call.todo, 2), At(call.todo, 3))
      /\ Ready(call, held, At(call.todo, 1)) /\ At(call.todo, 1) = Head(call.todo)
  BY FrontFacts, TaskFacts
<1>2. Head(call.todo).do \notin {"finish", "ctx", "write", "handshake"}
  BY <1>1 DEF Reading, Leads
<1> QED
  BY <1>1, <1>2 DEF Ready, Doing

LEMMA FailuresKeepStream ==
    ASSUME Front, OutOfSync \/ ReadFails \/ ReadTimeout
    PROVE  StreamInv' /\ NumbersInv'
<1>1. /\ TypeOK /\ Pooled /\ NumbersInv /\ mc \in ConnType /\ net \in NetType
      /\ mc.sequence <= 240
  BY FrontFacts DEF NumbersInv
<1>2. call.todo # <<>> /\ Head(call.todo).do \in Reading /\ held' = held
  BY DEF OutOfSync, ReadFails, ReadTimeout
<1>3. call.err = "running" /\ ~Doing("handshake")
  BY <1>2, ReadingRuns
<1>4. CASE OutOfSync
  <2>1. PICK r \in Arrivals : net' = r.net
    BY <1>4 DEF OutOfSync
  <2>2. Return("sync") /\ mc' = mc
    BY <1>4 DEF OutOfSync
  <2>3. /\ BufferInv' /\ Marked(Stream', net'.up) /\ net'.out = net.out /\ Among(Stream', Stream)
    BY <2>1, ArrivalLeaves
  <2>4. Among(net'.out, net.out)
    BY <2>3 DEF Among
  <2> QED
    BY <1>1, <1>2, <1>3, <2>2, <2>3, <2>4, FailKeeps DEF Dead
<1>5. CASE ReadFails \/ ReadTimeout
  <2>1. /\ Return(IF mc.canceled THEN "ctx" ELSE "invalid")
        /\ mc' = IF mc.canceled THEN mc ELSE Closed(mc)
    BY <1>3, <1>5 DEF ReadFails, ReadTimeout, ReadError
  <2>2. /\ net'.buf = net.buf /\ net'.up = net.up /\ net'.out = net.out
        /\ net'.wire = net.wire \/ net'.wire = <<>>
    BY <1>1, <1>5 DEF ReadFails, ReadTimeout, Dropped, NetType
  <2>3. Marked(Stream', net'.up) /\ BufferInv' /\ Among(Stream', Stream)
    BY <2>2, StreamDropped
  <2>4. Among(net'.out, net.out)
    BY <2>2 DEF Among
  <2>5. mc'.sequence = mc.sequence /\ (mc.closed => mc'.closed) /\ (mc.canceled => mc' = mc)
    BY <1>1, <2>1 DEF Closed, ConnType
  <2>6. CASE mc.canceled
    <3>1. Return("ctx") /\ mc' = mc
      BY <2>1, <2>6
    <3>2. call'.err = "ctx"
      BY <1>1, <1>3, <3>1, ReturnIs DEF MarkBadConn
    <3>3. Lost(call', mc')
      BY <2>6, <3>1, <3>2 DEF Lost
    <3> QED
      BY <1>1, <1>2, <1>3, <2>3, <2>4, <2>5, <3>1, <3>3, FailKeeps
  <2>7. CASE ~mc.canceled
    <3>1. Return("invalid")
      BY <2>1, <2>7
    <3> QED
      BY <1>1, <1>2, <1>3, <2>3, <2>4, <2>5, <3>1, FailKeeps DEF Dead
  <2> QED
    BY <2>6, <2>7
<1> QED
  BY <1>4, <1>5

(* A result is reported: nothing was left when a statement is closed.      *)
LEMMA BusyKeepsStream ==
    ASSUME Front, BusyBuffer
    PROVE  StreamInv' /\ NumbersInv'
<1> DEFINE t == At(call.todo, 1)
           seq == Numbered(Head(call.todo))
<1>1. /\ TypeOK /\ Pooled /\ TasksInv /\ NumbersInv /\ mc \in ConnType /\ net \in NetType
      /\ mc.sequence <= 240 /\ BufferInv /\ Fits(call, held, mc, net.out, Stream)
      /\ call.todo # <<>> /\ Head(call.todo).do = "write" /\ net.buf # <<>> /\ Return("nowrite")
      /\ mc' = [mc EXCEPT !.sequence = seq] /\ net' = net /\ held' = held
  BY FrontFacts DEF NumbersInv, BusyBuffer, Doing
<1>2. /\ t = Head(call.todo) /\ Leads(call.name, t, At(call.todo, 2), At(call.todo, 3))
      /\ Ready(call, held, t)
  BY <1>1, TaskFacts
<1>3. call.err = "running"
  <2>1. SUFFICES ASSUME call.err # "running" PROVE FALSE
    OBVIOUS
  <2>2. call.name = "Prepare"
    BY <1>1, <1>2, <2>1 DEF Ready
  <2>3. Idle(Stream)
    BY <1>1, <1>2, <2>1, <2>2 DEF Fits
  <2>4. net.buf \in Seq(PacketType) /\ net.wire \in Seq(PacketType)
    BY <1>1, StreamTyped
  <2>5. Stream # <<>> /\ Stream[1] = net.buf[1] /\ 1 \in 1..Len(net.buf)
    <3> DEFINE a == net.buf
               b == net.wire
    <3>1. a \in Seq(PacketType) /\ b \in Seq(PacketType) /\ a # <<>> /\ Stream = a \o b
      BY <1>1, <2>4 DEF Stream
    <3> HIDE DEF a, b
    <3>2. a \o b # <<>> /\ (a \o b)[1] = a[1]
      BY <3>1, TailConcat
    <3>3. 1 \in 1..Len(a)
      BY <3>1, SeqBasics
    <3> QED
      BY <3>1, <3>2, <3>3 DEF a
  <2>6. net.buf[1].of # 0
    BY <1>1, <2>5 DEF BufferInv
  <2> QED
    BY <2>3, <2>5, <2>6 DEF Idle
<1>4. seq \in {0, mc.sequence}
  BY DEF Numbered
<1> HIDE DEF t, seq
<1>5. mc'.sequence <= 240 /\ mc'.closed = mc.closed
  <2>1. mc'.sequence = seq /\ mc'.closed = mc.closed
    BY <1>1 DEF ConnType
  <2> QED
    BY <1>1, <1>4, <2>1
<1>6. Marked(Stream', net'.up) /\ BufferInv' /\ Among(Stream', Stream)
  BY <1>1, StreamDropped
<1>7. Among(net'.out, net.out)
  BY <1>1 DEF Among
<1> QED
  BY <1>1, <1>3, <1>5, <1>6, <1>7, FailKeeps DEF Dead

(* A call that has its result gives the context back.                      *)
LEMMA FinishKeepsStream ==
    ASSUME Front, Finish
    PROVE  StreamInv' /\ NumbersInv'
<1> DEFINE t == At(call.todo, 1)
           u == At(call.todo, 2)
           tail == Tail(call.todo)
<1>1. /\ TypeOK /\ Pooled /\ TasksInv /\ WatchInv /\ NumbersInv /\ mc \in ConnType
      /\ call \in CallType /\ Fits(call, held, mc, net.out, Stream)
      /\ BufferInv /\ Marked(Stream, net.up) /\ mc.sequence <= 240
      /\ held.of = 0 \/ mc.closed \/ mc.sequence >= 1 \/ ~Reported
      /\ call.todo # <<>> /\ Head(call.todo).do = "finish"
      /\ call' = [call EXCEPT !.todo = tail] /\ net' = net /\ held' = held
  BY FrontFacts DEF NumbersInv, Finish, Doing
<1>2. /\ t = Head(call.todo) /\ Leads(call.name, t, u, At(call.todo, 3)) /\ Ready(call, held, t)
      /\ At(tail, 1) = u /\ (u.do # "none" => Ready(call, held, u) /\ tail # <<>>)
  BY <1>1, TaskFacts
<1>3. /\ mc'.closed = mc.closed /\ mc'.canceled = mc.canceled /\ mc'.sequence = mc.sequence
      /\ mc'.more = mc.more
  BY <1>1 DEF Finish, ConnType
<1>4. ~mc.closed => ~mc.canceled
  BY <1>1 DEF Finish, WatchInv
<1>5. call'.todo = tail /\ call'.name = call.name /\ call'.n = call.n /\ call'.err = call.err
  BY <1>1 DEF CallType
<1> HIDE DEF t, u, tail
<1>6. /\ t.do = "finish" /\ At(call'.todo, 1) = u
      /\ u.do = IF call.name = "RowsClose" THEN "closeRows" ELSE u.do
      /\ call.name # "RowsClose" => call.err # "running" /\ u.do \in {"none", "ctx"}
  BY <1>1, <1>2, <1>5 DEF Leads, Ready
<1>7. Fits(call', held', mc', net'.out, Stream')
  <2>1. Stream' = Stream /\ net'.out = net.out
    BY <1>1 DEF Stream
  <2>2. CASE call.name = "RowsClose"
    <3>1. u.do = "closeRows"
      BY <1>6, <2>2
    <3>2. call.err = "running" /\ tail # <<>>
      BY <1>2, <3>1 DEF Ready
    <3>3. Runs(call) /\ Runs(call')
      BY <1>1, <1>5, <3>2 DEF Runs
    <3>4. ~Lost(call', mc') => Silent(net.out) /\ Rest(call, held, mc, Stream)
      <4>1. ASSUME ~Lost(call', mc') PROVE ~Lost(call, mc)
        BY <1>3, <1>4, <4>1 DEF Lost
      <4> QED
        BY <1>1, <1>6, <3>3, <4>1 DEF Fits, Starting, t
    <3>5. ~Lost(call', mc') => Silent(net.out) /\ Rest(call', held', mc', Stream)
      <4>1. Rest(call, held, mc, Stream) => Rest(call', held, mc, Stream)
        BY <1>5, <3>3, RestSame
      <4>2. Rest(call', held, mc, Stream) => Rest(call', held, mc', Stream)
        BY <1>3 DEF Rest, RowsLeft, MoreAt
      <4> QED
        BY <1>1, <3>4, <4>1, <4>2
    <3>6. Fits(call', held', mc', net.out, Stream)
      BY <1>5, <1>6, <3>1, <3>2, <3>5, StartingFits DEF Starting
    <3> QED
      BY <2>1, <3>6
  <2>3. CASE call.name # "RowsClose"
    <3>1. call.err # "running" /\ u.do \in {"none", "ctx"}
      BY <1>6, <2>3
    <3>2. ~Runs(call) /\ ~Runs(call')
      BY <1>5, <3>1 DEF Runs
    <3>3. ASSUME call'.name = "Prepare", call'.err = "nil" PROVE Silent(net.out) /\ Idle(Stream)
      BY <1>1, <1>5, <3>3 DEF Fits
    <3>4. ASSUME Reports(call'), ~Lost(call', mc')
          PROVE  Silent(net.out) /\ IF Rows(call', held') THEN Rest(call', held', mc', Stream) ELSE Idle(Stream)
      <4>1. Reports(call) /\ ~Lost(call, mc)
        BY <1>3, <1>5, <2>3, <3>4 DEF Reports, Lost
      <4>2. Silent(net.out) /\ IF Rows(call, held) THEN Rest(call, held, mc, Stream) ELSE Idle(Stream)
        BY <1>1, <3>2, <4>1 DEF Fits
      <4>3. Rows(call', held') <=> Rows(call, held)
        BY <1>1, <1>5 DEF Rows
      <4>4. Rest(call, held, mc, Stream) => Rest(call', held, mc, Stream)
        BY <1>5, <3>2, RestSame
      <4>5. Rest(call', held, mc, Stream) => Rest(call', held, mc', Stream)
        BY <1>3 DEF Rest, RowsLeft, MoreAt
      <4> QED
        BY <1>1, <4>2, <4>3, <4>4, <4>5
    <3>5. Fits(call', held', mc', net.out, Stream)
      BY <1>5, <1>6, <3>1, <3>3, <3>4, EndFits
    <3> QED
      BY <2>1, <3>5
  <2> QED
    BY <2>2, <2>3
<1>8. Marked(Stream', net'.up) /\ BufferInv' /\ Among(Stream', Stream)
  BY <1>1, StreamDropped
<1>9. Among(net'.out, net.out)
  BY <1>1 DEF Among
<1>10. u.do \in {"none", "ctx", "closeRows"}
  BY <1>6
<1>11. ~IsFile(First') /\ First'.do \notin Reading \cup {"discard", "more"}
  BY <1>6, <1>10 DEF First, IsFile, Reading
<1>12. held'.of # 0 /\ Reported' /\ ~mc'.closed => mc'.sequence >= 1
  BY <1>1, <1>3, <1>5 DEF Reported
<1>13. mc'.sequence <= 240
  BY <1>1, <1>3
<1>14. NumbersInv'
  BY <1>1, <1>8, <1>9, <1>11, <1>12, <1>13, NumbersKept
<1> QED
  BY <1>7, <1>8, <1>14 DEF StreamInv

-----------------------------------------------------------------------------
(* What is written, and when.                                              *)

LEMMA WriteFacts ==
    ASSUME Front, Doing("write")
    PROVE  LET w == Head(call.todo)
               u == At(call.todo, 2)
               tail == Tail(call.todo)
           IN  /\ call.todo # <<>> /\ w = At(call.todo, 1) /\ w.do = "write" /\ w \in TaskType
               /\ WriteLeads(call.name, w, u) /\ At(tail, 1) = u
               /\ u.do # "none" => tail # <<>> /\ Leads(call.name, u, At(call.todo, 3), At(call.todo, 4))
               /\ u.do = "none" => tail = <<>>
               /\ ~IsFile(w) => call.name \notin RowCalls
               /\ call.err = "running"
                  \/ (call.name = "Prepare" /\ w.cmd = "stmtClose" /\ Silent(net.out) /\ Idle(Stream))
               /\ call.err = "running" /\ w.cmd = "stmtClose" => call.name = "StmtClose"
               /\ call.err = "running" /\ ~IsFile(w) => held.of # OwnerOf(call, held)
               /\ IsFile(w) => call.err = "running" /\ Silent(net.out) /\ Idle(Stream)
               /\ call.err = "running" /\ ~IsFile(w) /\ ~Lost(call, mc) =>
                     /\ Silent(net.out) /\ Rest(call, held, mc, Stream)
                     /\ ~w.first => mc.sequence = 1
               /\ w.cmd # "stmtClose" /\ ~mc.closed => ~Lost(call, mc) \/ IsFile(w)
<1> DEFINE w == At(call.todo, 1)
           u == At(call.todo, 2)
           v == At(call.todo, 3)
           tail == Tail(call.todo)
<1>1. /\ TypeOK /\ Pooled /\ TasksInv /\ call.todo # <<>> /\ Head(call.todo).do = "write"
      /\ Fits(call, held, mc, net.out, Stream)
  BY FrontFacts DEF Doing
<1>2. /\ w = Head(call.todo) /\ w \in TaskType /\ Leads(call.name, w, u, v) /\ Ready(call, held, w)
      /\ At(tail, 1) = u /\ (u.do = "none" => tail = <<>>)
      /\ u.do # "none" => tail # <<>> /\ Leads(call.name, u, v, At(call.todo, 4))
  BY <1>1, TaskFacts
<1> HIDE DEF w, u, v, tail
<1>3. w.do = "write" /\ WriteLeads(call.name, w, u)
  BY <1>1, <1>2 DEF Leads
<1>4. ~IsFile(w) => call.name \notin RowCalls
  <2>1. w.cmd = "longdata" => call.name \in {"StmtExec", "StmtQuery"}
    BY <1>2, <1>3 DEF WriteLeads, Leads
  <2> QED
    BY <1>3, <2>1 DEF WriteLeads, IsFile, RowCalls
<1>5. call.err # "running" => call.name = "Prepare" /\ w.cmd = "stmtClose"
  BY <1>2, <1>3 DEF Ready
<1>6. call.err # "running" => Silent(net.out) /\ Idle(Stream)
  BY <1>1, <1>3, <1>5 DEF Fits, w
<1>7. call.err = "running" /\ w.cmd = "stmtClose" => call.name = "StmtClose"
  BY <1>2, <1>3 DEF WriteLeads, Ready
<1>8. call.err = "running" /\ ~IsFile(w) => held.of # OwnerOf(call, held)
  BY <1>2, <1>3 DEF Ready, Sends
<1>9. IsFile(w) => call.err = "running" /\ Silent(net.out) /\ Idle(Stream)
  <2>1. IsFile(w) => w.cmd # "stmtClose"
    BY DEF IsFile
  <2>2. IsFile(w) => Silent(net.out) /\ Idle(Stream)
    BY <1>1 DEF Fits, w
  <2> QED
    BY <1>5, <2>1, <2>2
<1>10. ASSUME call.err = "running", ~IsFile(w), ~Lost(call, mc)
       PROVE  /\ Silent(net.out) /\ Rest(call, held, mc, Stream)
              /\ ~w.first => mc.sequence = 1
  <2>1. Runs(call)
    BY <1>1, <1>10 DEF Runs
  <2> QED
    BY <1>1, <1>3, <1>10, <2>1 DEF Fits, w
<1>11. ASSUME w.cmd # "stmtClose", ~mc.closed, ~IsFile(w) PROVE ~Lost(call, mc)
  <2>1. call.name \notin {"StmtClose", "RowsClose"} /\ call.err = "running"
    <3>1. w.cmd = "longdata" => call.name \in {"StmtExec", "StmtQuery"}
      BY <1>2, <1>3 DEF WriteLeads, Leads
    <3> QED
      BY <1>3, <1>5, <1>11, <3>1 DEF WriteLeads, IsFile
  <2> QED
    BY <1>11, <2>1 DEF Lost
<1> QED
  BY <1>1, <1>2, <1>3, <1>4, <1>5, <1>6, <1>7, <1>8, <1>9, <1>10, <1>11 DEF w, u, v, tail

(* A write that fails.                                                     *)
LEMMA WriteFails ==
    ASSUME Front, Doing("write"), NEW err \in {"nowrite", "invalid", "badconn", "ctx"}, Return(err),
           err = "ctx" => mc'.canceled, held' = held,
           net'.buf = net.buf, net'.wire = net.wire \/ net'.wire = <<>>, net'.up = net.up,
           net'.out = net.out, mc'.sequence = mc.sequence, mc.closed => mc'.closed
    PROVE  StreamInv' /\ NumbersInv'
<1>1. /\ TypeOK /\ Pooled /\ NumbersInv /\ mc.sequence <= 240 /\ Stream \in Seq(PacketType)
      /\ held.of = 0 \/ mc.closed \/ mc.sequence >= 1 \/ ~Reported
  BY FrontFacts DEF NumbersInv
<1>2. /\ call.todo # <<>>
      /\ call.err = "running"
         \/ (call.name = "Prepare" /\ Silent(net.out) /\ Idle(Stream))
  BY WriteFacts
<1>3. /\ Part(Stream', Stream) /\ Among(Stream', Stream) /\ Stream' \in Seq(PacketType)
      /\ Marked(Stream', net'.up) /\ BufferInv'
  BY StreamDropped
<1>4. Among(net'.out, net.out)
  BY DEF Among
<1>5. CASE call.err = "running"
  <2>1. CASE err = "ctx"
    <3>1. call'.err = "ctx"
      BY <1>1, <1>5, <2>1, ReturnIs DEF MarkBadConn
    <3>2. Lost(call', mc')
      BY <2>1, <3>1 DEF Lost
    <3> QED
      BY <1>1, <1>2, <1>3, <1>4, <1>5, <2>1, <3>2, FailKeeps
  <2>2. CASE err # "ctx"
    <3>1. err \in Dead
      BY <2>2 DEF Dead
    <3> QED
      BY <1>1, <1>2, <1>3, <1>4, <1>5, <2>2, <3>1, FailKeeps
  <2> QED
    BY <2>1, <2>2
<1>6. CASE call.err # "running"
  <2>1. call'.todo = AtReturn(call.name, call'.err) /\ call.name # "Connect" /\ call'.err = call.err
    BY <1>1, <1>6, ReturnIs DEF Pooled
  <2>2. At(call'.todo, 1).do \in {"none", "finish"}
    BY <2>1, ReturnFirst
  <2>3. Idle(Stream') /\ Silent(net'.out)
    BY <1>1, <1>2, <1>3, <1>6, OfMore
  <2>4. Fits(call', held', mc', net'.out, Stream')
    BY <1>3, <2>2, <2>3, IdleFits
  <2>5. ~IsFile(First') /\ First'.do \notin Reading \cup {"discard", "more"}
    BY <2>2 DEF First, IsFile, Reading
  <2>6. held'.of # 0 /\ Reported' /\ ~mc'.closed => mc'.sequence >= 1
    BY <1>1, <2>1 DEF Reported
  <2>7. NumbersInv'
    BY <1>1, <1>3, <1>4, <2>5, <2>6, NumbersKept
  <2> QED
    BY <1>3, <2>4, <2>7 DEF StreamInv
<1> QED
  BY <1>5, <1>6

LEMMA FailsIs ==
    ASSUME Front, Doing("write"), NEW err, Fails(err)
    PROVE  Return(err)
<1>1. ~(Len(call.todo) > 1 /\ call.todo[2].do = "key")
  <2> DEFINE u == At(call.todo, 2)
  <2>1. u.do = "none" \/ \E x, y : Leads(call.name, u, x, y)
    BY WriteFacts
  <2>2. u.do # "key"
    BY <2>1 DEF Leads
  <2>3. call.todo \in Seq(TaskType)
    BY FrontFacts DEF CallType
  <2>4. ASSUME Len(call.todo) > 1 PROVE u = call.todo[2]
    <3>1. Len(call.todo) \in Nat
      BY <2>3
    <3>2. 2 \in 1..Len(call.todo)
      BY <2>4, <3>1
    <3> QED
      BY <3>2 DEF At
  <2> QED
    BY <2>2, <2>4
<1> QED
  BY <1>1 DEF Fails

LEMMA UnsentKeepsStream ==
    ASSUME Front, Doing("write"), Stale \/ NothingWritten \/ PartWritten
    PROVE  StreamInv' /\ NumbersInv'
<1>1. mc \in ConnType /\ net \in NetType
  BY FrontFacts
<1>2. CASE Stale
  BY <1>1, <1>2, WriteFails DEF Stale, Closed, Dropped, ConnType, NetType
<1>3. CASE NothingWritten \/ PartWritten
  <2>1. PICK err \in {"nowrite", "invalid", "ctx"} : Return(err) /\ (err = "ctx" => mc.canceled)
    BY <1>3, FailsIs DEF NothingWritten, PartWritten
  <2>2. held' = held /\ net'.buf = net.buf /\ net'.up = net.up /\ net'.out = net.out
        /\ (net'.wire = net.wire \/ net'.wire = <<>>)
    BY <1>1, <1>3 DEF NothingWritten, PartWritten, Dropped, NetType
  <2>3. mc'.sequence = mc.sequence /\ mc'.canceled = mc.canceled /\ (mc.closed => mc'.closed)
    BY <1>1, <1>3 DEF NothingWritten, PartWritten, Closed, ConnType
  <2> QED
    BY <2>1, <2>2, <2>3, WriteFails
<1> QED
  BY <1>2, <1>3

LEMMA TooLargeKeepsStream ==
    ASSUME Front, Doing("write"), TooLarge(Head(call.todo))
    PROVE  StreamInv' /\ NumbersInv'
<1> DEFINE w == Head(call.todo)
<1>1. /\ TypeOK /\ Pooled /\ NumbersInv /\ mc.sequence <= 240 /\ Stream \in Seq(PacketType)
      /\ Marked(Stream, net.up) /\ BufferInv
      /\ held.of = 0 \/ mc.closed \/ mc.sequence >= 1 \/ ~Reported
  BY FrontFacts DEF NumbersInv
<1>2. w.cmd \in {"query", "prepare", "execute"} /\ Return("toolarge") /\ mc' = mc /\ net' = net /\ held' = held
  BY DEF TooLarge
<1>3. ~IsFile(w) /\ w.cmd # "stmtClose"
  BY <1>2 DEF IsFile
<1>4. /\ call.todo # <<>> /\ call.err = "running" /\ held.of # OwnerOf(call, held)
      /\ call.name \notin RowCalls
      /\ ~mc.closed => Silent(net.out) /\ Rest(call, held, mc, Stream)
  BY <1>3, WriteFacts
<1> HIDE DEF w
<1>5. call'.name = call.name /\ call'.n = call.n /\ call'.err = "toolarge"
      /\ call'.todo = AtReturn(call.name, call'.err) /\ call.name # "Connect"
  BY <1>1, <1>2, <1>4, ReturnIs DEF MarkBadConn, Pooled
<1>6. ASSUME ~Lost(call', mc)
      PROVE  Silent(net.out) /\ IF Rows(call', held) THEN Rest(call', held, mc, Stream) ELSE Idle(Stream)
  <2>1. Silent(net.out) /\ Rest(call, held, mc, Stream)
    BY <1>4, <1>6 DEF Lost
  <2>2. Rest(call', held, mc, Stream)
    BY <1>4, <1>5, <2>1, RestSame
  <2>3. ~Rows(call', held) => held.of = 0
    BY <1>4, <1>5 DEF Rows, OwnerOf, RowCalls
  <2>4. held.of = 0 => Idle(Stream)
    BY <2>2 DEF Rest
  <2> QED
    BY <2>1, <2>2, <2>3, <2>4
<1>7. Fits(call', held, mc, net.out, Stream)
  BY <1>1, <1>2, <1>4, <1>6, ReturnFits
<1>8. At(call'.todo, 1).do \in {"none", "finish"}
  BY <1>5, ReturnFirst
<1>9. ~IsFile(First') /\ First'.do \notin Reading \cup {"discard", "more"}
  BY <1>8 DEF First, IsFile, Reading
<1>10. held'.of # 0 /\ Reported' /\ ~mc'.closed => mc'.sequence >= 1
  BY <1>1, <1>2, <1>4 DEF Reported
<1>11. Among(net'.out, net.out) /\ Stream' = Stream /\ Among(Stream', Stream)
  BY <1>2 DEF Among, Stream
<1>12. NumbersInv'
  BY <1>1, <1>2, <1>9, <1>10, <1>11, NumbersKept
<1> QED
  BY <1>1, <1>2, <1>7, <1>11, <1>12 DEF StreamInv, BufferInv

-----------------------------------------------------------------------------
(* A packet that is written.                                               *)

LEMMA Appended ==
    ASSUME NEW S, NEW o \in Seq(S), NEW c \in S
    PROVE  /\ Len(Append(o, c)) = Len(o) + 1 /\ Len(o) \in Nat
           /\ \A i \in 1..Len(Append(o, c)) :
                 \/ i \in 1..Len(o) /\ Append(o, c)[i] = o[i]
                 \/ i = Len(o) + 1 /\ Append(o, c)[i] = c
OBVIOUS

LEMMA SilentThen ==
    ASSUME NEW o \in Seq(CommandType), NEW c \in CommandType, Silent(o)
    PROVE  /\ ~Asks(c) => Silent(Append(o, c))
           /\ \A i \in 1..Len(Append(o, c)) :
                 Asks(Append(o, c)[i]) => i = Len(o) + 1 /\ Append(o, c)[i] = c
<1> DEFINE p == Append(o, c)
<1>1. \A i \in 1..Len(p) : \/ i \in 1..Len(o) /\ p[i] = o[i]
                           \/ i = Len(o) + 1 /\ p[i] = c
  BY Appended
<1> HIDE DEF p
<1>2. \A i \in 1..Len(p) : Asks(p[i]) => i = Len(o) + 1 /\ p[i] = c
  BY <1>1 DEF Silent
<1>3. ~Asks(c) => Silent(p)
  BY <1>2 DEF Silent
<1> QED
  BY <1>2, <1>3 DEF p

LEMMA SentFacts ==
    ASSUME Front, Doing("write"), Sent(Head(call.todo))
    PROVE  LET w == Head(call.todo)
               seq == Numbered(w)
           IN  /\ Stream' = Stream /\ held' = held /\ net'.up = net.up /\ BufferInv'
               /\ ~mc.closed /\ ~mc'.closed /\ mc'.canceled = mc.canceled /\ mc'.more = mc.more
               /\ Go(Tail(call.todo))
               /\ seq \in Nat /\ mc'.sequence = seq + 1
               /\ IF IsFile(w) THEN seq = mc.sequence /\ seq <= IF w.cmd = "content" THEN 111 ELSE 112
                  ELSE seq \in {0, 1} /\ (w.first => seq = 0)
               /\ \A i \in 1..Len(net'.out) :
                    /\ net'.out[i].of # 0 /\ net'.out[i].cmd \notin {"ssl", "response", "secret"}
                    /\ Asks(net'.out[i]) => net'.out[i].seq <= IF net'.out[i].cmd = "empty" THEN 112 ELSE 1
               /\ Silent(net.out) =>
                    /\ ~net.up \/ ~w.last \/ w.cmd \in {"stmtClose", "longdata", "content"} => Silent(net'.out)
                    /\ \A i \in 1..Len(net'.out) :
                          Asks(net'.out[i]) => /\ i = Len(net.out) + 1
                                               /\ net'.out[i].of = OwnerOf(call, held)
                                               /\ net'.out[i].cmd = w.cmd
<1> DEFINE w == Head(call.todo)
           seq == Numbered(w)
           c == [cmd |-> w.cmd, arg |-> w.arg, seq |-> seq, of |-> Owner]
           out == IF net.up /\ w.last THEN Append(net.out, c) ELSE net.out
<1>1. /\ TypeOK /\ Pooled /\ TasksInv /\ NumbersInv /\ mc \in ConnType /\ net \in NetType
      /\ mc.sequence <= 240 /\ mc.sequence \in Nat /\ net.out \in Seq(CommandType) /\ BufferInv
      /\ call.todo # <<>> /\ OwnerOf(call, held) # 0
      /\ ~mc.closed /\ net' = [net EXCEPT !.out = out]
      /\ mc' = [mc EXCEPT !.sequence = (seq + 1) % 256, !.reset = FALSE]
      /\ Go(Tail(call.todo)) /\ held' = held
  BY FrontFacts DEF NumbersInv, Sent, Doing, ConnType, NetType
<1>2. /\ w = At(call.todo, 1) /\ w \in TaskType /\ w.do = "write" /\ WriteLeads(call.name, w, At(call.todo, 2))
      /\ call.err = "running" /\ ~IsFile(w) /\ ~Lost(call, mc) /\ ~w.first => mc.sequence = 1
      /\ w.cmd # "stmtClose" /\ ~mc.closed => ~Lost(call, mc) \/ IsFile(w)
      /\ call.err = "running" \/ w.cmd = "stmtClose"
  BY WriteFacts
<1>3. Owner = OwnerOf(call, held) /\ Owner \in Nat /\ seq \in Nat
  BY <1>1, <1>2, TaskFacts, OwnerTyped, NumberedTyped
<1>4. c \in CommandType /\ c.cmd = w.cmd /\ c.seq = seq /\ c.of = Owner
  BY <1>2, <1>3 DEF CommandType, TaskType
<1>5. IF IsFile(w) THEN seq = mc.sequence /\ seq <= IF w.cmd = "content" THEN 111 ELSE 112
      ELSE seq \in {0, 1} /\ (w.first => seq = 0)
  <2>1. CASE IsFile(w)
    <3>1. seq = mc.sequence
      BY <2>1 DEF Numbered, IsFile
    <3>2. mc.sequence <= IF w.cmd = "content" THEN 111 ELSE 112
      BY <1>1, <1>2, <2>1 DEF NumbersInv, First
    <3> QED
      BY <2>1, <3>1, <3>2
  <2>2. CASE ~IsFile(w) /\ w.first
    <3>1. w.cmd \notin {"content", "empty", "ssl", "response", "secret"}
      BY <1>2, <2>2 DEF IsFile, WriteLeads
    <3>2. seq = 0
      BY <2>2, <3>1 DEF Numbered
    <3> QED
      BY <2>2, <3>2
  <2>3. CASE ~IsFile(w) /\ ~w.first
    <3>1. w.cmd = "query"
      BY <1>2, <2>3 DEF WriteLeads
    <3>2. mc.sequence = 1
      BY <1>1, <1>2, <2>3, <3>1
    <3>3. seq = mc.sequence
      BY <2>3 DEF Numbered
    <3> QED
      BY <2>3, <3>2, <3>3
  <2> QED
    BY <2>1, <2>2, <2>3
<1>6. mc'.sequence = seq + 1 /\ ~mc'.closed /\ mc'.canceled = mc.canceled /\ mc'.more = mc.more
  <2> HIDE DEF seq, w
  <2>1. seq <= 112
    <3>1. CASE IsFile(w)
      BY <1>3, <1>5, <3>1
    <3>2. CASE ~IsFile(w)
      BY <1>3, <1>5, <3>2
    <3> QED
      BY <3>1, <3>2
  <2>2. (seq + 1) % 256 = seq + 1
    BY <1>3, <2>1
  <2> QED
    BY <1>1, <2>2 DEF ConnType
<1>7. c.cmd \notin {"ssl", "response", "secret"}
      /\ c.seq <= IF c.cmd = "empty" THEN 112 ELSE IF c.cmd = "content" THEN 111 ELSE 1
  BY <1>2, <1>4, <1>5 DEF IsFile, WriteLeads
<1>71. w.cmd # "content" => c.seq <= IF c.cmd = "empty" THEN 112 ELSE 1
  BY <1>4, <1>7
<1>8. Asks(c) <=> w.cmd \notin {"stmtClose", "longdata", "content"}
  BY <1>4 DEF Asks
<1> HIDE DEF c, seq
<1>9. out = Append(net.out, c) \/ out = net.out
  OBVIOUS
<1>10. ~net.up \/ ~w.last => out = net.out
  OBVIOUS
<1>11. net.out \in Seq(CommandType) /\ out \in Seq(CommandType)
  BY <1>1, <1>4
<1> HIDE DEF out
<1>12. net'.out = out /\ net'.up = net.up /\ net'.buf = net.buf /\ net'.wire = net.wire
  BY <1>1 DEF NetType
<1>13. \A i \in 1..Len(out) : (i \in 1..Len(net.out) /\ out[i] = net.out[i]) \/ (out[i] = c)
  BY <1>4, <1>9, <1>11, Appended, SMTT(30)
<1>14. \A i \in 1..Len(out) :
          /\ out[i].of # 0 /\ out[i].cmd \notin {"ssl", "response", "secret"}
          /\ Asks(out[i]) => out[i].seq <= IF out[i].cmd = "empty" THEN 112 ELSE 1
  <2>1. ASSUME Asks(c) PROVE c.seq <= IF c.cmd = "empty" THEN 112 ELSE 1
    BY <1>8, <1>71, <2>1
  <2>2. c.of # 0 /\ c.cmd \notin {"ssl", "response", "secret"}
    BY <1>1, <1>3, <1>4, <1>7
  <2> QED
    BY <1>1, <1>13, <2>1, <2>2 DEF NumbersInv
<1>15. ASSUME Silent(net.out)
       PROVE  /\ ~net.up \/ ~w.last \/ w.cmd \in {"stmtClose", "longdata", "content"} => Silent(out)
              /\ \A i \in 1..Len(out) :
                    Asks(out[i]) => i = Len(net.out) + 1 /\ out[i].of = OwnerOf(call, held) /\ out[i].cmd = w.cmd
  <2>1. CASE out = net.out
    BY <1>15, <2>1 DEF Silent
  <2>2. CASE out = Append(net.out, c)
    <3>1. /\ ~Asks(c) => Silent(out)
          /\ \A i \in 1..Len(out) : Asks(out[i]) => i = Len(net.out) + 1 /\ out[i] = c
      BY <1>4, <1>11, <1>15, <2>2, SilentThen
    <3>2. ~net.up \/ ~w.last => Silent(out)
      BY <1>10, <1>15
    <3> QED
      BY <1>3, <1>4, <1>8, <3>1, <3>2
  <2> QED
    BY <1>9, <2>1, <2>2
<1>16. Stream' = Stream /\ BufferInv'
  BY <1>1, <1>12 DEF Stream, BufferInv
<1> QED
  BY <1>1, <1>3, <1>5, <1>6, <1>12, <1>14, <1>15, <1>16 DEF seq

-----------------------------------------------------------------------------
(* What follows a packet that is written.                                  *)

LEMMA SentNext ==
    ASSUME Front, Doing("write"), Sent(Head(call.todo))
    PROVE  LET u == At(call.todo, 2)
           IN  /\ call'.name = call.name /\ call'.n = call.n
               /\ u.do # "none" => /\ call'.todo # <<>> /\ At(call'.todo, 1) = u
                                   /\ call'.err = call.err
               /\ u.do = "none" => /\ Return("nil") /\ At(call'.todo, 1).do \in {"none", "finish"}
               /\ NumbersInv'
<1> DEFINE w == Head(call.todo)
           u == At(call.todo, 2)
           seq == Numbered(w)
<1>1. /\ TypeOK /\ Pooled /\ Go(Tail(call.todo)) /\ Stream' = Stream /\ held' = held
      /\ seq \in Nat /\ mc'.sequence = seq + 1 /\ ~mc'.closed
      /\ IF IsFile(w) THEN seq = mc.sequence /\ seq <= IF w.cmd = "content" THEN 111 ELSE 112
         ELSE seq \in {0, 1} /\ (w.first => seq = 0)
      /\ \A i \in 1..Len(net'.out) :
            /\ net'.out[i].of # 0 /\ net'.out[i].cmd \notin {"ssl", "response", "secret"}
            /\ Asks(net'.out[i]) => net'.out[i].seq <= IF net'.out[i].cmd = "empty" THEN 112 ELSE 1
  BY SentFacts, FrontFacts
<1>2. /\ WriteLeads(call.name, w, u) /\ At(Tail(call.todo), 1) = u /\ w.do = "write"
      /\ u.do # "none" => Tail(call.todo) # <<>>
      /\ u.do = "none" => Tail(call.todo) = <<>>
  BY WriteFacts
<1>3. NumbersInv
  BY FrontFacts
<1> HIDE DEF w, u, seq
<1>4. call'.name = call.name /\ call'.n = call.n
      /\ (u.do # "none" => call'.todo = Tail(call.todo) /\ call'.err = call.err)
      /\ (u.do = "none" => Return("nil"))
  BY <1>1, <1>2, GoIs
<1>5. u.do = "none" => At(call'.todo, 1).do \in {"none", "finish"}
  <2>1. u.do = "none" => call'.todo = AtReturn(call.name, call'.err)
    BY <1>1, <1>4, ReturnIs
  <2> QED
    BY <1>1, <2>1, ReturnFirst DEF Pooled
<1>6. ASSUME IsFile(First') PROVE IsFile(w) /\ w.cmd = "content" /\ First'.cmd = "empty"
  <2>1. u.do = "write" /\ u = First' /\ u.cmd \in {"content", "empty"}
    BY <1>2, <1>4, <1>5, <1>6 DEF First, IsFile
  <2>2. u.cmd # "query" /\ u.cmd # "execute"
    BY <2>1
  <2> QED
    BY <1>2, <2>1, <2>2 DEF WriteLeads, IsFile
<1>7. mc'.sequence >= 1
  BY <1>1
<1>8. IsFile(First') => mc'.sequence <= IF First'.cmd = "content" THEN 111 ELSE 112
  <2>1. ASSUME IsFile(First') PROVE seq <= 111
    <3>1. IsFile(w) /\ w.cmd = "content"
      BY <1>6, <2>1
    <3> QED
      BY <1>1, <3>1
  <2>2. ASSUME IsFile(First') PROVE mc'.sequence <= 112 /\ First'.cmd = "empty"
    BY <1>1, <1>6, <2>1, <2>2
  <2> QED
    BY <2>2
<1>9. mc'.sequence <= 240
  <2>1. CASE IsFile(w)
    <3>1. seq <= 112
      BY <1>1, <2>1
    <3> QED
      BY <1>1, <3>1
  <2>2. CASE ~IsFile(w)
    BY <1>1, <2>2
  <2> QED
    BY <2>1, <2>2
<1>10. NumbersInv'
  <2>1. \A i \in 1..Len(Stream') :
           Stream'[i].of # 0 =>
              Stream'[i].seq \in 1..210 /\ (Stream'[i].kind = "file" => Stream'[i].seq <= 110)
    <3>1. \A i \in 1..Len(Stream) :
             Stream[i].of # 0 =>
                Stream[i].seq \in 1..210 /\ (Stream[i].kind = "file" => Stream[i].seq <= 110)
      BY <1>3 DEF NumbersInv
    <3>2. Stream' = Stream
      BY <1>1
    <3> QED
      BY <3>1, <3>2
  <2>2. Columns <= 25
    BY <1>3 DEF NumbersInv
  <2> QED
    BY <1>1, <1>7, <1>8, <1>9, <2>1, <2>2 DEF NumbersInv
<1> QED
  BY <1>2, <1>4, <1>5, <1>10 DEF u

(* A command that is answered: the call reads its answer, behind the rows  *)
(* that somebody else has left if there are any.                           *)
LEMMA AskedFits ==
    ASSUME Front, Doing("write"), Sent(Head(call.todo)), call.err = "running",
           Silent(net.out), Idle(Stream) \/ Blocked(call, held, mc', Stream),
           At(call.todo, 2).do \in Reading,
           Awaits(call.name, At(call.todo, 2).do, Head(call.todo).cmd)
    PROVE  Fits(call', held', mc', net'.out, Stream')
<1> DEFINE u == At(call.todo, 2)
           w == Head(call.todo)
<1>1. /\ Stream' = Stream /\ held' = held /\ Stream \in Seq(PacketType) /\ Marked(Stream, net.up)
      /\ ~net.up => Silent(net'.out)
      /\ \A i \in 1..Len(net'.out) :
            Asks(net'.out[i]) => /\ i = Len(net.out) + 1
                                 /\ net'.out[i].of = OwnerOf(call, held)
                                 /\ net'.out[i].cmd = w.cmd
  BY SentFacts, FrontFacts
<1>2. u.do # "none"
  BY DEF Reading
<1>3. call'.name = call.name /\ call'.n = call.n /\ At(call'.todo, 1) = u /\ call'.err = "running"
  BY <1>2, SentNext
<1>4. OwnerOf(call', held) = OwnerOf(call, held)
  BY <1>3 DEF OwnerOf
<1> HIDE DEF u, w
<1>5. Awaits(call'.name, At(call'.todo, 1).do, w.cmd)
  BY <1>3 DEF u, w
<1>6. Alone(call', held, net'.out)
  BY <1>1, <1>4, <1>5 DEF Alone
<1>7. Blocked(call, held, mc', Stream) => Blocked(call', held, mc', Stream)
  BY <1>4 DEF Blocked
<1>8. Idle(Stream) => Of(Stream, OwnerOf(call', held)) /\ Expected(call', Stream)
  BY <1>1, IdleRests
<1>9. Idle(Stream) => Silent(net'.out) \/ Stream = <<>>
  <2>1. ASSUME Idle(Stream), Stream # <<>> PROVE ~net.up
    <3>1. 1 \in 1..Len(Stream)
      BY <1>1, <2>1, SeqBasics
    <3> QED
      BY <1>1, <2>1, <3>1 DEF Idle, Marked
  <2> QED
    BY <1>1, <2>1
<1>10. Reads(call', held, mc', net'.out, Stream)
  BY <1>6, <1>7, <1>8, <1>9 DEF Reads
<1> QED
  BY <1>1, <1>3, <1>10, ReadingFits DEF u

LEMMA CommandSentFits ==
    ASSUME Front, Doing("write"), Sent(Head(call.todo)), Head(call.todo).last,
           Head(call.todo).cmd \in {"query", "execute", "session", "commit", "prepare", "ping"}
    PROVE  Fits(call', held', mc', net'.out, Stream')
<1> DEFINE u == At(call.todo, 2)
           w == Head(call.todo)
           seq == Numbered(w)
<1>1. ~IsFile(w) /\ w.cmd # "stmtClose"
  BY DEF IsFile
<1>2. /\ ~mc.closed /\ seq \in {0, 1} /\ mc'.sequence = seq + 1
  BY <1>1, SentFacts
<1>3. /\ call.name \notin RowCalls /\ call.err = "running" /\ held.of # OwnerOf(call, held)
      /\ Silent(net.out) /\ Rest(call, held, mc, Stream) /\ WriteLeads(call.name, w, u)
  BY <1>1, <1>2, WriteFacts
<1> HIDE DEF u, w, seq
<1>4. mc'.sequence \in {1, 2}
  BY <1>2
<1>5. u.do \in {"header", "prepared", "ok"} /\ Awaits(call.name, u.do, w.cmd)
  BY <1>3 DEF WriteLeads, Awaits, RowCalls, w
<1>6. Idle(Stream) \/ Blocked(call, held, mc', Stream)
  <2>1. ASSUME ~Idle(Stream) PROVE Blocked(call, held, mc', Stream)
    <3>1. Stream # <<>> /\ Stream[1].of # 0
      BY <2>1 DEF Idle
    <3>2. Of(Stream, held.of) /\ Stream[1].seq >= 4
      BY <1>3, <2>1 DEF Rest
    <3>3. Stream \in Seq(PacketType)
      BY FrontFacts
    <3>4. 1 \in 1..Len(Stream)
      BY <3>1, <3>3, SeqBasics
    <3>5. Stream[1].of \notin {0, OwnerOf(call, held)}
      BY <1>3, <3>1, <3>2, <3>4 DEF Of
    <3> QED
      BY <1>4, <3>1, <3>2, <3>5 DEF Blocked
  <2> QED
    BY <2>1
<1>7. u.do \in Reading
  BY <1>5 DEF Reading
<1> QED
  BY <1>3, <1>5, <1>6, <1>7, AskedFits DEF u, w

LEMMA EmptySentFits ==
    ASSUME Front, Doing("write"), Sent(Head(call.todo)), Head(call.todo).cmd = "empty"
    PROVE  Fits(call', held', mc', net'.out, Stream')
<1> DEFINE u == At(call.todo, 2)
           w == Head(call.todo)
<1>1. WriteLeads(call.name, w, u) /\ w.do = "write"
  BY WriteFacts
<1>2. IsFile(w)
  BY <1>1 DEF IsFile
<1>3. call.err = "running" /\ Silent(net.out) /\ Idle(Stream)
  BY <1>2, WriteFacts
<1> HIDE DEF u
<1>4. u.do \in {"ok", "any"} /\ call.name \notin {"Ping", "Prepare"}
  BY <1>1 DEF WriteLeads
<1>5. u.do \in Reading /\ Awaits(call.name, u.do, w.cmd)
  BY <1>4 DEF Reading, Awaits
<1> QED
  BY <1>3, <1>5, AskedFits DEF u

(* A packet after which another is written.                                *)
LEMMA PartSentFits ==
    ASSUME Front, Doing("write"), Sent(Head(call.todo)),
           ~Head(call.todo).last \/ Head(call.todo).cmd = "longdata"
    PROVE  Fits(call', held', mc', net'.out, Stream')
<1> DEFINE u == At(call.todo, 2)
           w == Head(call.todo)
           seq == Numbered(w)
<1>1. WriteLeads(call.name, w, u) /\ w.do = "write"
  BY WriteFacts
<1>2. u.do = "write" /\ w.cmd \in {"query", "longdata"} /\ u.cmd \in {"query", "execute"} /\ w.first
  BY <1>1 DEF WriteLeads
<1>3. ~IsFile(w) /\ w.cmd # "stmtClose"
  BY <1>2 DEF IsFile
<1>4. /\ ~mc.closed /\ ~mc'.closed /\ seq = 0 /\ mc'.sequence = seq + 1 /\ mc'.more = mc.more
      /\ Stream' = Stream /\ held' = held /\ (Silent(net.out) => Silent(net'.out))
  BY <1>2, <1>3, SentFacts
<1>5. /\ call.err = "running" /\ Silent(net.out) /\ Rest(call, held, mc, Stream)
      /\ call.todo # <<>>
  BY <1>3, <1>4, WriteFacts
<1> HIDE DEF u, w, seq
<1>6. call'.name = call.name /\ call'.n = call.n /\ call'.err = "running" /\ At(call'.todo, 1) = u
      /\ call'.todo # <<>>
  BY <1>2, <1>5, SentNext DEF u
<1>7. Rest(call', held, mc, Stream)
  BY <1>5, <1>6, RestSame DEF Runs
<1>8. Rest(call', held, mc', Stream)
  BY <1>4, <1>7 DEF Rest, RowsLeft, MoreAt
<1>9. At(call'.todo, 1).do = "write" /\ ~IsFile(At(call'.todo, 1))
  BY <1>2, <1>6 DEF IsFile
<1>10. mc'.sequence = 1
  BY <1>4
<1> QED
  BY <1>4, <1>5, <1>6, <1>8, <1>9, <1>10, StartingFits

(* The contents of a file, and the end of a statement, are not answered.   *)
LEMMA ContentSentFits ==
    ASSUME Front, Doing("write"), Sent(Head(call.todo)), Head(call.todo).cmd = "content"
    PROVE  Fits(call', held', mc', net'.out, Stream')
<1> DEFINE u == At(call.todo, 2)
           w == Head(call.todo)
<1>1. WriteLeads(call.name, w, u) /\ w.do = "write"
  BY WriteFacts
<1>2. IsFile(w)
  BY <1>1 DEF IsFile
<1>3. call.err = "running" /\ Silent(net.out) /\ Idle(Stream)
  BY <1>2, WriteFacts
<1>4. u.do = "write" /\ u.cmd = "empty"
  BY <1>1 DEF WriteLeads
<1>5. u.first
  <2>1. \E x, y : Leads(call.name, u, x, y)
    BY <1>4, WriteFacts
  <2> QED
    BY <1>4, <2>1 DEF Leads, WriteLeads
<1>6. Stream' = Stream /\ held' = held /\ Silent(net'.out)
  BY <1>3, SentFacts
<1>7. At(call'.todo, 1) = u
  BY <1>4, SentNext
<1> HIDE DEF u
<1> QED
  BY <1>3, <1>5, <1>6, <1>7, FrontFacts, IdleFits

LEMMA CloseSentFits ==
    ASSUME Front, Doing("write"), Sent(Head(call.todo)), Head(call.todo).cmd = "stmtClose"
    PROVE  Fits(call', held', mc', net'.out, Stream')
<1> DEFINE u == At(call.todo, 2)
           w == Head(call.todo)
<1>1. WriteLeads(call.name, w, u) /\ w.do = "write"
  BY WriteFacts
<1>2. u.do = "none"
  BY <1>1 DEF WriteLeads
<1>3. Return("nil") /\ At(call'.todo, 1).do \in {"none", "finish"}
      /\ call'.name = call.name /\ call'.n = call.n
  BY <1>2, SentNext
<1>4. /\ Stream' = Stream /\ held' = held /\ (Silent(net.out) => Silent(net'.out))
      /\ ~mc.closed /\ ~mc'.closed /\ mc'.canceled = mc.canceled /\ mc'.more = mc.more
  BY SentFacts
<1>5. TypeOK /\ Pooled /\ Stream \in Seq(PacketType) /\ Marked(Stream, net.up)
  BY FrontFacts
<1>6. CASE call.err = "running"
  <2>1. ~IsFile(w)
    BY DEF IsFile
  <2>2. call.name = "StmtClose" /\ held.of # OwnerOf(call, held) /\ call.todo # <<>>
    BY <1>6, <2>1, WriteFacts
  <2>3. ASSUME ~Lost(call', mc')
        PROVE  Silent(net'.out) /\ IF Rows(call', held) THEN Rest(call', held, mc', Stream) ELSE Idle(Stream)
    <3>1. ~Lost(call, mc)
      BY <1>3, <1>4, <2>2, <2>3 DEF Lost
    <3>2. Silent(net.out) /\ Rest(call, held, mc, Stream)
      BY <1>6, <2>1, <3>1, WriteFacts
    <3>3. Rest(call', held, mc, Stream)
      BY <1>3, <2>2, <3>2, RestSame
    <3>4. Rest(call', held, mc', Stream)
      BY <1>4, <3>3 DEF Rest, RowsLeft, MoreAt
    <3>5. ~Rows(call', held) => held.of = 0
      BY <1>3, <2>2 DEF Rows
    <3>6. held.of = 0 => Idle(Stream)
      BY <3>4 DEF Rest
    <3> QED
      BY <1>4, <3>2, <3>4, <3>5, <3>6
  <2>4. call.name # "Prepare"
    BY <2>2
  <2> QED
    BY <1>3, <1>4, <1>5, <1>6, <2>3, <2>4, ReturnFits
<1>7. CASE call.err # "running"
  <2>1. Silent(net.out) /\ Idle(Stream)
    BY <1>7, WriteFacts
  <2> QED
    BY <1>3, <1>4, <1>5, <2>1, IdleFits
<1> QED
  BY <1>6, <1>7

LEMMA WriteKeepsStream ==
    ASSUME Front, Write
    PROVE  StreamInv' /\ NumbersInv'
<1>1. Doing("write")
  BY DEF Write
<1>2. CASE TooLarge(Head(call.todo))
  BY <1>1, <1>2, TooLargeKeepsStream
<1>3. CASE Stale \/ NothingWritten \/ PartWritten
  BY <1>1, <1>3, UnsentKeepsStream
<1>4. CASE Sent(Head(call.todo))
  <2> DEFINE w == Head(call.todo)
  <2>1. WriteLeads(call.name, w, At(call.todo, 2))
    BY <1>1, WriteFacts
  <2>2. \/ ~w.last \/ w.cmd = "longdata" \/ w.cmd = "content" \/ w.cmd = "empty" \/ w.cmd = "stmtClose"
        \/ w.last /\ w.cmd \in {"query", "execute", "session", "commit", "prepare", "ping"}
    BY <2>1 DEF WriteLeads
  <2>3. Fits(call', held', mc', net'.out, Stream')
    BY <1>1, <1>4, <2>2, PartSentFits, ContentSentFits, EmptySentFits, CloseSentFits, CommandSentFits
  <2>4. NumbersInv'
    BY <1>1, <1>4, SentNext
  <2>5. Stream' = Stream /\ net'.up = net.up /\ BufferInv'
    BY <1>1, <1>4, SentFacts
  <2>6. Marked(Stream', net'.up)
    BY <2>5, FrontFacts
  <2> QED
    BY <2>3, <2>4, <2>5, <2>6 DEF StreamInv
<1> QED
  BY <1>2, <1>3, <1>4 DEF Write

(* A call of the pool neither connects nor handshakes.                     *)
LEMMA MovesKeepStream ==
    ASSUME Front, Moves
    PROVE  StreamInv' /\ NumbersInv'
<1>1. ~Cleanup /\ ~TLSHandshake
  <2>1. ASSUME call.todo # <<>> PROVE Head(call.todo).do \notin {"cleanup", "tls"}
    <3>1. \E t, u, v : t = Head(call.todo) /\ Leads(call.name, t, u, v)
      BY <2>1, FrontFacts, TaskFacts
    <3> QED
      BY <3>1 DEF Leads
  <2> QED
    BY <2>1 DEF Cleanup, TLSHandshake, Doing
<1> QED
  BY <1>1, StepKeepsStream, ReadKeepsStream, FailuresKeepStream, BusyKeepsStream, WriteKeepsStream DEF Moves

-----------------------------------------------------------------------------
(* What the server sends.                                                  *)

(* The kinds of packets of an answer that come one after the other.        *)
Goes(p, q) ==
    \/ p.kind \in {"ok", "eof"} /\ p.flag /\ q.kind \in NextKinds
    \/ p.kind = "result" /\ q.kind = "field"
    \/ p.kind = "field" /\ q.kind = "eof" /\ ~q.flag
    \/ p.kind = "row" /\ q.kind \in {"row", "eof", "err"}
    \/ p.kind = "eof" /\ ~p.flag /\ q.kind \in {"row", "eof", "err"}

Chain(a) ==
    /\ a \in Seq(PacketType) /\ a # <<>> /\ a[1].kind \in NextKinds
    /\ \A i \in 1..(Len(a) - 1) : Goes(a[i], a[i + 1])
    /\ \A i \in 1..(Len(a) - 2) :
          ~(a[i].kind \in {"row", "eof"} /\ a[i + 1].kind = "eof" /\ ~a[i + 1].flag)

LEMMA PacketIs ==
    ASSUME NEW kind \in Kinds
    PROVE  /\ Packet(kind, "none") \in PacketType /\ Packet(kind, "none").kind = kind
           /\ ~Packet(kind, "none").flag
           /\ \A b \in BOOLEAN : /\ [Packet(kind, "none") EXCEPT !.flag = b] \in PacketType
                                 /\ [Packet(kind, "none") EXCEPT !.flag = b].kind = kind
                                 /\ [Packet(kind, "none") EXCEPT !.flag = b].flag = b
<1> DEFINE p == Packet(kind, "none")
<1>1. p \in PacketType /\ p.kind = kind
  BY PacketTyped DEF Subjects
<1>2. p.flag = FALSE
  BY DEF Packet
<1> HIDE DEF p
<1>3. \A b \in BOOLEAN : [p EXCEPT !.flag = b] \in PacketType
  BY <1>1, PacketFields
<1>4. \A b \in BOOLEAN : [p EXCEPT !.flag = b].kind = kind /\ [p EXCEPT !.flag = b].flag = b
  BY <1>1 DEF PacketType
<1> QED
  BY <1>1, <1>2, <1>3, <1>4 DEF p

LEMMA SingleIs ==
    ASSUME NEW p \in PacketType, p.kind \in NextKinds
    PROVE  Chain(<<p>>) /\ Len(<<p>>) = 1 /\ <<p>>[1] = p
BY DEF Chain

LEMMA OkIs ==
    ASSUME NEW b \in BOOLEAN
    PROVE  Chain(Ok(b)) /\ Len(Ok(b)) = 1 /\ Ok(b)[1].kind = "ok" /\ Ok(b)[1].flag = b
<1> DEFINE p == [Packet("ok", "none") EXCEPT !.flag = b]
<1>1. p \in PacketType /\ p.kind = "ok" /\ p.flag = b
  BY PacketIs DEF Kinds
<1>2. Ok(b) = <<p>>
  BY DEF Ok
<1> HIDE DEF p
<1>3. p.kind \in NextKinds
  BY <1>1 DEF NextKinds
<1> QED
  BY <1>1, <1>2, <1>3, SingleIs

LEMMA PlainIs ==
    ASSUME NEW kind \in {"err", "file", "readonly"}
    PROVE  LET s == <<Packet(kind, "none")>>
           IN  Chain(s) /\ Len(s) = 1 /\ s[1].kind = kind /\ ~s[1].flag
<1> DEFINE p == Packet(kind, "none")
<1>1. p \in PacketType /\ p.kind = kind /\ ~p.flag
  BY PacketIs DEF Kinds
<1> HIDE DEF p
<1>2. p.kind \in NextKinds
  BY <1>1 DEF NextKinds
<1>3. Chain(<<p>>) /\ Len(<<p>>) = 1 /\ <<p>>[1] = p
  BY <1>1, <1>2, SingleIs
<1> QED
  BY <1>1, <1>3 DEF p

(* A result without rows, and one with one.                                *)
LEMMA ResultIs ==
    ASSUME NEW n \in {0, 1}, NEW b \in BOOLEAN
    PROVE  LET s == Result(n, b)
           IN  /\ s \in Seq(PacketType) /\ Len(s) = n + 4
               /\ s[1].kind = "result" /\ s[2].kind = "field" /\ s[3].kind = "eof" /\ ~s[3].flag
               /\ n = 1 => s[4].kind = "row"
               /\ s[n + 4].kind = "eof" /\ s[n + 4].flag = b
<1> DEFINE r == Packet("result", "none")
           f == Packet("field", "none")
           e == Packet("eof", "none")
           row == Packet("row", "none")
           last == [Packet("eof", "none") EXCEPT !.flag = b]
           rows == [i \in 1..n |-> Packet("row", "none")]
<1>1. /\ r \in PacketType /\ f \in PacketType /\ e \in PacketType /\ row \in PacketType
      /\ last \in PacketType
      /\ r.kind = "result" /\ f.kind = "field" /\ e.kind = "eof" /\ ~e.flag /\ row.kind = "row"
      /\ last.kind = "eof" /\ last.flag = b
  BY PacketIs DEF Kinds
<1>2. Result(n, b) = <<r, f, e>> \o rows \o <<last>>
  BY DEF Result
<1> DEFINE head == <<r, f, e>>
           lines == head \o rows
           s == Result(n, b)
<1> HIDE DEF r, f, e, last
<1>3. rows \in Seq(PacketType) /\ Len(rows) = n /\ (n = 1 => rows[1] = row)
  <2>1. rows = [i \in 1..n |-> row]
    OBVIOUS
  <2> HIDE DEF row, rows
  <2>2. rows \in [1..n -> PacketType] /\ \A i \in 1..n : rows[i] = row
    BY <1>1, <2>1
  <2>3. n \in Nat
    OBVIOUS
  <2> QED
    BY <2>2, <2>3
<1> HIDE DEF rows, row
<1>4. head \in Seq(PacketType) /\ Len(head) = 3 /\ head[1] = r /\ head[2] = f /\ head[3] = e
  BY <1>1
<1>5. <<last>> \in Seq(PacketType) /\ Len(<<last>>) = 1 /\ <<last>>[1] = last
  BY <1>1
<1> DEFINE tail == <<last>>
<1> HIDE DEF head, tail
<1>6. /\ lines \in Seq(PacketType) /\ Len(lines) = 3 + n
      /\ \A i \in 1..3 : lines[i] = head[i]
      /\ \A i \in 1..n : lines[3 + i] = rows[i]
  <2>1. /\ lines \in Seq(PacketType) /\ Len(lines) = Len(head) + Len(rows)
        /\ \A i \in 1..Len(head) : lines[i] = head[i]
        /\ \A i \in 1..Len(rows) : lines[Len(head) + i] = rows[i]
    <3>1. head \in Seq(PacketType) /\ rows \in Seq(PacketType)
      BY <1>3, <1>4
    <3> QED
      BY <3>1, ConcatIs
  <2> HIDE DEF lines
  <2> QED
    BY <1>3, <1>4, <2>1
<1> HIDE DEF lines
<1>7. tail \in Seq(PacketType) /\ Len(tail) = 1 /\ tail[1] = last
  BY <1>5 DEF tail
<1>8. s = lines \o tail
  BY <1>2 DEF lines, head, tail
<1> HIDE DEF s
<1>9. /\ s \in Seq(PacketType) /\ Len(s) = (3 + n) + 1
      /\ \A i \in 1..(3 + n) : s[i] = lines[i]
      /\ \A i \in 1..1 : s[(3 + n) + i] = tail[i]
  <2>1. /\ s \in Seq(PacketType) /\ Len(s) = Len(lines) + Len(tail)
        /\ \A i \in 1..Len(lines) : s[i] = lines[i]
        /\ \A i \in 1..Len(tail) : s[Len(lines) + i] = tail[i]
    BY <1>6, <1>7, <1>8, ConcatIs
  <2> QED
    BY <1>6, <1>7, <2>1
<1>10. s[1] = r /\ s[2] = f /\ s[3] = e
  BY <1>4, <1>6, <1>9
<1>11. n = 1 => s[4] = row
  <2>1. ASSUME n = 1 PROVE s[4] = lines[4] /\ lines[4] = rows[1]
    <3>1. 4 \in 1..(3 + n) /\ 1 \in 1..n /\ 3 + 1 = 4
      BY <2>1
    <3> QED
      BY <1>6, <1>9, <3>1
  <2> QED
    BY <1>3, <2>1
<1>12. s[n + 4] = last /\ Len(s) = n + 4
  <2>1. (3 + n) + 1 = n + 4 /\ 1 \in 1..1
    OBVIOUS
  <2> QED
    BY <1>7, <1>9, <2>1
<1> QED
  BY <1>1, <1>9, <1>10, <1>11, <1>12 DEF s

LEMMA ResultChains ==
    ASSUME NEW n \in {0, 1}, NEW b \in BOOLEAN, n = 0 => b
    PROVE  Chain(Result(n, b))
<1> DEFINE s == Result(n, b)
<1>1. /\ s \in Seq(PacketType) /\ Len(s) = n + 4
      /\ s[1].kind = "result" /\ s[2].kind = "field" /\ s[3].kind = "eof" /\ ~s[3].flag
      /\ n = 1 => s[4].kind = "row"
      /\ s[n + 4].kind = "eof" /\ s[n + 4].flag = b
  BY ResultIs
<1> HIDE DEF s
<1>2. s # <<>> /\ s[1].kind \in NextKinds
  BY <1>1 DEF NextKinds
<1>3. Goes(s[1], s[2]) /\ Goes(s[2], s[3])
  BY <1>1 DEF Goes
<1>4. CASE n = 0
  <2>1. Len(s) = 4 /\ s[4].kind = "eof" /\ s[4].flag
    <3>1. n + 4 = 4 /\ b = TRUE
      BY <1>4
    <3> QED
      BY <1>1, <3>1
  <2>2. Goes(s[3], s[4])
    BY <1>1, <2>1 DEF Goes
  <2>3. ~(s[2].kind \in {"row", "eof"}) /\ ~(s[1].kind \in {"row", "eof"})
    BY <1>1
  <2>4. \A i \in 1..3 : Goes(s[i], s[i + 1])
    BY <1>3, <2>2
  <2>5. \A i \in 1..2 : ~(s[i].kind \in {"row", "eof"})
    BY <2>3
  <2> QED
    BY <1>1, <1>2, <2>1, <2>4, <2>5 DEF Chain, s
<1>5. CASE n = 1
  <2>1. Len(s) = 5 /\ s[4].kind = "row" /\ s[5].kind = "eof"
    BY <1>1, <1>5
  <2>2. Goes(s[3], s[4]) /\ Goes(s[4], s[5])
    BY <1>1, <2>1 DEF Goes
  <2>3. ~(s[2].kind \in {"row", "eof"}) /\ ~(s[1].kind \in {"row", "eof"}) /\ s[4].kind # "eof"
    BY <1>1, <2>1
  <2>4. \A i \in 1..4 : Goes(s[i], s[i + 1])
    BY <1>3, <2>2
  <2>5. \A i \in 1..3 : ~(s[i].kind \in {"row", "eof"} /\ s[i + 1].kind = "eof")
    BY <2>3
  <2> QED
    BY <1>1, <1>2, <2>1, <2>4, <2>5 DEF Chain, s
<1> QED
  BY <1>4, <1>5

LEMMA ResultOfOne ==
    ASSUME NEW b \in BOOLEAN
    PROVE  LET s == Result(1, b)
           IN  /\ Chain(s) /\ s \in Seq(PacketType) /\ Len(s) = 5
               /\ s[1].kind = "result" /\ s[2].kind = "field" /\ s[3].kind = "eof" /\ ~s[3].flag
               /\ s[4].kind = "row" /\ s[5].kind = "eof"
<1> DEFINE n == 1
           s == Result(n, b)
<1>1. n = 1 /\ n \in {0, 1}
  OBVIOUS
<1> HIDE DEF n
<1>2. /\ s \in Seq(PacketType) /\ Len(s) = n + 4
      /\ s[1].kind = "result" /\ s[2].kind = "field" /\ s[3].kind = "eof" /\ ~s[3].flag
      /\ n = 1 => s[4].kind = "row"
      /\ s[n + 4].kind = "eof"
  BY <1>1, ResultIs
<1>3. Chain(s)
  BY <1>1, ResultChains
<1> HIDE DEF s
<1>4. n + 4 = 5
  BY <1>1
<1> QED
  BY <1>1, <1>2, <1>3, <1>4 DEF s, n

LEMMA ResultOfNone ==
    LET s == Result(0, TRUE)
    IN  /\ Chain(s) /\ s \in Seq(PacketType) /\ Len(s) = 4
        /\ s[1].kind = "result" /\ s[2].kind = "field" /\ s[3].kind = "eof"
        /\ s[4].kind = "eof" /\ s[4].flag
<1> DEFINE n == 0
           b == TRUE
           s == Result(n, b)
<1>1. n = 0 /\ n \in {0, 1} /\ b \in BOOLEAN /\ b
  OBVIOUS
<1> HIDE DEF n, b
<1>2. /\ s \in Seq(PacketType) /\ Len(s) = n + 4
      /\ s[1].kind = "result" /\ s[2].kind = "field" /\ s[3].kind = "eof"
      /\ s[n + 4].kind = "eof" /\ s[n + 4].flag = b
  BY <1>1, ResultIs
<1>3. Chain(s)
  BY <1>1, ResultChains
<1> HIDE DEF s
<1>4. n + 4 = 4
  BY <1>1
<1>5. s[4].kind = "eof" /\ s[4].flag /\ Len(s) = 4
  BY <1>1, <1>2, <1>4
<1> QED
  BY <1>1, <1>2, <1>3, <1>5 DEF s, n, b

(* One result after the other.                                             *)
LEMMA ChainConcat ==
    ASSUME NEW a, Chain(a), NEW b, Chain(b), a[Len(a)].kind \in {"ok", "eof"}, a[Len(a)].flag
    PROVE  /\ Chain(a \o b) /\ Len(a \o b) = Len(a) + Len(b) /\ (a \o b)[1] = a[1]
           /\ \A i \in 1..Len(a \o b) : \/ i \in 1..Len(a) /\ (a \o b)[i] = a[i]
                                        \/ i - Len(a) \in 1..Len(b) /\ (a \o b)[i] = b[i - Len(a)]
<1> DEFINE s == a \o b
           n == Len(a)
           k == Len(b)
<1>1. a \in Seq(PacketType) /\ b \in Seq(PacketType) /\ a # <<>> /\ b # <<>>
  BY DEF Chain
<1>2. /\ s \in Seq(PacketType) /\ Len(s) = n + k /\ n \in Nat /\ k \in Nat
      /\ \A i \in 1..n : s[i] = a[i]
      /\ \A i \in 1..k : s[n + i] = b[i]
  BY <1>1, ConcatIs
<1>3. n >= 1 /\ k >= 1
  BY <1>1, SeqBasics
<1>4. /\ a[1].kind \in NextKinds /\ b[1].kind \in NextKinds
      /\ \A i \in 1..(n - 1) : Goes(a[i], a[i + 1])
      /\ \A i \in 1..(k - 1) : Goes(b[i], b[i + 1])
      /\ \A i \in 1..(n - 2) : ~(a[i].kind \in {"row", "eof"} /\ a[i + 1].kind = "eof" /\ ~a[i + 1].flag)
      /\ \A i \in 1..(k - 2) : ~(b[i].kind \in {"row", "eof"} /\ b[i + 1].kind = "eof" /\ ~b[i + 1].flag)
      /\ a[n].kind \in {"ok", "eof"} /\ a[n].flag
  BY DEF Chain, NextKinds
<1> HIDE DEF s, n, k
<1>5. Goes(a[n], b[1])
  BY <1>4 DEF Goes
<1>6. b[1].kind # "eof"
  BY <1>4 DEF NextKinds
<1>7. \A i \in 1..(n + k) : i \in 1..n \/ (i - n \in 1..k /\ n + (i - n) = i)
  BY <1>2, <1>3
<1>8. \A i \in 1..(n + k) : \/ i \in 1..n /\ s[i] = a[i]
                            \/ i - n \in 1..k /\ s[i] = b[i - n]
  <2> SUFFICES ASSUME NEW i \in 1..(n + k)
               PROVE  \/ i \in 1..n /\ s[i] = a[i]
                      \/ i - n \in 1..k /\ s[i] = b[i - n]
    OBVIOUS
  <2> DEFINE j == i - n
  <2>1. i \in 1..n \/ (j \in 1..k /\ n + j = i)
    BY <1>7
  <2> HIDE DEF j
  <2>2. i \in 1..n => s[i] = a[i]
    BY <1>2
  <2>3. j \in 1..k /\ n + j = i => s[i] = b[j]
    BY <1>2
  <2> QED
    BY <2>1, <2>2, <2>3 DEF j
<1>9. ASSUME NEW i \in 1..((n + k) - 1) PROVE Goes(s[i], s[i + 1])
  <2>1. i \in 1..(n - 1) => i \in 1..n /\ i + 1 \in 1..n
    BY <1>2, <1>3
  <2>2. CASE i \in 1..(n - 1)
    BY <1>2, <1>4, <2>1, <2>2
  <2>3. CASE i = n
    <3>1. s[n] = a[n] /\ s[n + 1] = b[1]
      BY <1>2, <1>3
    <3> QED
      BY <1>5, <2>3, <3>1
  <2>4. CASE i \in (n + 1)..((n + k) - 1)
    <3> DEFINE j == i - n
    <3>1. j \in 1..(k - 1) /\ j \in 1..k /\ j + 1 \in 1..k /\ i = n + j /\ i + 1 = n + (j + 1)
      BY <1>2, <1>3, <2>4
    <3> HIDE DEF j
    <3>2. s[i] = b[j] /\ s[i + 1] = b[j + 1]
      BY <1>2, <3>1
    <3> QED
      BY <1>4, <3>1, <3>2
  <2> QED
    BY <1>2, <1>3, <2>2, <2>3, <2>4
<1>10. ASSUME NEW i \in 1..((n + k) - 2)
       PROVE  ~(s[i].kind \in {"row", "eof"} /\ s[i + 1].kind = "eof" /\ ~s[i + 1].flag)
  <2>1. CASE i \in 1..(n - 2)
    <3>1. i \in 1..n /\ i + 1 \in 1..n
      BY <1>2, <2>1
    <3> QED
      BY <1>2, <1>4, <2>1, <3>1
  <2>2. CASE i + 1 = n
    <3>1. s[n] = a[n]
      BY <1>2, <1>3
    <3> QED
      BY <1>4, <2>2, <3>1
  <2>3. CASE i = n
    <3>1. s[n + 1] = b[1]
      BY <1>2, <1>3
    <3> QED
      BY <1>6, <2>3, <3>1
  <2>4. CASE i \in (n + 1)..((n + k) - 2)
    <3> DEFINE j == i - n
    <3>1. j \in 1..(k - 2) /\ j \in 1..k /\ j + 1 \in 1..k /\ i = n + j /\ i + 1 = n + (j + 1)
      BY <1>2, <1>3, <2>4
    <3> HIDE DEF j
    <3>2. s[i] = b[j] /\ s[i + 1] = b[j + 1]
      BY <1>2, <3>1
    <3> QED
      BY <1>4, <3>1, <3>2
  <2> QED
    BY <1>2, <1>3, <2>1, <2>2, <2>3, <2>4
<1>11. s # <<>> /\ s[1] = a[1]
  BY <1>2, <1>3
<1>12. Chain(s)
  BY <1>2, <1>4, <1>9, <1>10, <1>11 DEF Chain
<1> QED
  BY <1>2, <1>8, <1>11, <1>12 DEF s, n, k

-----------------------------------------------------------------------------
(* The answers to a command.                                               *)

Plain(a) == \A i \in 1..Len(a) : a[i].kind # "file"

Replies(cmd, a) ==
    /\ Chain(a) /\ Len(a) <= 9
    /\ \A i \in 1..Len(a) : a[i].kind = "file" => cmd = "query" /\ i <= 5
    /\ cmd = "empty" => Len(a) <= 2
    /\ cmd \notin {"query", "execute"} => a[1].kind \in {"ok", "err"}
    /\ cmd = "ping" => ~a[1].flag
    /\ cmd = "execute" /\ a[1].kind = "ok" => ~a[1].flag

LEMMA PlainOnes ==
    /\ \A b \in BOOLEAN : Plain(Ok(b)) /\ Plain(Result(0, b)) /\ Plain(Result(1, b))
    /\ Chain(Error) /\ Len(Error) = 1 /\ Plain(Error) /\ Error[1].kind = "err" /\ ~Error[1].flag
<1>1. Chain(Error) /\ Len(Error) = 1 /\ Error[1].kind = "err" /\ ~Error[1].flag
  BY PlainIs DEF Error
<1>2. Plain(Error)
  BY <1>1 DEF Plain
<1>3. ASSUME NEW b \in BOOLEAN PROVE Plain(Ok(b))
  BY OkIs DEF Plain
<1>4. ASSUME NEW b \in BOOLEAN, NEW n \in {0, 1} PROVE Plain(Result(n, b))
  <2> DEFINE s == Result(n, b)
  <2>1. /\ Len(s) = n + 4
        /\ s[1].kind = "result" /\ s[2].kind = "field" /\ s[3].kind = "eof"
        /\ n = 1 => s[4].kind = "row"
        /\ s[n + 4].kind = "eof"
    BY ResultIs, ZenonT(60)
  <2> HIDE DEF s
  <2>2. ASSUME NEW i \in 1..Len(s) PROVE i \in {1, 2, 3} \/ (i = 4 /\ n = 1) \/ i = n + 4
    BY <2>1
  <2>3. \A i \in 1..Len(s) : s[i].kind # "file"
    BY <2>1, <2>2
  <2> QED
    BY <2>3 DEF Plain, s
<1> QED
  BY <1>1, <1>2, <1>3, <1>4

(* Rows that end with an error.                                            *)
LEMMA CutIs ==
    LET a == SubSeq(Result(1, FALSE), 1, 4) \o Error
    IN  Chain(a) /\ Len(a) = 5 /\ Plain(a) /\ a[1].kind = "result"
<1> DEFINE s == Result(1, FALSE)
           t == SubSeq(s, 1, 4)
           e == Error
           a == t \o e
<1>1. /\ s \in Seq(PacketType) /\ Len(s) = 5
      /\ s[1].kind = "result" /\ s[2].kind = "field" /\ s[3].kind = "eof" /\ ~s[3].flag
      /\ s[4].kind = "row"
  BY ResultOfOne
<1> HIDE DEF s
<1>2. t \in Seq(PacketType) /\ Len(t) = 4 /\ \A i \in 1..4 : t[i] = s[i]
  <2>1. \A i \in 1..Len(s) : s[i] \in PacketType
    BY <1>1, SeqBasics
  <2>2. \A i \in 1..4 : s[i] \in PacketType
    BY <1>1, <2>1
  <2> QED
    BY <2>2, SubSeqProperties
<1> HIDE DEF t
<1>3. e \in Seq(PacketType) /\ Len(e) = 1 /\ e[1].kind = "err"
  BY PlainOnes DEF Chain
<1> HIDE DEF e
<1>4. /\ a \in Seq(PacketType) /\ Len(a) = Len(t) + Len(e)
      /\ \A i \in 1..Len(t) : a[i] = t[i]
      /\ \A i \in 1..Len(e) : a[Len(t) + i] = e[i]
  <2>1. t \in Seq(PacketType) /\ e \in Seq(PacketType)
    BY <1>2, <1>3
  <2> QED
    BY <2>1, ConcatIs
<1> HIDE DEF a
<1>5. Len(a) = 5 /\ a[5] = e[1]
  <2>1. 1 \in 1..Len(e) /\ Len(t) + 1 = 5
    BY <1>2, <1>3
  <2> QED
    BY <1>2, <1>3, <1>4, <2>1
<1>6. a[1] = s[1] /\ a[2] = s[2] /\ a[3] = s[3] /\ a[4] = s[4]
  BY <1>2, <1>4
<1>7. /\ Goes(a[1], a[2]) /\ Goes(a[2], a[3]) /\ Goes(a[3], a[4]) /\ Goes(a[4], a[5])
  BY <1>1, <1>3, <1>5, <1>6 DEF Goes
<1>8. a[1].kind = "result" /\ a[2].kind = "field" /\ a[3].kind = "eof" /\ a[4].kind = "row" /\ a[5].kind = "err"
  BY <1>1, <1>3, <1>5, <1>6
<1>9. \A i \in 1..4 : Goes(a[i], a[i + 1])
  BY <1>7
<1>10. \A i \in 1..3 : ~(a[i].kind \in {"row", "eof"} /\ a[i + 1].kind = "eof")
  BY <1>8
<1>11. \A i \in 1..5 : a[i].kind # "file"
  BY <1>8
<1>12. a # <<>> /\ a[1].kind \in NextKinds
  BY <1>5, <1>8 DEF NextKinds
<1>13. Chain(a) /\ Len(a) = 5 /\ Plain(a) /\ a[1].kind = "result"
  <2>1. Plain(a)
    BY <1>5, <1>11 DEF Plain
  <2>2. a \in Seq(PacketType)
    BY <1>4
  <2>21. Len(a) - 1 = 4 /\ Len(a) - 2 = 3
    BY <1>5
  <2>3. Chain(a)
    BY <1>9, <1>10, <1>12, <2>2, <2>21 DEF Chain
  <2> QED
    BY <1>5, <1>8, <2>1, <2>3
<1> QED
  BY <1>13 DEF a, t, s, e

LEMMA LastIs ==
    ASSUME NEW a \in Last
    PROVE  /\ Chain(a) /\ Len(a) <= 5 /\ Len(a) \in Nat
           /\ \A i \in 1..Len(a) : a[i].kind = "file" => i = 1
<1>1. CASE a = Ok(FALSE)
  <2>1. Chain(a) /\ Len(a) = 1 /\ a[1].kind = "ok"
    BY <1>1, OkIs
  <2> QED
    BY <2>1
<1>2. CASE a = Error
  <2>1. Chain(a) /\ Len(a) = 1 /\ a[1].kind = "err"
    BY <1>2, PlainOnes
  <2> QED
    BY <2>1
<1>3. CASE a = Result(1, FALSE)
  <2>1. Chain(a) /\ Len(a) = 5 /\ a[1].kind = "result" /\ Plain(a)
    BY <1>3, ResultOfOne, PlainOnes
  <2> QED
    BY <2>1 DEF Plain
<1>4. CASE a = <<Packet("file", "none")>>
  <2>1. Chain(a) /\ Len(a) = 1 /\ a[1].kind = "file"
    BY <1>4, PlainIs
  <2> QED
    BY <2>1
<1>5. CASE a = Refusal
  <2>1. Chain(a) /\ Len(a) = 1 /\ a[1].kind = "readonly"
    BY <1>5, PlainIs DEF Refusal
  <2> QED
    BY <2>1
<1> QED
  BY <1>1, <1>2, <1>3, <1>4, <1>5 DEF Last

LEMMA QueryReplies ==
    ASSUME call.name # "Connect", NEW a \in Answers("query")
    PROVE  Replies("query", a)
<1> DEFINE C == {SubSeq(Result(1, FALSE), 1, 4) \o Error}
           F == {Ok(TRUE), Result(0, TRUE)}
           D == {first \o last : first \in F, last \in Last}
<1>1. Answers("query") = Last \cup C \cup D
  BY DEF Answers
<1>2. ASSUME Chain(a), Len(a) <= 5 PROVE Replies("query", a)
  <2>1. Len(a) \in Nat
    BY <1>2, SeqBasics DEF Chain
  <2> QED
    BY <1>2, <2>1 DEF Replies
<1>3. CASE a \in Last
  BY <1>2, <1>3, LastIs
<1>4. CASE a \in C
  <2>1. Chain(a) /\ Len(a) = 5
    BY <1>4, CutIs
  <2>2. Len(a) <= 5
    BY <2>1
  <2> QED
    BY <1>2, <2>1, <2>2
<1> HIDE DEF F
<1>5. CASE a \in D
  <2>1. PICK first \in F, last \in Last : a = first \o last
    BY <1>5
  <2>2. /\ Chain(first) /\ Len(first) \in {1, 4} /\ Plain(first)
        /\ first[Len(first)].kind \in {"ok", "eof"} /\ first[Len(first)].flag
    <3>1. CASE first = Ok(TRUE)
      BY <3>1, OkIs, PlainOnes
    <3>2. CASE first = Result(0, TRUE)
      <4>1. Chain(first) /\ Plain(first)
        BY <3>2, ResultOfNone, PlainOnes
      <4>2. Len(first) = 4 /\ first[4].kind = "eof" /\ first[4].flag
        BY <3>2, ResultOfNone
      <4> QED
        BY <4>1, <4>2
    <3> QED
      BY <2>1, <3>1, <3>2 DEF F
  <2>3. /\ Chain(last) /\ Len(last) <= 5 /\ Len(last) \in Nat
        /\ \A i \in 1..Len(last) : last[i].kind = "file" => i = 1
    BY <2>1, LastIs
  <2>4. /\ Chain(a) /\ Len(a) = Len(first) + Len(last)
        /\ \A i \in 1..Len(a) : \/ i \in 1..Len(first) /\ a[i] = first[i]
                                \/ i - Len(first) \in 1..Len(last) /\ a[i] = last[i - Len(first)]
    BY <2>1, <2>2, <2>3, ChainConcat
  <2>5. Len(a) <= 9
    BY <2>2, <2>3, <2>4
  <2>6. ASSUME NEW i \in 1..Len(a), a[i].kind = "file" PROVE i <= 5
    <3>1. i - Len(first) \in 1..Len(last) /\ a[i] = last[i - Len(first)]
      BY <2>2, <2>4, <2>6 DEF Plain
    <3>2. i - Len(first) = 1
      BY <2>3, <2>6, <3>1
    <3> DEFINE n == Len(first)
    <3>3. n \in {1, 4} /\ i - n = 1 /\ i \in Int
      BY <2>2, <3>2
    <3> HIDE DEF n
    <3> QED
      BY <3>3
  <2> QED
    BY <2>4, <2>5, <2>6 DEF Replies
<1> HIDE DEF C, D
<1> QED
  BY <1>1, <1>3, <1>4, <1>5

(* A statement that is done, and the next, which is done or refused.       *)
LEMMA TwoReplies ==
    ASSUME NEW f, f = Ok(TRUE) \/ f = Result(0, TRUE), NEW l, l = Ok(FALSE) \/ l = Refusal
    PROVE  /\ Chain(f \o l) /\ Plain(f \o l) /\ Len(f \o l) <= 5 /\ (f \o l)[1] = f[1]
           /\ f = Ok(TRUE) => Len(f \o l) = 2 /\ f[1].kind = "ok"
           /\ f = Result(0, TRUE) => f[1].kind = "result"
<1>2. /\ Chain(f) /\ Plain(f) /\ Len(f) \in {1, 4} /\ f[Len(f)].kind \in {"ok", "eof"} /\ f[Len(f)].flag
      /\ f = Ok(TRUE) => Len(f) = 1 /\ f[1].kind = "ok"
      /\ f = Result(0, TRUE) => f[1].kind = "result"
  <2>1. CASE f = Ok(TRUE)
    <3>1. Chain(f) /\ Plain(f) /\ Len(f) = 1 /\ f[1].kind = "ok" /\ f[1].flag
      BY <2>1, OkIs, PlainOnes
    <3>2. f # Result(0, TRUE)
      <4> SUFFICES ASSUME f = Result(0, TRUE) PROVE FALSE
        OBVIOUS
      <4>1. Len(f) = 4
        BY ResultOfNone
      <4>2. Len(f) = 1
        BY <3>1
      <4>3. 4 # 1
        OBVIOUS
      <4> QED
        BY <4>1, <4>2, <4>3, Zenon
    <3>3. f[Len(f)].kind = "ok" /\ f[Len(f)].flag
      BY <3>1
    <3> QED
      BY <3>1, <3>2, <3>3
  <2>2. CASE f = Result(0, TRUE)
    <3>1. Chain(f) /\ Plain(f)
      BY <2>2, ResultOfNone, PlainOnes
    <3>2. Len(f) = 4 /\ f[4].kind = "eof" /\ f[4].flag /\ f[1].kind = "result"
      BY <2>2, ResultOfNone
    <3>3. f # Ok(TRUE)
      <4>1. Len(Ok(TRUE)) = 1
        BY OkIs
      <4> QED
        BY <3>2, <4>1
    <3>4. f[Len(f)].kind = "eof" /\ f[Len(f)].flag
      BY <3>2
    <3> QED
      BY <3>1, <3>2, <3>3, <3>4
  <2> QED
    BY <2>1, <2>2
<1>3. Chain(l) /\ Plain(l) /\ Len(l) = 1
  <2>1. CASE l = Ok(FALSE)
    BY <2>1, OkIs, PlainOnes
  <2>2. CASE l = Refusal
    <3>1. Chain(l) /\ Len(l) = 1 /\ l[1].kind = "readonly"
      BY <2>2, PlainIs DEF Refusal
    <3> QED
      BY <3>1 DEF Plain
  <2> QED
    BY <2>1, <2>2
<1>4. /\ Chain(f \o l) /\ Len(f \o l) = Len(f) + Len(l) /\ (f \o l)[1] = f[1]
      /\ \A i \in 1..Len(f \o l) : \/ i \in 1..Len(f) /\ (f \o l)[i] = f[i]
                                   \/ i - Len(f) \in 1..Len(l) /\ (f \o l)[i] = l[i - Len(f)]
  BY <1>2, <1>3, ChainConcat
<1>5. Plain(f \o l)
  BY <1>2, <1>3, <1>4 DEF Plain
<1>6. Len(f \o l) <= 5 /\ (f = Ok(TRUE) => Len(f \o l) = 2)
  <2> DEFINE n == Len(f)
             k == Len(l)
             m == Len(f \o l)
  <2>1. n \in {1, 4} /\ k = 1 /\ m = n + k /\ (f = Ok(TRUE) => n = 1)
    BY <1>2, <1>3, <1>4
  <2> HIDE DEF n, k, m
  <2>2. m <= 5 /\ (n = 1 => m = 2)
    BY <2>1
  <2>3. f = Ok(TRUE) => m = 2
    BY <2>1, <2>2, Zenon
  <2> QED
    BY <2>2, <2>3 DEF m
<1> QED
  BY <1>2, <1>4, <1>5, <1>6

LEMMA OtherReplies ==
    ASSUME NEW cmd \in {"execute", "ping", "session", "commit", "empty"}, NEW a \in Answers(cmd)
    PROVE  Replies(cmd, a)
<1>1. \/ a \in {Ok(FALSE), Error}
      \/ cmd = "execute" /\ a \in {Refusal, Result(1, FALSE), Result(0, TRUE) \o Ok(FALSE),
                                    Result(0, TRUE) \o Refusal}
      \/ cmd = "empty" /\ a \in {Ok(TRUE) \o Ok(FALSE), Ok(TRUE) \o Refusal}
  <2>1. /\ Answers("ping") = {Ok(FALSE), Error} /\ Answers("session") = {Ok(FALSE), Error}
        /\ Answers("commit") = {Ok(FALSE), Error}
    BY DEF Answers
  <2>2. Answers("empty") = {Ok(FALSE), Error, Ok(TRUE) \o Ok(FALSE), Ok(TRUE) \o Refusal}
    BY DEF Answers
  <2>3. Answers("execute") = {Ok(FALSE), Error, Refusal, Result(1, FALSE), Result(0, TRUE) \o Ok(FALSE),
                              Result(0, TRUE) \o Refusal}
    BY DEF Answers
  <2>4. CASE cmd = "empty"
    BY <2>2, <2>4
  <2>5. CASE cmd = "execute"
    BY <2>3, <2>5
  <2>6. CASE cmd \in {"ping", "session", "commit"}
    BY <2>1, <2>6
  <2> QED
    BY <2>4, <2>5, <2>6
<1>2. CASE a \in {Ok(FALSE), Error}
  <2>1. Chain(a) /\ Len(a) = 1 /\ a[1].kind \in {"ok", "err"} /\ ~a[1].flag /\ Plain(a)
    BY <1>2, OkIs, PlainOnes
  <2> QED
    BY <2>1 DEF Replies, Plain
<1>3. CASE cmd = "execute" /\ a \in {Refusal, Result(1, FALSE), Result(0, TRUE) \o Ok(FALSE),
                                     Result(0, TRUE) \o Refusal}
  <2>1. CASE a = Result(1, FALSE)
    <3>1. Chain(a) /\ Len(a) = 5 /\ a[1].kind = "result" /\ Plain(a)
      BY <2>1, ResultOfOne, PlainOnes
    <3> QED
      BY <1>3, <3>1 DEF Replies, Plain
  <2>2. CASE a \in {Result(0, TRUE) \o Ok(FALSE), Result(0, TRUE) \o Refusal}
    <3> DEFINE f == Result(0, TRUE)
    <3>1. PICK l : (l = Ok(FALSE) \/ l = Refusal) /\ a = f \o l
      BY <2>2
    <3>2. f = Result(0, TRUE)
      OBVIOUS
    <3> HIDE DEF f
    <3>3. Chain(a) /\ Plain(a) /\ Len(a) <= 5 /\ a[1] = f[1] /\ f[1].kind = "result"
      BY <3>1, <3>2, TwoReplies
    <3>4. Len(a) \in Nat
      BY <3>3, SeqBasics DEF Chain
    <3> QED
      BY <1>3, <3>3, <3>4 DEF Replies, Plain
  <2>3. CASE a = Refusal
    <3>1. Chain(a) /\ Len(a) = 1 /\ a[1].kind = "readonly"
      BY <2>3, PlainIs DEF Refusal
    <3> QED
      BY <1>3, <3>1 DEF Replies
  <2> QED
    BY <1>3, <2>1, <2>2, <2>3
<1>4. CASE cmd = "empty" /\ a \in {Ok(TRUE) \o Ok(FALSE), Ok(TRUE) \o Refusal}
  <2> DEFINE f == Ok(TRUE)
  <2>1. PICK l : (l = Ok(FALSE) \/ l = Refusal) /\ a = f \o l
    BY <1>4
  <2>2. f = Ok(TRUE)
    OBVIOUS
  <2> HIDE DEF f
  <2>3. Chain(a) /\ Plain(a) /\ Len(a) = 2 /\ a[1] = f[1] /\ f[1].kind = "ok"
    BY <2>1, <2>2, TwoReplies
  <2> QED
    BY <1>4, <2>3 DEF Replies, Plain
<1> QED
  BY <1>1, <1>2, <1>3, <1>4

(* The answer to a statement that is prepared.                             *)
Prepares(a) ==
    /\ a \in Seq(PacketType) /\ a # <<>> /\ Len(a) <= 5
    /\ \A i \in 1..Len(a) : a[i].kind # "file"
    /\ \/ Len(a) = 1 /\ a[1].kind \in {"err", "prep0"}
       \/ Len(a) = 3 /\ a[1].kind = "prep1" /\ a[2].kind = "field" /\ a[3].kind = "eof"
       \/ /\ Len(a) = 5 /\ a[1].kind = "prep2" /\ a[2].kind = "field" /\ a[3].kind = "eof"
          /\ a[4].kind = "field" /\ a[5].kind = "eof"

LEMMA PrepareReplies ==
    ASSUME NEW a \in Answers("prepare")
    PROVE  Prepares(a)
<1> DEFINE x == Packet("prep0", "none")
           y == Packet("prep1", "none")
           z == Packet("prep2", "none")
           f == Packet("field", "none")
           e == Packet("eof", "none")
           r == Packet("err", "none")
<1>1. /\ x \in PacketType /\ y \in PacketType /\ z \in PacketType /\ f \in PacketType /\ e \in PacketType
      /\ r \in PacketType
      /\ x.kind = "prep0" /\ y.kind = "prep1" /\ z.kind = "prep2" /\ f.kind = "field" /\ e.kind = "eof"
      /\ r.kind = "err"
  BY PacketIs DEF Kinds
<1>2. a \in {<<r>>, <<x>>, <<y, f, e>>, <<z, f, e, f, e>>}
  BY DEF Answers, Error
<1> HIDE DEF x, y, z, f, e, r
<1>3. CASE a = <<r>> \/ a = <<x>>
  <2>1. a \in Seq(PacketType) /\ Len(a) = 1 /\ a[1].kind \in {"err", "prep0"}
    BY <1>1, <1>3
  <2> QED
    BY <2>1 DEF Prepares
<1>4. CASE a = <<y, f, e>>
  <2>1. a \in Seq(PacketType) /\ Len(a) = 3 /\ a[1] = y /\ a[2] = f /\ a[3] = e
    BY <1>1, <1>4
  <2>2. a[1].kind = "prep1" /\ a[2].kind = "field" /\ a[3].kind = "eof"
    BY <1>1, <2>1
  <2>3. \A i \in 1..3 : a[i].kind # "file"
    BY <2>2
  <2>4. a \in Seq(PacketType) /\ Len(a) = 3
    BY <2>1
  <2> QED
    BY <2>2, <2>3, <2>4 DEF Prepares
<1>5. CASE a = <<z, f, e, f, e>>
  <2>1. a \in Seq(PacketType) /\ Len(a) = 5 /\ a[1] = z /\ a[2] = f /\ a[3] = e /\ a[4] = f /\ a[5] = e
    BY <1>1, <1>5
  <2>2. a[1].kind = "prep2" /\ a[2].kind = "field" /\ a[3].kind = "eof" /\ a[4].kind = "field" /\ a[5].kind = "eof"
    BY <1>1, <2>1
  <2>3. \A i \in 1..5 : a[i].kind # "file"
    BY <2>2
  <2>4. a \in Seq(PacketType) /\ Len(a) = 5
    BY <2>1
  <2>5. a # <<>> /\ Len(a) <= 5 /\ \A i \in 1..Len(a) : a[i].kind # "file"
    BY <2>3, <2>4
  <2> QED
    BY <2>2, <2>4, <2>5 DEF Prepares
<1> QED
  BY <1>2, <1>3, <1>4, <1>5
=============================================================================
