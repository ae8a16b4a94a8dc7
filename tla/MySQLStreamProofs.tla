-------------------------- MODULE MySQLStreamProofs --------------------------
(***************************************************************************)
(* No call takes the answer of another for its own: what is under way on a *)
(* pooled connection always fits what the call has still to do.  A         *)
(* statement is retried only when the server has not executed it, and a    *)
(* connection that is handed on has nothing of an earlier call under way.  *)
(***************************************************************************)
EXTENDS MySQLProofs

-----------------------------------------------------------------------------
(* An answer is the one that the call expects.                             *)

(* What is left of a packet of an answer, but for its number.              *)
LEMMA NumberingIs ==
    ASSUME NEW a \in Seq(PacketType), NEW c \in CommandType
    PROVE  LET s == Numbering(a, c)
           IN  /\ s \in Seq(PacketType) /\ Len(s) = Len(a) /\ Len(a) \in Nat
               /\ \A i \in 1..Len(a) : /\ s[i].kind = a[i].kind /\ s[i].flag = a[i].flag
                                       /\ s[i].seq = Number(a, c.seq, i) /\ s[i].of = c.of
<1> DEFINE s == Numbering(a, c)
           n == Len(a)
<1>1. s \in Seq(PacketType) /\ Len(s) = n /\ \A i \in 1..n : s[i].kind = a[i].kind
  BY NumberingTyped
<1>2. n \in Nat /\ DOMAIN a = 1..n /\ \A i \in 1..n : a[i] \in PacketType
  BY SeqBasics
<1>3. c.seq \in Nat /\ c.of \in Nat
  BY DEF CommandType
<1>4. ASSUME NEW i \in 1..n
      PROVE  s[i].flag = a[i].flag /\ s[i].seq = Number(a, c.seq, i) /\ s[i].of = c.of
  <2> DEFINE p == a[i]
             k == Number(a, c.seq, i)
             q == [p EXCEPT !.seq = k]
  <2>0. i \in Nat /\ i >= 1
    BY <1>2
  <2>1. p \in PacketType /\ k \in Nat
    BY <1>2, <1>3, <2>0, NumberTyped
  <2>2. s[i] = [q EXCEPT !.of = c.of]
    BY <1>2 DEF Numbering
  <2> HIDE DEF p, k, s
  <2>3. q \in PacketType /\ q.seq = k /\ q.flag = p.flag
    BY <2>1 DEF PacketType
  <2> HIDE DEF q
  <2>4. [q EXCEPT !.of = c.of].of = c.of /\ [q EXCEPT !.of = c.of].seq = q.seq
        /\ [q EXCEPT !.of = c.of].flag = q.flag
    BY <2>3 DEF PacketType
  <2> QED
    BY <2>2, <2>3, <2>4 DEF p, k
<1> QED
  BY <1>1, <1>2, <1>4

(* A short answer with few columns: its numbers do not start again, each   *)
(* is past what the packet before stands for.                              *)
LEMMA NumberIs ==
    ASSUME NEW a, NEW seq \in Nat, NEW i \in Nat, i >= 1, Columns <= 25, seq + 25 * i <= 279
    PROVE  /\ Fields(a, i) \in Nat
           /\ Number(a, seq, i) = seq + i + (Columns - 1) * Fields(a, i)
           /\ Number(a, seq, i) \in (seq + 1)..(seq + 25 * i - 24)
<1> DEFINE f == Fields(a, i)
           m == Columns - 1
           d == m * f
<1>1. f \in Nat /\ f <= i - 1
  BY FieldsBefore
<1>2. m \in Nat /\ m <= 24
  BY ColumnsAssumption
<1>3. Number(a, seq, i) = (seq + i + d) % 256
  BY DEF Number
<1> HIDE DEF f, m
<1>4. d \in Nat /\ d <= 24 * (i - 1)
  <2>1. d \in Nat
    BY <1>1, <1>2
  <2>2. m * f <= 24 * f
    BY <1>1, <1>2
  <2>3. 24 * f <= 24 * (i - 1)
    BY <1>1
  <2> QED
    BY <1>1, <2>1, <2>2, <2>3
<1> HIDE DEF d
<1>5. (seq + i + d) % 256 = seq + i + d
  <2>1. seq + i + d \in Nat /\ seq + i + d <= 255
    BY <1>4
  <2> QED
    BY <2>1
<1>6. seq + i + d \in (seq + 1)..(seq + 25 * i - 24)
  BY <1>4
<1> QED
  BY <1>1, <1>3, <1>5, <1>6 DEF f, m, d

LEMMA NumbersAre ==
    ASSUME NEW a \in Seq(PacketType), NEW c \in CommandType, Columns <= 25, c.seq + 25 * Len(a) <= 279
    PROVE  LET s == Numbering(a, c)
           IN  /\ \A i \in 1..Len(a) : s[i].seq \in (c.seq + 1)..(c.seq + 25 * i - 24)
               /\ \A i \in 1..(Len(a) - 1) : s[i + 1].seq = s[i].seq + Span(s[i])
<1> DEFINE s == Numbering(a, c)
           n == Len(a)
           m == Columns - 1
           f(k) == Fields(a, k)
<1>1. n \in Nat /\ \A i \in 1..n : s[i].kind = a[i].kind /\ s[i].seq = Number(a, c.seq, i)
  BY NumberingIs
<1>2. c.seq \in Nat /\ m \in Nat /\ Columns = m + 1
  BY ColumnsAssumption DEF CommandType
<1>3. ASSUME NEW i \in 1..n
      PROVE  /\ i \in Nat /\ f(i) \in Nat
             /\ s[i].seq = c.seq + i + m * f(i)
             /\ s[i].seq \in (c.seq + 1)..(c.seq + 25 * i - 24)
  <2>1. i \in Nat /\ i >= 1 /\ c.seq + 25 * i <= 279
    BY <1>1, <1>2
  <2> DEFINE g == Number(a, c.seq, i)
  <2>2. /\ f(i) \in Nat /\ g = c.seq + i + m * f(i)
        /\ g \in (c.seq + 1)..(c.seq + 25 * i - 24)
    BY <1>2, <2>1, NumberIs
  <2>3. s[i].seq = g
    BY <1>1
  <2> HIDE DEF s, g, f, m
  <2> QED
    BY <2>1, <2>2, <2>3
<1>4. ASSUME NEW i \in 1..(n - 1) PROVE s[i + 1].seq = s[i].seq + Span(s[i])
  <2>1. i \in 1..n /\ i + 1 \in 1..n
    BY <1>1
  <2>2. f(i + 1) = f(i) + IF a[i].kind = "field" THEN 1 ELSE 0
    <3>1. i \in Nat /\ i >= 1
      BY <1>1
    <3> QED
      BY <3>1, FieldsBefore
  <2> DEFINE x == f(i)
             y == f(i + 1)
  <2>3. x \in Nat /\ s[i].seq = c.seq + i + m * x /\ s[i + 1].seq = c.seq + (i + 1) + m * y
    BY <1>3, <2>1
  <2>4. s[i].kind = a[i].kind /\ i \in Nat
    BY <1>1, <2>1
  <2>5. y = x + IF a[i].kind = "field" THEN 1 ELSE 0
    BY <2>2
  <2> HIDE DEF x, y, s, m
  <2>6. CASE a[i].kind = "field"
    <3>1. m * (x + 1) = m * x + m
      BY <1>2, <2>3
    <3>2. m * x \in Nat /\ y = x + 1
      BY <1>2, <2>3, <2>5, <2>6
    <3>3. Span(s[i]) = m + 1
      BY <1>2, <2>4, <2>6 DEF Span
    <3> DEFINE z == m * x
               w == m * y
    <3>4. z \in Nat /\ w = z + m
      BY <1>2, <2>3, <3>1, <3>2
    <3>5. s[i].seq = c.seq + i + z /\ s[i + 1].seq = c.seq + (i + 1) + w
      BY <2>3
    <3> DEFINE p == s[i].seq
               q == s[i + 1].seq
               k == Span(s[i])
               e == c.seq
    <3>6. e \in Nat /\ m \in Nat /\ i \in Nat /\ k = m + 1
      BY <1>2, <2>4, <3>3
    <3>7. p = e + i + z /\ q = e + (i + 1) + w
      BY <3>5
    <3> HIDE DEF z, w, p, q, k, e
    <3>8. q = p + k
      BY <3>4, <3>6, <3>7
    <3> QED
      BY <3>8 DEF p, q, k
  <2>7. CASE a[i].kind # "field"
    <3>1. m * x \in Nat /\ y = x
      BY <1>2, <2>3, <2>5, <2>7
    <3>2. Span(s[i]) = 1
      BY <2>4, <2>7 DEF Span
    <3> DEFINE z == m * x
               w == m * y
               p == s[i].seq
               q == s[i + 1].seq
               e == c.seq
    <3>3. z \in Nat /\ w = z
      BY <3>1
    <3>4. e \in Nat /\ p = e + i + z /\ q = e + (i + 1) + w
      BY <1>2, <2>3
    <3> HIDE DEF z, w, p, q, e
    <3>5. q = p + 1
      BY <2>4, <3>3, <3>4
    <3> QED
      BY <3>2, <3>5 DEF p, q
  <2> QED
    BY <2>6, <2>7
<1> QED
  BY <1>1, <1>3, <1>4

(* Without columns it is one number after the other, whatever Columns is.  *)
LEMMA PlainNumbers ==
    ASSUME NEW a \in Seq(PacketType), NEW c \in CommandType, \A i \in 1..Len(a) : a[i].kind # "field"
    PROVE  \A i \in 1..Len(a) : Numbering(a, c)[i].seq = (c.seq + i) % 256
<1> SUFFICES ASSUME NEW i \in 1..Len(a) PROVE Numbering(a, c)[i].seq = (c.seq + i) % 256
  OBVIOUS
<1> DEFINE S == {j \in 1..(i - 1) : a[j].kind = "field"}
           f == Fields(a, i)
           m == Columns - 1
<1>1. Numbering(a, c)[i].seq = Number(a, c.seq, i) /\ Len(a) \in Nat
  BY NumberingIs
<1>2. S = {}
  BY <1>1
<1>3. f = 0
  BY <1>2, FS_EmptySet DEF Fields
<1>4. Number(a, c.seq, i) = (c.seq + i + m * f) % 256
  BY DEF Number
<1>5. m \in Nat /\ c.seq \in Nat
  BY ColumnsAssumption DEF CommandType
<1> HIDE DEF f, m
<1>6. m * f = 0
  BY <1>3, <1>5
<1>7. c.seq + i + m * f = c.seq + i
  BY <1>1, <1>5, <1>6
<1> QED
  BY <1>1, <1>4, <1>7

(* What the call does while a command is under way.                        *)
LEMMA AwaitsFacts ==
    ASSUME TypeOK, Pooled, TasksInv, call.todo # <<>>, NEW cmd,
           Awaits(call.name, At(call.todo, 1).do, cmd)
    PROVE  LET do == At(call.todo, 1).do
           IN  /\ call.name # "Connect"
               /\ cmd \in {"query", "execute", "session", "commit", "ping", "empty", "prepare"}
               /\ call.name = "Prepare" <=> do = "prepared"
               /\ do = "prepared" <=> cmd = "prepare"
               /\ do = "header" => /\ call.name \notin RowCalls
                                   /\ cmd \in {"execute", "query", "session", "commit"}
                                   /\ call.name = "StmtQuery" => cmd = "execute"
               /\ do = "ok" => cmd = IF call.name = "Ping" THEN "ping" ELSE "empty"
               /\ do \in {"header", "ok", "any", "prepared"}
<1> DEFINE t == At(call.todo, 1)
           u == At(call.todo, 2)
<1>1. /\ Leads(call.name, t, u, At(call.todo, 3)) /\ call.name # "Connect"
      /\ u.do # "none" => Leads(call.name, u, At(call.todo, 3), At(call.todo, 4))
  BY TaskFacts
<1> HIDE DEF t, u
<1>2. t.do = "prepared" => call.name = "Prepare"
  BY <1>1 DEF Leads
<1>3. t.do = "header" => call.name # "Prepare"
  BY <1>1 DEF Leads
<1>4. t.do = "ok" => call.name # "Prepare"
  <2>1. SUFFICES ASSUME t.do = "ok", call.name = "Prepare" PROVE FALSE
    OBVIOUS
  <2>2. u.do = "discard"
    BY <1>1, <2>1 DEF Leads, QueryLike
  <2> QED
    BY <1>1, <2>1, <2>2 DEF Leads
<1> QED
  BY <1>1, <1>2, <1>3, <1>4 DEF Awaits, t

LEMMA ChainIsOrderly ==
    ASSUME NEW a, Chain(a), NEW c \in CommandType, Columns <= 25, c.seq + 25 * Len(a) <= 279
    PROVE  Orderly(Numbering(a, c))
<1> DEFINE s == Numbering(a, c)
           n == Len(a)
<1>1. a \in Seq(PacketType)
      /\ (\A i \in 1..(n - 1) : Goes(a[i], a[i + 1]))
      /\ (\A i \in 1..(n - 2) : ~(a[i].kind \in {"row", "eof"} /\ a[i + 1].kind = "eof" /\ ~a[i + 1].flag))
  BY DEF Chain
<1>2. Len(s) = n /\ n \in Nat /\ \A i \in 1..n : s[i].kind = a[i].kind /\ s[i].flag = a[i].flag
  BY <1>1, NumberingIs
<1>3. \A i \in 1..(n - 1) : s[i + 1].seq = s[i].seq + Span(s[i])
  BY <1>1, NumbersAre
<1> HIDE DEF s, n
<1>4. ASSUME NEW i \in 1..(n - 1) PROVE Follows(s[i], s[i + 1])
  <2>1. i \in 1..n /\ i + 1 \in 1..n
    BY <1>2
  <2>3. s[i + 1].seq = s[i].seq + Span(s[i])
    BY <1>3
  <2>4. Goes(a[i], a[i + 1])
    BY <1>1
  <2>5. Goes(s[i], s[i + 1])
    BY <1>2, <2>1, <2>4 DEF Goes
  <2> QED
    BY <2>3, <2>5 DEF Follows, Goes
<1>5. ASSUME NEW i \in 1..(n - 2)
      PROVE  ~(s[i].kind \in {"row", "eof"} /\ s[i + 1].kind = "eof" /\ ~s[i + 1].flag)
  <2>1. i \in 1..n /\ i + 1 \in 1..n
    BY <1>2
  <2> QED
    BY <1>1, <1>2, <2>1
<1>6. Orderly(s)
  BY <1>2, <1>4, <1>5 DEF Orderly
<1> QED
  BY <1>6 DEF s

(* The numbers of an answer are those of a new command's, or of a file's.  *)
LEMMA RepliesShort ==
    ASSUME NEW c \in CommandType, NEW a, Replies(c.cmd, a), c.seq <= IF c.cmd = "empty" THEN 112 ELSE 1
    PROVE  c.seq + 25 * Len(a) <= 279 /\ Len(a) \in Nat /\ (c.cmd # "empty" => c.seq <= 1)
<1> DEFINE n == Len(a)
           k == c.seq
<1>1. a \in Seq(PacketType) /\ n <= 9 /\ (c.cmd = "empty" => n <= 2)
  BY DEF Replies, Chain
<1>2. n \in Nat
  BY <1>1, SeqBasics
<1>3. k \in Nat /\ (c.cmd = "empty" => k <= 112) /\ (c.cmd # "empty" => k <= 1)
  BY DEF CommandType
<1> HIDE DEF n, k
<1>4. k + 25 * n <= 279
  <2>1. CASE c.cmd = "empty"
    <3>1. k <= 112 /\ n <= 2
      BY <1>1, <1>3, <2>1
    <3> QED
      BY <1>2, <1>3, <3>1
  <2>2. CASE c.cmd # "empty"
    <3>1. k <= 1 /\ n <= 9
      BY <1>1, <1>3, <2>2
    <3> QED
      BY <1>2, <1>3, <3>1
  <2> QED
    BY <2>1, <2>2
<1> QED
  BY <1>2, <1>3, <1>4 DEF n, k

LEMMA RepliesRange ==
    ASSUME NEW c \in CommandType, NEW a, Replies(c.cmd, a), Columns <= 25,
           c.seq <= IF c.cmd = "empty" THEN 112 ELSE 1
    PROVE  LET s == Numbering(a, c)
           IN  \A i \in 1..Len(s) : s[i].seq \in 1..210 /\ (s[i].kind = "file" => s[i].seq <= 110)
<1> DEFINE s == Numbering(a, c)
           n == Len(a)
           k == c.seq
<1>1. a \in Seq(PacketType)
  BY DEF Replies, Chain
<1>2. /\ n <= 9 /\ (c.cmd = "empty" => n <= 2)
      /\ \A i \in 1..n : a[i].kind = "file" => c.cmd = "query" /\ i <= 5
  BY DEF Replies
<1>3. c.seq + 25 * n <= 279 /\ n \in Nat /\ (c.cmd # "empty" => k <= 1)
  BY RepliesShort
<1>4. /\ Len(s) = n
      /\ \A i \in 1..n : s[i].kind = a[i].kind
  BY <1>1, NumberingIs
<1>5. k \in Nat /\ (c.cmd = "empty" => k <= 112)
  BY DEF CommandType
<1>6. \A i \in 1..n : s[i].seq \in (k + 1)..(k + 25 * i - 24)
  BY <1>1, <1>3, NumbersAre
<1> HIDE DEF s, n, k
<1>7. ASSUME NEW i \in 1..n PROVE s[i].seq \in 1..210 /\ (s[i].kind = "file" => s[i].seq <= 110)
  <2> DEFINE x == s[i].seq
  <2>1. i \in Nat /\ i >= 1 /\ i <= n /\ x \in (k + 1)..(k + 25 * i - 24)
    BY <1>3, <1>6
  <2> HIDE DEF x
  <2>2. x \in Nat /\ x >= 1 /\ x <= k + 25 * i - 24
    BY <1>5, <2>1
  <2>3. CASE c.cmd = "empty"
    <3>1. k <= 112 /\ i <= 2
      BY <1>2, <1>3, <1>5, <2>1, <2>3
    <3>2. x <= 210
      BY <1>5, <2>1, <2>2, <3>1
    <3>3. s[i].kind # "file"
      BY <1>2, <1>4, <2>3
    <3> QED
      BY <2>2, <3>2, <3>3 DEF x
  <2>4. CASE c.cmd # "empty"
    <3>1. k <= 1 /\ i <= 9
      BY <1>2, <1>3, <2>1, <2>4
    <3>2. x <= 210
      BY <1>5, <2>1, <2>2, <3>1
    <3>3. ASSUME s[i].kind = "file" PROVE x <= 110
      <4>1. i <= 5
        BY <1>2, <1>4, <3>3
      <4> QED
        BY <1>5, <2>1, <2>2, <3>1, <4>1
    <3> QED
      BY <2>2, <3>2, <3>3 DEF x
  <2> QED
    BY <2>3, <2>4
<1> QED
  BY <1>4, <1>7 DEF s

LEMMA PreparesRange ==
    ASSUME NEW c \in CommandType, NEW a, Prepares(a), Columns <= 25, c.seq <= 1
    PROVE  LET s == Numbering(a, c)
           IN  \A i \in 1..Len(s) : s[i].seq \in 1..210 /\ (s[i].kind = "file" => s[i].seq <= 110)
<1> DEFINE s == Numbering(a, c)
           n == Len(a)
           k == c.seq
<1>1. a \in Seq(PacketType) /\ n <= 5 /\ \A i \in 1..n : a[i].kind # "file"
  BY DEF Prepares
<1>4. /\ Len(s) = n /\ n \in Nat
      /\ \A i \in 1..n : s[i].kind = a[i].kind
  BY <1>1, NumberingIs
<1>5. k \in Nat /\ k <= 1
  BY DEF CommandType
<1>6. k + 25 * n <= 279
  BY <1>1, <1>4, <1>5
<1>7. \A i \in 1..n : s[i].seq \in (k + 1)..(k + 25 * i - 24)
  BY <1>1, <1>6, NumbersAre
<1> HIDE DEF s, n, k
<1>15. ASSUME NEW i \in 1..n PROVE s[i].seq \in 1..210 /\ s[i].kind # "file"
  <2> DEFINE x == s[i].seq
  <2>1. i \in Nat /\ i >= 1 /\ i <= 5 /\ x \in (k + 1)..(k + 25 * i - 24) /\ s[i].kind # "file"
    BY <1>1, <1>4, <1>7
  <2> HIDE DEF x
  <2>2. x \in 1..210
    BY <1>5, <2>1
  <2> QED
    BY <2>1, <2>2 DEF x
<1> QED
  BY <1>4, <1>15 DEF s

LEMMA RepliesExpected ==
    ASSUME TypeOK, Pooled, TasksInv, call.todo # <<>>, NEW c \in CommandType,
           Awaits(call.name, At(call.todo, 1).do, c.cmd), c.cmd # "prepare",
           NEW a, Replies(c.cmd, a), Columns <= 25, c.seq <= IF c.cmd = "empty" THEN 112 ELSE 1
    PROVE  Expected(call, Numbering(a, c))
<1> DEFINE s == Numbering(a, c)
           n == Len(a)
           do == At(call.todo, 1).do
<1>1. Chain(a) /\ a \in Seq(PacketType) /\ a # <<>> /\ a[1].kind \in NextKinds
  BY DEF Replies, Chain
<1>2. /\ n <= 9
      /\ \A i \in 1..n : a[i].kind = "file" => c.cmd = "query" /\ i <= 5
      /\ c.cmd = "empty" => n <= 2
      /\ c.cmd \notin {"query", "execute"} => a[1].kind \in {"ok", "err"}
      /\ c.cmd = "ping" => ~a[1].flag
      /\ c.cmd = "execute" /\ a[1].kind = "ok" => ~a[1].flag
  BY DEF Replies
<1>13. c.seq + 25 * Len(a) <= 279
  BY RepliesShort
<1>3. Orderly(s)
  BY <1>1, <1>13, ChainIsOrderly
<1>4. /\ Len(s) = n /\ n \in Nat
      /\ \A i \in 1..n : s[i].kind = a[i].kind /\ s[i].flag = a[i].flag
  BY <1>1, NumberingIs
<1>14. \A i \in 1..n : s[i].seq \in (c.seq + 1)..(c.seq + 25 * i - 24)
  BY <1>1, <1>13, NumbersAre
<1>5. c.seq \in Nat
  BY DEF CommandType
<1>6. 1 \in 1..n
  BY <1>1, SeqBasics
<1>7. /\ c.cmd \in {"query", "execute", "session", "commit", "ping", "empty"}
      /\ call.name # "Prepare"
      /\ do = "header" => /\ call.name \notin RowCalls /\ c.cmd \in {"execute", "query", "session", "commit"}
                          /\ call.name = "StmtQuery" => c.cmd = "execute"
      /\ do = "ok" => c.cmd = IF call.name = "Ping" THEN "ping" ELSE "empty"
      /\ do \in {"header", "ok", "any"}
  BY AwaitsFacts
<1> HIDE DEF s, n, do
<1>8. s[1].kind = a[1].kind /\ s[1].flag = a[1].flag /\ s[1].seq >= 1
  <2>1. s[1].seq >= 1
    <3> DEFINE x == s[1].seq
               k == c.seq
    <3>1. x \in (k + 1)..(k + 25 * 1 - 24) /\ k \in Nat
      BY <1>5, <1>6, <1>14
    <3> HIDE DEF x, k
    <3>2. x >= 1
      BY <3>1
    <3> QED
      BY <3>2 DEF x
  <2> QED
    BY <1>4, <1>6, <2>1
<1>9. do = "header" => AtHeader(call, s)
  <2>1. do = "header" /\ call.name = "StmtQuery" => s[1].kind # "file" /\ (s[1].kind = "ok" => ~s[1].flag)
    BY <1>2, <1>6, <1>7, <1>8
  <2> QED
    BY <1>1, <1>7, <1>8, <2>1 DEF AtHeader
<1>10. do = "ok" => AtOk(call, s)
  BY <1>2, <1>7, <1>8 DEF AtOk
<1>11. Phase(call, s)
  BY <1>7, <1>9, <1>10 DEF Phase, do
<1>12. Expected(call, s)
  BY <1>3, <1>7, <1>11 DEF Expected
<1> QED
  BY <1>12 DEF s

LEMMA PreparesExpected ==
    ASSUME TypeOK, Pooled, TasksInv, call.todo # <<>>, NEW c \in CommandType,
           Awaits(call.name, At(call.todo, 1).do, c.cmd), c.cmd = "prepare",
           NEW a, Prepares(a)
    PROVE  Expected(call, Numbering(a, c))
<1> DEFINE s == Numbering(a, c)
           n == Len(a)
           r == Tail(s)
<1>1. /\ a \in Seq(PacketType) /\ a # <<>> /\ n <= 5
      /\ \A i \in 1..n : a[i].kind # "file"
  BY DEF Prepares
<1>2. \/ n = 1 /\ a[1].kind \in {"err", "prep0"}
      \/ n = 3 /\ a[1].kind = "prep1" /\ a[2].kind = "field" /\ a[3].kind = "eof"
      \/ /\ n = 5 /\ a[1].kind = "prep2" /\ a[2].kind = "field" /\ a[3].kind = "eof"
         /\ a[4].kind = "field" /\ a[5].kind = "eof"
  BY DEF Prepares
<1>3. s \in Seq(PacketType)
  BY <1>1, NumberingIs
<1>4. /\ Len(s) = n /\ n \in Nat
      /\ \A i \in 1..n : s[i].kind = a[i].kind
  BY <1>1, NumberingIs
<1>5. c.seq \in Nat
  BY DEF CommandType
<1>6. call.name = "Prepare" /\ At(call.todo, 1).do = "prepared"
  BY AwaitsFacts
<1> HIDE DEF s, n
<1>7. s # <<>> /\ n >= 1
  BY <1>2, <1>3, <1>4, SeqBasics
<1>8. /\ r \in Seq(PacketType) /\ Len(r) = n - 1
      /\ \A i \in 1..Len(r) : r[i] = s[i + 1] /\ i + 1 \in 1..Len(s)
  <2>1. /\ r \in Seq(PacketType) /\ Len(r) = Len(s) - 1
        /\ \A i \in 1..Len(r) : r[i] = s[i + 1] /\ i + 1 \in 1..Len(s)
    BY <1>3, <1>7, SeqBasics
  <2> QED
    BY <1>4, <2>1
<1>9. \A i \in 1..(n - 1) : r[i].kind = a[i + 1].kind
  <2> SUFFICES ASSUME NEW i \in 1..(n - 1) PROVE r[i].kind = a[i + 1].kind
    OBVIOUS
  <2>1. i \in 1..Len(r) /\ i + 1 \in 1..n
    BY <1>4, <1>8
  <2> QED
    BY <1>4, <1>8, <2>1
<1>10. s[1].kind = a[1].kind
  BY <1>4, <1>7
<1> HIDE DEF r
<1>11. ASSUME n = 1 PROVE AtPrepared(s)
  <2>1. r = <<>>
    BY <1>8, <1>11, SeqBasics
  <2>2. Idle(r)
    BY <2>1 DEF Idle
  <2>3. s[1].kind \in {"err", "prep0"}
    BY <1>2, <1>10, <1>11
  <2> QED
    BY <2>2, <2>3 DEF AtPrepared, r
<1>12. ASSUME n = 3 PROVE AtPrepared(s)
  <2>1. Len(r) = 2 /\ r[1].kind = "field" /\ r[2].kind = "eof"
    BY <1>2, <1>8, <1>9, <1>12
  <2>2. \A i \in 1..Len(r) : i <= 2 /\ r[i].kind = IF 2 - i \in {1, 3} THEN "field" ELSE "eof"
    <3>1. ASSUME NEW i \in 1..Len(r) PROVE i = 1 \/ i = 2
      BY <2>1
    <3>2. 2 - 1 \in {1, 3} /\ 2 - 2 \notin {1, 3}
      OBVIOUS
    <3> QED
      BY <2>1, <3>1, <3>2
  <2>3. Listing(r, 1)
    <3> DEFINE k == IF r[1].kind = "field" THEN 2 * 1 ELSE 2 * 1 - 1
    <3>1. k = 2
      BY <2>1
    <3> HIDE DEF k
    <3>2. \A i \in 1..Len(r) : r[i].of = 0 \/ (i <= k /\ r[i].kind = IF k - i \in {1, 3} THEN "field" ELSE "eof")
      BY <2>2, <3>1
    <3> QED
      BY <3>2 DEF Listing, k
  <2>4. s[1].kind = "prep1"
    BY <1>2, <1>10, <1>12
  <2> QED
    BY <2>3, <2>4 DEF AtPrepared, r
<1>13. ASSUME n = 5 PROVE AtPrepared(s)
  <2>1. Len(r) = 4 /\ r[1].kind = "field" /\ r[2].kind = "eof" /\ r[3].kind = "field" /\ r[4].kind = "eof"
    BY <1>2, <1>8, <1>9, <1>13
  <2>2. \A i \in 1..Len(r) : i <= 4 /\ r[i].kind = IF 4 - i \in {1, 3} THEN "field" ELSE "eof"
    <3>1. ASSUME NEW i \in 1..Len(r) PROVE i \in {1, 2, 3, 4}
      BY <2>1
    <3>2. 4 - 1 \in {1, 3} /\ 4 - 2 \notin {1, 3} /\ 4 - 3 \in {1, 3} /\ 4 - 4 \notin {1, 3}
      OBVIOUS
    <3> QED
      BY <2>1, <3>1, <3>2
  <2>3. Listing(r, 2)
    <3> DEFINE k == IF r[1].kind = "field" THEN 2 * 2 ELSE 2 * 2 - 1
    <3>1. k = 4
      BY <2>1
    <3> HIDE DEF k
    <3>2. \A i \in 1..Len(r) : r[i].of = 0 \/ (i <= k /\ r[i].kind = IF k - i \in {1, 3} THEN "field" ELSE "eof")
      BY <2>2, <3>1
    <3> QED
      BY <3>2 DEF Listing, k
  <2>4. s[1].kind = "prep2"
    BY <1>2, <1>10, <1>13
  <2> QED
    BY <2>3, <2>4 DEF AtPrepared, r
<1>14. Expected(call, s)
  <2>1. AtPrepared(s)
    BY <1>2, <1>11, <1>12, <1>13
  <2> QED
    BY <1>6, <2>1 DEF Expected
<1> QED
  BY <1>14 DEF s

-----------------------------------------------------------------------------
(* The server takes a command and sends its answer.                        *)

LEMMA ServerFacts ==
    ASSUME Front, Server
    PROVE  LET c == Head(net.out)
           IN  /\ net.out # <<>> /\ c = net.out[1] /\ c \in CommandType /\ 1 \in 1..Len(net.out)
               /\ net'.out = Tail(net.out) /\ net'.buf = net.buf /\ net'.up = net.up
               /\ mc' = mc /\ call' = call /\ held' = held
               /\ \E a \in Answers(c.cmd) :
                     /\ a \in Seq(PacketType)
                     /\ net'.wire = IF net.up /\ ~mc.closed THEN net.wire \o Numbering(a, c) ELSE net.wire
<1> DEFINE c == Head(net.out)
<1>1. TypeOK /\ NumbersInv /\ net \in NetType
  BY FrontFacts
<1>2. net.out # <<>> /\ UNCHANGED <<mc, call, held, watcher, conf>>
  BY DEF Server
<1>3. net.out \in Seq(CommandType)
  BY <1>1 DEF NetType
<1>4. c = net.out[1] /\ c \in CommandType /\ 1 \in 1..Len(net.out)
  BY <1>2, <1>3, SeqBasics
<1>5. c.cmd \notin {"response", "secret"}
  BY <1>1, <1>4 DEF NumbersInv
<1>6. ServerAnswers(c)
  BY <1>5 DEF Server
<1>7. PICK a \in Answers(c.cmd) :
         net' = [net EXCEPT !.out = Tail(@), !.wire =
                  IF net.up /\ ~mc.closed
                  THEN @ \o Numbering(a, c)
                  ELSE @]
  BY <1>6 DEF ServerAnswers
<1>8. a \in Seq(PacketType)
  BY <1>4, AnswersTyped DEF CommandType
<1> DEFINE s == Numbering(a, c)
           wire == IF net.up /\ ~mc.closed THEN net.wire \o s ELSE net.wire
           out == Tail(net.out)
<1>9. s = Numbering(a, c)
  BY DEF Numbering
<1>10. net' = [net EXCEPT !.out = out, !.wire = wire]
  BY <1>7
<1> HIDE DEF wire, out
<1>11. net'.out = out /\ net'.wire = wire /\ net'.buf = net.buf /\ net'.up = net.up
  BY <1>1, <1>10 DEF NetType
<1>12. wire = IF net.up /\ ~mc.closed THEN net.wire \o Numbering(a, c) ELSE net.wire
  BY <1>9 DEF wire
<1> HIDE DEF c
<1> QED
  BY <1>2, <1>4, <1>8, <1>11, <1>12 DEF out, c

LEMMA SilentTail ==
    ASSUME NEW o \in Seq(CommandType), o # <<>>, NEW c, NEW h
    PROVE  /\ Silent(o) => Silent(Tail(o))
           /\ Alone(c, h, o) => Alone(c, h, Tail(o))
           /\ Alone(c, h, o) /\ Asks(o[1]) => Silent(Tail(o))
           /\ Among(Tail(o), o)
<1> DEFINE p == Tail(o)
<1>1. /\ 1 \in 1..Len(o) /\ Len(o) \in Nat
      /\ \A i \in 1..Len(p) : p[i] = o[i + 1] /\ i + 1 \in 1..Len(o) /\ i \in Nat /\ i >= 1
  BY SeqBasics
<1> HIDE DEF p
<1>2. Silent(o) => Silent(p)
  BY <1>1 DEF Silent
<1>3. Alone(c, h, o) => Alone(c, h, p)
  <2>1. SUFFICES ASSUME Alone(c, h, o) PROVE Alone(c, h, p)
    OBVIOUS
  <2>2. ASSUME NEW i \in 1..Len(p), NEW j \in 1..Len(p), Asks(p[i]), Asks(p[j]) PROVE i = j
    <3>1. i + 1 = j + 1
      BY <1>1, <2>1, <2>2 DEF Alone
    <3> QED
      BY <1>1, <3>1
  <2>3. ASSUME NEW i \in 1..Len(p), Asks(p[i])
        PROVE  p[i].of = OwnerOf(c, h) /\ Awaits(c.name, At(c.todo, 1).do, p[i].cmd)
    BY <1>1, <2>1, <2>3 DEF Alone
  <2> QED
    BY <2>2, <2>3 DEF Alone
<1>4. Alone(c, h, o) /\ Asks(o[1]) => Silent(p)
  <2>1. SUFFICES ASSUME Alone(c, h, o), Asks(o[1]), NEW i \in 1..Len(p), Asks(p[i]) PROVE FALSE
    BY DEF Silent
  <2>2. i + 1 = 1
    BY <1>1, <2>1 DEF Alone
  <2> QED
    BY <1>1, <2>2
<1>5. Among(p, o)
  BY <1>1 DEF Among
<1> QED
  BY <1>2, <1>3, <1>4, <1>5 DEF p

LEMMA AnsweredFits ==
    ASSUME NEW c, NEW h, NEW m, NEW o \in Seq(CommandType), o # <<>>, Asks(o[1]),
           NEW s \in Seq(PacketType), Fits(c, h, m, o, s), NEW b \in Seq(PacketType),
           o[1].of = OwnerOf(c, h) /\ Awaits(c.name, At(c.todo, 1).do, o[1].cmd)
             => Of(b, OwnerOf(c, h)) /\ Expected(c, b)
    PROVE  Fits(c, h, m, Tail(o), s \o b)
<1> DEFINE t == At(c.todo, 1)
<1>1. 1 \in 1..Len(o)
  BY SeqBasics
<1>2. ~Silent(o)
  BY <1>1 DEF Silent
<1>3. ASSUME t.do \in Reading PROVE Reads(c, h, m, Tail(o), s \o b)
  <2>1. Reads(c, h, m, o, s)
    BY <1>3 DEF Fits
  <2>2. Alone(c, h, o)
    BY <2>1 DEF Reads
  <2>3. o[1].of = OwnerOf(c, h) /\ Awaits(c.name, t.do, o[1].cmd)
    BY <1>1, <2>2 DEF Alone
  <2>4. Silent(Tail(o)) /\ Alone(c, h, Tail(o))
    BY <2>2, SilentTail
  <2>5. CASE Blocked(c, h, m, s)
    <3>1. s # <<>>
      BY <2>5 DEF Blocked
    <3>2. s \o b # <<>> /\ (s \o b)[1] = s[1]
      BY <3>1, TailConcat
    <3>3. Blocked(c, h, m, s \o b)
      BY <2>5, <3>2 DEF Blocked
    <3> QED
      BY <2>4, <3>3 DEF Reads
  <2>6. CASE s = <<>>
    <3>1. s \o b = b
      BY <2>6
    <3>2. Of(b, OwnerOf(c, h)) /\ Expected(c, b)
      BY <2>3
    <3> QED
      BY <2>4, <3>1, <3>2 DEF Reads
  <2> QED
    BY <1>2, <2>1, <2>5, <2>6 DEF Reads
<1>4. t.do \notin {"discard", "more"} /\ ~IsFile(t)
  <2>1. t.do \in {"discard", "more"} => Looks(c, h, m, o, s)
    BY DEF Fits
  <2>2. IsFile(t) => Silent(o)
    BY DEF Fits
  <2> QED
    BY <1>2, <2>1, <2>2 DEF Looks
<1>5. ~(Runs(c) /\ ~Lost(c, m) /\ (t.do \in Starting \/ (t.do = "write" /\ ~IsFile(t))))
  BY <1>2 DEF Fits
<1>6. ~(~Runs(c) /\ Reports(c) /\ ~Lost(c, m))
  BY <1>2 DEF Fits
<1>7. ~(c.name = "Prepare" /\ (c.err = "nil" \/ (t.do = "write" /\ c.err # "running")))
  BY <1>2 DEF Fits
<1> QED
  BY <1>3, <1>4, <1>5, <1>6, <1>7 DEF Fits

LEMMA UnaskedKeepsStream ==
    ASSUME Front, net.out # <<>>, net'.out = Tail(net.out), Stream' = Stream, BufferInv',
           net'.up = net.up, mc' = mc, call' = call, held' = held
    PROVE  StreamInv' /\ NumbersInv'
<1> DEFINE o == net.out
<1>1. /\ NumbersInv /\ net \in NetType /\ Stream \in Seq(PacketType) /\ Marked(Stream, net.up)
      /\ Fits(call, held, mc, net.out, Stream)
  BY FrontFacts
<1>2. o \in Seq(CommandType)
  BY <1>1 DEF NetType
<1>3. /\ Silent(o) => Silent(Tail(o))
      /\ Alone(call, held, o) => Alone(call, held, Tail(o))
      /\ Among(Tail(o), o)
  BY <1>2, SilentTail
<1>4. Part(Stream, Stream) /\ Among(Stream, Stream)
  BY <1>1, SeqBasics DEF Part, Among
<1>5. Fits(call, held, mc, Tail(o), Stream)
  BY <1>1, <1>3, <1>4, FitsShrinks
<1>6. NumbersInv'
  BY <1>1, <1>3, <1>4, NumbersKept DEF NumbersInv, First, Reported
<1> QED
  BY <1>1, <1>5, <1>6 DEF StreamInv


(* An answer is put behind what is there already.                          *)
LEMMA StreamGrows ==
    ASSUME Front, net.up, net'.up = net.up, net'.buf = net.buf, NEW b \in Seq(PacketType),
           net'.wire = net.wire \o b, \A i \in 1..Len(b) : b[i].of # 0
    PROVE  /\ Stream' = Stream \o b /\ Marked(Stream', net'.up) /\ BufferInv'
           /\ \A i \in 1..Len(Stream') : \/ \E j \in 1..Len(Stream) : Stream'[i] = Stream[j]
                                         \/ \E j \in 1..Len(b) : Stream'[i] = b[j]
<1> DEFINE s == Stream
           w == net.wire
<1>1. Marked(s, net.up) /\ BufferInv /\ TypeOK /\ s \in Seq(PacketType)
  BY FrontFacts
<1>2. /\ net.buf \in Seq(PacketType) /\ w \in Seq(PacketType)
      /\ Len(s) = Len(net.buf) + Len(w)
      /\ \A i \in 1..Len(w) : s[Len(net.buf) + i] = w[i]
  BY <1>1, StreamTyped
<1>3. \A i \in 1..Len(s) : s[i].of # 0
  BY <1>1 DEF Marked
<1>4. \A i \in 1..Len(w) : w[i].of # 0
  <2>1. ASSUME NEW i \in 1..Len(w) PROVE Len(net.buf) + i \in 1..Len(s)
    <3> DEFINE m == Len(net.buf)
               n == Len(w)
    <3>1. m \in Nat /\ n \in Nat
      BY <1>2
    <3> HIDE DEF m, n
    <3>2. i \in 1..n
      BY DEF n
    <3>3. m + i \in 1..(m + n)
      BY <3>1, <3>2
    <3> QED
      BY <1>2, <3>3 DEF m, n
  <2> QED
    BY <1>2, <1>3, <2>1
<1>5. Stream' = s \o b
  <2> DEFINE f == net.buf
  <2>1. Stream' = f \o (w \o b)
    BY DEF Stream
  <2>2. s = f \o w
    BY DEF Stream
  <2> HIDE DEF s, w, f
  <2>3. f \in Seq(PacketType) /\ w \in Seq(PacketType)
    BY <1>2 DEF f
  <2>4. (f \o w) \o b = f \o (w \o b)
    BY <2>3, ThreeParts
  <2> QED
    BY <2>1, <2>2, <2>4
<1> HIDE DEF s, w
<1>6. ASSUME NEW x \in Seq(PacketType), NEW i \in 1..Len(x \o b)
      PROVE  (\E j \in 1..Len(x) : (x \o b)[i] = x[j]) \/ (\E j \in 1..Len(b) : (x \o b)[i] = b[j])
  <2> DEFINE k == i - Len(x)
  <2>1. /\ Len(x \o b) = Len(x) + Len(b) /\ Len(x) \in Nat /\ Len(b) \in Nat
        /\ \A j \in 1..Len(x) : (x \o b)[j] = x[j]
        /\ \A j \in 1..Len(b) : (x \o b)[Len(x) + j] = b[j]
    <3>1. x \in Seq(PacketType)
      BY <1>6
    <3> QED
      BY <3>1, ConcatIs
  <2>2. i \in 1..Len(x) \/ (k \in 1..Len(b) /\ Len(x) + k = i)
    BY <1>6, <2>1
  <2> HIDE DEF k
  <2> QED
    BY <2>1, <2>2
<1>7. \A i \in 1..Len(Stream') : \/ \E j \in 1..Len(s) : Stream'[i] = s[j]
                                 \/ \E j \in 1..Len(b) : Stream'[i] = b[j]
  BY <1>1, <1>5, <1>6
<1>8. Marked(Stream', net'.up)
  BY <1>3, <1>7 DEF Marked
<1>9. \A i \in 1..Len(net'.wire) : net'.wire[i].of # 0
  BY <1>2, <1>4, <1>6 DEF w
<1>10. BufferInv'
  BY <1>1, <1>9 DEF BufferInv
<1> QED
  BY <1>5, <1>7, <1>8, <1>10 DEF s

LEMMA NoAnswers ==
    ASSUME NEW cmd \in {"none", "ssl", "stmtClose", "longdata", "content"}, NEW a \in Answers(cmd)
    PROVE  a = <<>>
<1>1. /\ Answers("none") = {<<>>} /\ Answers("ssl") = {<<>>} /\ Answers("stmtClose") = {<<>>}
      /\ Answers("longdata") = {<<>>} /\ Answers("content") = {<<>>}
  BY DEF Answers
<1> QED
  BY <1>1

(* The numbers of the packets of any answer are small, and an answer that  *)
(* is awaited is the expected one.                                         *)
LEMMA AnswerFits ==
    ASSUME Front, NEW c \in CommandType, c.of # 0, Asks(c), NEW a \in Answers(c.cmd), a # <<>>,
           c.cmd \notin {"response", "secret"}, c.seq <= IF c.cmd = "empty" THEN 112 ELSE 1
    PROVE  LET b == Numbering(a, c)
           IN  /\ b \in Seq(PacketType)
               /\ \A i \in 1..Len(b) :
                    b[i].of # 0 /\ b[i].seq \in 1..210 /\ (b[i].kind = "file" => b[i].seq <= 110)
               /\ call.todo # <<>> /\ c.of = OwnerOf(call, held) /\ Awaits(call.name, At(call.todo, 1).do, c.cmd)
                    => Of(b, OwnerOf(call, held)) /\ Expected(call, b)
<1> DEFINE b == Numbering(a, c)
           awaited == call.todo # <<>> /\ Awaits(call.name, At(call.todo, 1).do, c.cmd)
<1>0. NumbersInv
  BY FrontFacts
<1>8. Columns <= 25
  BY <1>0 DEF NumbersInv
<1>1. TypeOK /\ Pooled /\ TasksInv
  BY FrontFacts
<1>2. call.name # "Connect"
  BY <1>1 DEF Pooled
<1>3. c.cmd \in {"query", "execute", "ping", "session", "commit", "empty", "prepare"}
  <2>1. c.cmd \notin {"stmtClose", "longdata", "content"}
    BY DEF Asks
  <2>2. c.cmd \in Commands
    BY DEF CommandType
  <2>3. c.cmd \in {"none", "ssl"} => a = <<>>
    BY NoAnswers
  <2> QED
    BY <2>1, <2>2, <2>3 DEF Commands
<1>4. a \in Seq(PacketType)
  BY AnswersTyped DEF CommandType
<1>5. b \in Seq(PacketType) /\ \A i \in 1..Len(b) : b[i].of = c.of
  BY <1>4, NumberingIs
<1>6. CASE c.cmd = "prepare"
  <2>1. Prepares(a)
    BY <1>6, PrepareReplies
  <2>2. c.seq <= 1
    BY <1>6
  <2>3. \A i \in 1..Len(b) : b[i].seq \in 1..210 /\ (b[i].kind = "file" => b[i].seq <= 110)
    BY <1>8, <2>1, <2>2, PreparesRange
  <2>4. awaited => Expected(call, b)
    BY <1>1, <1>6, <2>1, PreparesExpected
  <2> QED
    BY <1>5, <2>3, <2>4 DEF Of
<1>7. CASE c.cmd # "prepare"
  <2>1. Replies(c.cmd, a)
    BY <1>2, <1>3, <1>7, QueryReplies, OtherReplies
  <2>2. \A i \in 1..Len(b) : b[i].seq \in 1..210 /\ (b[i].kind = "file" => b[i].seq <= 110)
    BY <1>8, <2>1, RepliesRange
  <2>3. awaited => Expected(call, b)
    BY <1>1, <1>7, <1>8, <2>1, RepliesExpected
  <2> QED
    BY <1>5, <2>2, <2>3 DEF Of
<1> QED
  BY <1>6, <1>7

LEMMA ServerKeepsStream ==
    ASSUME Front, Server
    PROVE  StreamInv' /\ NumbersInv'
<1> DEFINE c == Head(net.out)
           o == net.out
<1>1. /\ o # <<>> /\ c = o[1] /\ c \in CommandType /\ 1 \in 1..Len(o)
      /\ net'.out = Tail(o) /\ net'.buf = net.buf /\ net'.up = net.up
      /\ mc' = mc /\ call' = call /\ held' = held
  BY ServerFacts
<1>2. PICK a \in Answers(c.cmd) :
         /\ a \in Seq(PacketType)
         /\ net'.wire = IF net.up /\ ~mc.closed THEN net.wire \o Numbering(a, c) ELSE net.wire
  BY ServerFacts
<1>3. /\ TypeOK /\ NumbersInv /\ BufferInv /\ net \in NetType /\ Stream \in Seq(PacketType)
      /\ Fits(call, held, mc, o, Stream) /\ Marked(Stream, net.up)
      /\ call.todo = <<>> => ~Awaits(call.name, At(call.todo, 1).do, c.cmd)
  <2>1. At(<<>>, 1).do = "none"
    BY DEF At, None, Task
  <2> QED
    BY <2>1, FrontFacts DEF Awaits
<1>4. c.of # 0 /\ c.cmd \notin {"ssl", "response", "secret"}
      /\ (Asks(c) => c.seq <= IF c.cmd = "empty" THEN 112 ELSE 1)
  BY <1>1, <1>3 DEF NumbersInv
<1> DEFINE b == Numbering(a, c)
<1> HIDE DEF c, o
<1>5. b \in Seq(PacketType) /\ Len(b) = Len(a)
  BY <1>1, <1>2, NumberingIs
<1>6. net.wire \in Seq(PacketType)
  BY <1>3 DEF NetType
<1>7. CASE ~(net.up /\ ~mc.closed) \/ a = <<>>
  <2>1. net'.wire = net.wire
    <3>1. CASE ~(net.up /\ ~mc.closed)
      BY <1>2, <3>1
    <3>2. CASE a = <<>>
      <4>1. b = <<>>
        BY <1>5, <3>2, SeqBasics
      <4> QED
        BY <1>2, <1>6, <4>1
    <3> QED
      BY <1>7, <3>1, <3>2
  <2>2. Stream' = Stream /\ BufferInv'
    BY <1>1, <1>3, <2>1 DEF Stream, BufferInv
  <2> QED
    BY <1>1, <2>2, UnaskedKeepsStream DEF o
<1>8. CASE net.up /\ ~mc.closed /\ a # <<>>
  <2>1. Asks(c)
    <3>1. c.cmd \in {"stmtClose", "longdata", "content"} => a = <<>>
      BY <1>2, NoAnswers
    <3> QED
      BY <1>8, <3>1 DEF Asks
  <2>2. /\ \A i \in 1..Len(b) : b[i].of # 0 /\ b[i].seq \in 1..210 /\ (b[i].kind = "file" => b[i].seq <= 110)
        /\ call.todo # <<>> /\ c.of = OwnerOf(call, held) /\ Awaits(call.name, At(call.todo, 1).do, c.cmd)
              => Of(b, OwnerOf(call, held)) /\ Expected(call, b)
    BY <1>1, <1>2, <1>4, <1>8, <2>1, AnswerFits, ZenonT(60)
  <2>3. net'.wire = net.wire \o b
    BY <1>2, <1>8
  <2>4. /\ Stream' = Stream \o b /\ Marked(Stream', net'.up) /\ BufferInv'
        /\ \A i \in 1..Len(Stream') : \/ \E j \in 1..Len(Stream) : Stream'[i] = Stream[j]
                                      \/ \E j \in 1..Len(b) : Stream'[i] = b[j]
    BY <1>1, <1>5, <1>8, <2>2, <2>3, StreamGrows
  <2>5. o \in Seq(CommandType)
    BY <1>3 DEF NetType, o
  <2> HIDE DEF b
  <2>6. Fits(call, held, mc, Tail(o), Stream \o b)
    BY <1>1, <1>3, <1>5, <2>1, <2>2, <2>5, AnsweredFits
  <2>7. StreamInv'
    BY <1>1, <2>4, <2>6 DEF StreamInv
  <2>8. Among(Tail(o), o)
    BY <1>1, <2>5, SilentTail
  <2>9. NumbersInv'
    <3>1. \A i \in 1..Len(Stream') :
             Stream'[i].of # 0 =>
                Stream'[i].seq \in 1..210 /\ (Stream'[i].kind = "file" => Stream'[i].seq <= 110)
      <4> DEFINE LowNumber(q) == q.of # 0 => q.seq \in 1..210 /\ (q.kind = "file" => q.seq <= 110)
      <4>1. \A i \in 1..Len(Stream) : LowNumber(Stream[i])
        BY <1>3 DEF NumbersInv
      <4>2. \A i \in 1..Len(b) : LowNumber(b[i])
        BY <2>2
      <4> HIDE DEF LowNumber
      <4>3. \A i \in 1..Len(Stream') : LowNumber(Stream'[i])
        BY <2>4, <4>1, <4>2
      <4> QED
        BY <4>3 DEF LowNumber
    <3>2. \A i \in 1..Len(net'.out) :
             /\ net'.out[i].of # 0 /\ net'.out[i].cmd \notin {"ssl", "response", "secret"}
             /\ Asks(net'.out[i]) => net'.out[i].seq <= IF net'.out[i].cmd = "empty" THEN 112 ELSE 1
      <4> DEFINE Command(q) ==
                    /\ q.of # 0 /\ q.cmd \notin {"ssl", "response", "secret"}
                    /\ Asks(q) => q.seq <= IF q.cmd = "empty" THEN 112 ELSE 1
      <4>1. \A i \in 1..Len(o) : Command(o[i])
        BY <1>3 DEF NumbersInv, o
      <4>2. net'.out = Tail(o)
        BY <1>1
      <4> HIDE DEF Command
      <4>3. \A i \in 1..Len(net'.out) : Command(net'.out[i])
        BY <2>8, <4>1, <4>2 DEF Among
      <4> QED
        BY <4>3 DEF Command
    <3>3. Columns <= 25
      BY <1>3 DEF NumbersInv
    <3> QED
      BY <1>1, <1>3, <3>1, <3>2, <3>3 DEF NumbersInv, First, Reported
  <2> QED
    BY <2>7, <2>9
<1> QED
  BY <1>7, <1>8

-----------------------------------------------------------------------------
(* What the goroutine of the client does not do itself.                    *)

LEMMA LosingKeepsStream ==
    ASSUME Front, call' = call, held' = held, net'.out \in {net.out, <<>>},
           Part(Stream', Stream), Among(Stream', Stream), Stream' \in Seq(PacketType),
           Marked(Stream', net'.up), BufferInv',
           mc'.more = mc.more, mc'.sequence = mc.sequence,
           mc.closed => mc'.closed, mc.canceled => mc'.canceled
    PROVE  StreamInv' /\ NumbersInv'
<1> DEFINE o == net.out
           p == net'.out
<1>1. /\ NumbersInv /\ Stream \in Seq(PacketType) /\ Marked(Stream, net.up)
      /\ Fits(call, held, mc, o, Stream) /\ mc \in ConnType /\ net \in NetType
  BY FrontFacts
<1>2. /\ Silent(o) => Silent(p)
      /\ Alone(call, held, o) => Alone(call, held, p)
      /\ Among(p, o)
  <2>1. CASE p = o
    <3>1. o \in Seq(CommandType)
      BY <1>1 DEF NetType
    <3> QED
      BY <2>1, <3>1 DEF Among
  <2>2. CASE p = <<>>
    <3>1. \A i \in 1..Len(p) : FALSE
      BY <2>2
    <3> HIDE DEF p, o
    <3> QED
      BY <3>1 DEF Silent, Alone, Among
  <2> QED
    BY <2>1, <2>2
<1> HIDE DEF o, p
<1>3. Fits(call, held, mc, p, Stream')
  BY <1>1, <1>2, FitsShrinks
<1>4. Lost(call, mc) => Lost(call, mc')
  BY DEF Lost
<1>5. Fits(call, held, mc', p, Stream')
  BY <1>3, <1>4, FitsClosed
<1>6. StreamInv'
  BY <1>5 DEF StreamInv, p
<1>7. NumbersInv'
  <2>1. /\ mc.sequence <= 240
        /\ IsFile(First) => mc.sequence <= IF First.cmd = "content" THEN 111 ELSE 112
        /\ First.do \in Reading \cup {"discard", "more"} => mc.sequence >= 1
        /\ held.of # 0 /\ Reported /\ ~mc.closed => mc.sequence >= 1
    BY <1>1 DEF NumbersInv
  <2>2. First' = First /\ (Reported' <=> Reported)
    BY DEF First, Reported
  <2>3. Among(net'.out, net.out)
    BY <1>2 DEF o, p
  <2>4. mc'.sequence <= 240
    BY <2>1
  <2>5. IsFile(First') => mc'.sequence <= IF First'.cmd = "content" THEN 111 ELSE 112
    BY <2>1, <2>2
  <2>6. First'.do \in Reading \cup {"discard", "more"} => mc'.sequence >= 1
    BY <2>1, <2>2
  <2>7. held'.of # 0 /\ Reported' /\ ~mc'.closed => mc'.sequence >= 1
    BY <2>1, <2>2
  <2> QED
    BY <1>1, <2>3, <2>4, <2>5, <2>6, <2>7, NumbersKept
<1> QED
  BY <1>6, <1>7

LEMMA BreakKeepsStream ==
    ASSUME Front, Break
    PROVE  StreamInv' /\ NumbersInv'
<1>1. net \in NetType /\ UNCHANGED <<mc, call, held>>
  BY FrontFacts DEF Break
<1>2. PICK k \in 0..Len(net.wire), out \in {net.out, <<>>} :
         net' = [net EXCEPT !.up = FALSE, !.faulty = TRUE, !.wire = SubSeq(@, 1, k), !.out = out]
  BY DEF Break
<1> DEFINE w == SubSeq(net.wire, 1, k)
<1>3. net'.out = out /\ net'.wire = w /\ net'.buf = net.buf /\ net'.up = FALSE
  BY <1>1, <1>2 DEF NetType
<1>4. w \in Seq(PacketType) /\ Part(w, net.wire)
  <2>1. net.wire \in Seq(PacketType)
    BY <1>1 DEF NetType
  <2> DEFINE v == net.wire
  <2> HIDE DEF v
  <2>2. v \in Seq(PacketType) /\ k \in 0..Len(v)
    BY <2>1 DEF v
  <2>3. /\ SubSeq(v, 1, k) \in Seq(PacketType) /\ Len(SubSeq(v, 1, k)) = k
        /\ \A i \in 1..k : SubSeq(v, 1, k)[i] = v[i]
    <3>1. Len(v) \in Nat /\ k \in Nat /\ k <= Len(v) /\ \A i \in 1..Len(v) : v[i] \in PacketType
      BY <2>2
    <3>2. \A i \in 1..k : v[i] \in PacketType
      BY <3>1
    <3> QED
      BY <2>2, <3>1, <3>2
  <2>4. k <= Len(v)
    BY <2>2
  <2> QED
    BY <2>3, <2>4 DEF Part, v
<1>5. /\ Part(Stream', Stream) /\ Among(Stream', Stream) /\ Stream' \in Seq(PacketType)
      /\ Marked(Stream', net'.up) /\ BufferInv'
  BY <1>3, <1>4, StreamShrinks
<1> QED
  BY <1>1, <1>3, <1>5, LosingKeepsStream

LEMMA WatcherKeepsStream ==
    ASSUME Front, Watcher \/ ResetSession \/ CancelContext
    PROVE  StreamInv' /\ NumbersInv'
<1>1. net \in NetType /\ mc \in ConnType
  BY FrontFacts
<1>2. /\ call' = call /\ held' = held
      /\ net' = net \/ net' = Dropped(net)
      /\ mc' = mc \/ mc' = Closed(mc) \/ mc' = [mc EXCEPT !.canceled = TRUE] \/ mc' = [mc EXCEPT !.reset = TRUE]
  <2>1. CASE Watcher
    BY <2>1 DEF Watcher, WatcherTakes, WatcherEnds, WatcherSees, WatcherCloses
  <2>2. CASE ResetSession \/ CancelContext
    BY <2>2 DEF ResetSession, CancelContext
  <2> QED
    BY <2>1, <2>2
<1>3. net'.out = net.out /\ net'.buf = net.buf /\ net'.up = net.up /\ net'.wire \in {net.wire, <<>>}
  BY <1>1, <1>2 DEF NetType, Dropped
<1>4. /\ mc'.more = mc.more /\ mc'.sequence = mc.sequence
      /\ mc.closed => mc'.closed
      /\ mc.canceled => mc'.canceled
  <2>1. CASE mc' = mc
    BY <2>1
  <2>2. CASE mc' = Closed(mc)
    BY <1>1, <2>2 DEF ConnType, Closed
  <2>3. CASE mc' = [mc EXCEPT !.canceled = TRUE] \/ mc' = [mc EXCEPT !.reset = TRUE]
    BY <1>1, <2>3 DEF ConnType
  <2> QED
    BY <1>2, <2>1, <2>2, <2>3
<1>5. /\ Part(Stream', Stream) /\ Among(Stream', Stream) /\ Stream' \in Seq(PacketType)
      /\ Marked(Stream', net'.up) /\ BufferInv'
  BY <1>3, StreamDropped
<1> QED
  BY <1>2, <1>3, <1>4, <1>5, LosingKeepsStream

(* The error of a server that closes comes after what is left of rows.     *)
LEMMA RestClosed ==
    ASSUME NEW s \in Seq(PacketType), Marked(s, TRUE), NEW p \in PacketType, p.of = 0,
           NEW c, NEW h, NEW m
    PROVE  /\ Idle(s) => Idle(s \o <<p>>)
           /\ Rest(c, h, m, s) => Rest(c, h, m, s \o <<p>>)
<1> DEFINE e == <<p>>
           t == s \o e
<1>1. e \in Seq(PacketType) /\ Len(e) = 1 /\ e[1] = p
  OBVIOUS
<1> HIDE DEF e
<1>2. /\ t \in Seq(PacketType) /\ Len(t) = Len(s) + 1 /\ Len(s) \in Nat
      /\ \A i \in 1..Len(s) : t[i] = s[i]
      /\ t[Len(s) + 1] = p
  <2>1. /\ t \in Seq(PacketType) /\ Len(t) = Len(s) + Len(e) /\ Len(s) \in Nat
        /\ \A i \in 1..Len(s) : t[i] = s[i]
        /\ \A i \in 1..Len(e) : t[Len(s) + i] = e[i]
    <3>1. e \in Seq(PacketType)
      BY <1>1
    <3> QED
      BY <3>1, ConcatIs
  <2> HIDE DEF t
  <2> QED
    BY <1>1, <2>1
<1>3. Idle(s) <=> s = <<>>
  <2>1. \A i \in 1..Len(s) : s[i].of # 0
    BY DEF Marked
  <2>2. s # <<>> => 1 \in 1..Len(s)
    BY SeqBasics
  <2> QED
    BY <2>1, <2>2 DEF Idle
<1>4. s = <<>> => t = e
  BY <1>1
<1>5. Idle(s) => Idle(t)
  BY <1>1, <1>3, <1>4 DEF Idle
<1>6. s # <<>> => t[1] = s[1] /\ Tail(t) = Tail(s) \o e /\ Tail(s) \in Seq(PacketType) /\ t # <<>>
  BY <1>1, TailConcat
<1>7. s # <<>> /\ Idle(Tail(s)) => Idle(Tail(t))
  <2>1. SUFFICES ASSUME s # <<>>, Idle(Tail(s)) PROVE Idle(Tail(t))
    OBVIOUS
  <2>2. Marked(Tail(s), TRUE)
    BY <2>1, MarkedTail
  <2>3. Tail(s) = <<>>
    <3> DEFINE v == Tail(s)
    <3>1. v \in Seq(PacketType) /\ (v # <<>> => v[1].of = 0) /\ Marked(v, TRUE)
      BY <1>6, <2>1, <2>2 DEF Idle
    <3> HIDE DEF v
    <3>2. v # <<>> => 1 \in 1..Len(v)
      BY <3>1, SeqBasics
    <3> QED
      BY <3>1, <3>2 DEF Marked, v
  <2>4. Tail(t) = e
    <3>1. Tail(t) = Tail(s) \o e
      BY <1>6, <2>1
    <3>2. <<>> \o e = e
      BY <1>1
    <3> QED
      BY <2>3, <3>1, <3>2
  <2> QED
    BY <1>1, <2>4 DEF Idle
<1> HIDE DEF t
<1> DEFINE n == Len(s)
<1>8. Of(s, h.of) => Of(t, h.of)
  <2>1. ASSUME NEW i \in 1..Len(t) PROVE i \in 1..n \/ i = n + 1
    BY <1>2
  <2> HIDE DEF n
  <2> QED
    BY <1>2, <2>1 DEF Of, n
<1>9. Orderly(s) => Orderly(t)
  <2>1. SUFFICES ASSUME Orderly(s) PROVE Orderly(t)
    OBVIOUS
  <2>2. n \in Nat /\ Len(t) = n + 1
    BY <1>2
  <2>3. \A i \in 1..n : t[i] = s[i]
    BY <1>2
  <2>4. t[n + 1].of = 0
    BY <1>2
  <2>5. \A i \in 1..(n - 1) : Follows(s[i], s[i + 1])
    BY <2>1 DEF Orderly
  <2>6. \A i \in 1..(n - 2) :
           s[i].kind \in {"row", "eof"} /\ s[i + 1].kind = "eof" /\ ~s[i + 1].flag => s[i + 2].of = 0
    BY <2>1 DEF Orderly
  <2> HIDE DEF n
  <2>7. ASSUME NEW i \in 1..((n + 1) - 1) PROVE Follows(t[i], t[i + 1])
    <3>1. CASE i = n
      BY <2>4, <3>1 DEF Follows
    <3>2. CASE i # n
      <4>1. i \in 1..(n - 1) /\ i \in 1..n /\ i + 1 \in 1..n
        BY <2>2, <3>2
      <4> QED
        BY <2>3, <2>5, <4>1
    <3> QED
      BY <3>1, <3>2
  <2>8. ASSUME NEW i \in 1..((n + 1) - 2)
        PROVE  t[i].kind \in {"row", "eof"} /\ t[i + 1].kind = "eof" /\ ~t[i + 1].flag => t[i + 2].of = 0
    <3>1. CASE i + 2 = n + 1
      BY <2>4, <3>1
    <3>2. CASE i + 2 # n + 1
      <4>1. i \in 1..(n - 2) /\ i \in 1..n /\ i + 1 \in 1..n /\ i + 2 \in 1..n
        BY <2>2, <3>2
      <4> QED
        BY <2>3, <2>6, <4>1
    <3> QED
      BY <3>1, <3>2
  <2> QED
    BY <2>2, <2>7, <2>8 DEF Orderly
<1>10. AtRows(s) => AtRows(t)
  BY <1>3, <1>5, <1>6, <1>7 DEF AtRows
<1>11. MoreAt(m, s) => MoreAt(m, t)
  BY <1>3, <1>5, <1>6 DEF MoreAt
<1>12. RowsLeft(h, m, s) => RowsLeft(h, m, t)
  BY <1>5, <1>10, <1>11 DEF RowsLeft
<1>13. Rest(c, h, m, s) => Rest(c, h, m, t)
  BY <1>3, <1>5, <1>6, <1>8, <1>9, <1>12 DEF Rest
<1> QED
  BY <1>5, <1>13 DEF t, e

LEMMA ServerClosesKeepsStream ==
    ASSUME Front, ServerCloses
    PROVE  StreamInv' /\ NumbersInv'
<1> DEFINE p == Packet("err", "none")
           s == Stream
<1>1. /\ TypeOK /\ NumbersInv /\ net \in NetType /\ s \in Seq(PacketType) /\ Marked(s, net.up) /\ BufferInv
      /\ Fits(call, held, mc, net.out, s)
  BY FrontFacts
<1>2. /\ call.todo = <<>> /\ net.up /\ net.out = <<>> /\ net.wire = <<>>
      /\ net' = [net EXCEPT !.up = FALSE, !.faulty = TRUE, !.wire = <<p>>]
      /\ UNCHANGED <<mc, call, held>>
  BY DEF ServerCloses, Over
<1>3. p \in PacketType /\ p.of = 0 /\ p.seq = 0
  <2>1. p \in PacketType
    BY PacketIs DEF Kinds
  <2> QED
    BY <2>1 DEF Packet
<1> HIDE DEF p
<1> DEFINE e == <<p>>
<1>4. e \in Seq(PacketType) /\ Len(e) = 1 /\ e[1] = p
  BY <1>3
<1>5. net'.out = net.out /\ net'.wire = e /\ net'.buf = net.buf /\ net'.up = FALSE
  BY <1>1, <1>2 DEF NetType
<1> HIDE DEF e
<1>6. Stream' = s \o e
  <2>1. net.buf \in Seq(PacketType)
    BY <1>1, StreamTyped
  <2>2. s = net.buf
    BY <1>2, <2>1 DEF Stream
  <2> QED
    BY <1>5, <2>2 DEF Stream
<1>7. Marked(s, TRUE)
  BY <1>1, <1>2
<1> HIDE DEF s
<1>8. /\ Idle(s) => Idle(Stream')
      /\ Rest(call, held, mc, s) => Rest(call, held, mc, Stream')
  BY <1>1, <1>3, <1>6, <1>7, RestClosed DEF e
<1>9. At(call.todo, 1).do = "none"
  BY <1>2 DEF At, None, Task
<1>10. Fits(call, held, mc, net.out, Stream')
  <2>1. ~Runs(call)
    BY <1>2 DEF Runs
  <2>2. Reports(call) /\ ~Lost(call, mc) =>
              Silent(net.out) /\ IF Rows(call, held) THEN Rest(call, held, mc, s) ELSE Idle(s)
    BY <1>1, <2>1 DEF Fits
  <2>3. call.name = "Prepare" /\ call.err = "nil" => Silent(net.out) /\ Idle(s)
    BY <1>1 DEF Fits
  <2>4. ~IsFile(At(call.todo, 1)) /\ At(call.todo, 1).do \notin Reading \cup {"discard", "more", "write"}
    BY <1>9 DEF IsFile, Reading
  <2> QED
    BY <1>8, <2>1, <2>2, <2>3, <2>4 DEF Fits
<1>11. /\ Len(Stream') = Len(s) + 1 /\ Len(s) \in Nat
       /\ \A i \in 1..Len(s) : Stream'[i] = s[i]
       /\ Stream'[Len(s) + 1] = p
  <2>1. /\ Len(s \o e) = Len(s) + Len(e) /\ Len(s) \in Nat
        /\ \A i \in 1..Len(s) : (s \o e)[i] = s[i]
        /\ \A i \in 1..Len(e) : (s \o e)[Len(s) + i] = e[i]
    BY <1>1, <1>4, ConcatIs DEF s
  <2> QED
    BY <1>4, <1>6, <2>1
<1>12. \A i \in 1..Len(Stream') : (i \in 1..Len(s) /\ Stream'[i] = s[i]) \/ (i = Len(s) + 1 /\ Stream'[i] = p)
  BY <1>11
<1>13. Marked(Stream', net'.up)
  <2>1. \A i \in 1..Len(s) : s[i].of # 0
    BY <1>7 DEF Marked
  <2> QED
    BY <1>3, <1>5, <1>11, <1>12, <2>1 DEF Marked
<1>14. BufferInv'
  BY <1>1, <1>4, <1>5 DEF BufferInv
<1>15. NumbersInv'
  <2>1. \A i \in 1..Len(Stream') :
           Stream'[i].of # 0 =>
                Stream'[i].seq \in 1..210 /\ (Stream'[i].kind = "file" => Stream'[i].seq <= 110)
    <3> DEFINE LowNumber(q) == q.of # 0 => q.seq \in 1..210 /\ (q.kind = "file" => q.seq <= 110)
    <3>1. \A i \in 1..Len(s) : LowNumber(s[i])
      BY <1>1 DEF NumbersInv, s
    <3>2. LowNumber(p)
      BY <1>3
    <3> HIDE DEF LowNumber
    <3>3. \A i \in 1..Len(Stream') : LowNumber(Stream'[i])
      BY <1>12, <3>1, <3>2
    <3> QED
      BY <3>3 DEF LowNumber
  <2>2. Columns <= 25
    BY <1>1 DEF NumbersInv
  <2> QED
    BY <1>1, <1>2, <1>5, <2>1, <2>2 DEF NumbersInv, First, Reported
<1> QED
  BY <1>2, <1>5, <1>10, <1>13, <1>14, <1>15 DEF StreamInv

LEMMA OtherKeepStream ==
    ASSUME Front, OtherSteps
    PROVE  StreamInv' /\ NumbersInv'
BY ServerKeepsStream, ServerClosesKeepsStream, WatcherKeepsStream, BreakKeepsStream DEF OtherSteps

-----------------------------------------------------------------------------
(* The call that comes next finds what is left of the rows held, or        *)
(* nothing.                                                                *)

LEMMA StartHeld ==
    ASSUME Front, NEW name \in Names, NEW c, Start(name, c)
    PROVE  /\ call.todo = <<>> /\ Reported /\ call'.name = name /\ call'.n = call.n + 1
           /\ held'.of = (IF HasRows THEN held.of ELSE 0) /\ held.of < call'.n
           /\ HasRows => held.of # 0 /\ held'.open = held.open /\ held'.done = held.done
           /\ name \in RowCalls => HasRows
<1>1. TypeOK /\ TasksInv /\ held \in HeldType /\ call \in CallType /\ Legal(name)
  BY FrontFacts DEF Start
<1>2. call.todo = <<>> /\ Reported
  BY <1>1 DEF Legal, Over
<1>3. call'.name = name /\ call'.n = call.n + 1
  BY StartCases DEF NewCall
<1> DEFINE b == HasRows
           s == HasStmt
           x == InTx
           n == IF b THEN held.of ELSE 0
           d == held.done /\ b
           o == held.open /\ b
<1>4. held' = [held EXCEPT !.open = o, !.of = n, !.done = d, !.stmt = s, !.tx = x]
  BY DEF Start
<1> HIDE DEF n, d, o, s, x
<1>5. held'.of = n /\ held'.done = d /\ held'.open = o
  BY <1>1, <1>4 DEF HeldType
<1>6. HasRows => held.of # 0
  BY DEF HasRows
<1>7. name \in RowCalls => HasRows
  BY <1>1 DEF Legal, RowCalls
<1>8. held.of < call'.n
  BY <1>1, <1>3 DEF TasksInv, HeldType, CallType
<1>9. held.open \in BOOLEAN /\ held.done \in BOOLEAN
  BY <1>1 DEF HeldType
<1>10. HasRows => held'.open = held.open /\ held'.done = held.done
  BY <1>5, <1>9 DEF d, o, b
<1>11. held'.of = IF HasRows THEN held.of ELSE 0
  BY <1>5 DEF n, b
<1> QED
  BY <1>2, <1>3, <1>6, <1>7, <1>8, <1>10, <1>11

LEMMA StartConn ==
    ASSUME Front, NEW name \in Names, NEW c \in {"none", "live", "done"}, Start(name, c)
    PROVE  /\ mc'.more = mc.more /\ mc'.canceled = mc.canceled
           /\ mc.closed => mc'.closed
           /\ call'.todo = <<>> => /\ mc' = mc /\ net' = net
                                   /\ \/ call'.err = "badconn" /\ mc.closed
                                      \/ call'.err = "ctx" /\ name \in Watched /\ ~mc.watching
           /\ call'.todo # <<>> => /\ mc'.sequence = IF HasRows THEN mc.sequence ELSE 0
                                   /\ mc.watching /\ name \in Watched => mc'.closed
                                   /\ name = "RowsClose" => At(call'.todo, 1).do = "finish"
           /\ net'.out = net.out /\ net'.buf = net.buf /\ net'.up = net.up
           /\ net'.wire \in {net.wire, <<>>} /\ (~mc'.closed => net' = net)
<1>1. TypeOK /\ Pooled /\ TasksInv /\ mc \in ConnType /\ net \in NetType /\ Closed(mc) \in ConnType
  BY FrontFacts, ClosedTyped
<1>2. name # "Connect" /\ (call'.todo # <<>> <=> call'.err = "running")
  BY <1>1, StartKeepsTasks
<1>3. CASE name = "Ping" /\ mc.closed
  <2>1. call' = NewCall(name, <<>>, "badconn") /\ UNCHANGED <<mc, net>>
    BY <1>3 DEF Start, NewCall
  <2>2. call'.todo = <<>> /\ call'.err = "badconn" /\ mc' = mc /\ net' = net
    BY <2>1 DEF NewCall
  <2> QED
    BY <1>3, <2>2
<1>4. CASE ~(name = "Ping" /\ mc.closed) /\ c = "done" /\ ~mc.watching
  <2>1. call' = NewCall(name, <<>>, "ctx") /\ UNCHANGED <<mc, net>>
    BY <1>2, <1>4 DEF Start, NewCall
  <2>2. name \in Watched
    BY <1>4 DEF Start
  <2>3. call'.todo = <<>> /\ call'.err = "ctx" /\ mc' = mc /\ net' = net
    BY <2>1 DEF NewCall
  <2> QED
    BY <1>4, <2>2, <2>3
<1>5. CASE ~(name = "Ping" /\ mc.closed) /\ ~(c = "done" /\ ~mc.watching)
  <2> DEFINE w == IF name \in Watched THEN WatchCancel(c)
                  ELSE [mc |-> mc, net |-> net, watcher |-> watcher]
             q == IF HasRows THEN w.mc.sequence ELSE 0
  <2>1. PICK todo \in Program(name) :
            /\ call' = [name |-> name, n |-> call.n + 1, todo |-> todo, err |-> "running", plugin |-> "none"]
            /\ mc' = [w.mc EXCEPT !.sequence = q]
            /\ net' = w.net
    BY <1>5 DEF Start
  <2>2. call'.todo = todo /\ call'.todo # <<>>
    BY <1>2, <2>1
  <2>3. name = "RowsClose" => At(call'.todo, 1).do = "finish"
    <3>1. SUFFICES ASSUME name = "RowsClose"
                   PROVE  At(todo, 1).do = "finish"
      BY <2>2
    <3> DEFINE f == Task("finish")
               r == Task("closeRows")
    <3>2. todo = <<f, r>> /\ f.do = "finish"
      BY <2>1, <3>1, TaskIs DEF Program
    <3> HIDE DEF f, r
    <3>3. At(<<f, r>>, 1) = f
      BY DEF At
    <3> QED
      BY <3>2, <3>3
  <2>4. \/ /\ w.net = net /\ (w.mc = mc \/ w.mc = [mc EXCEPT !.watching = TRUE])
           /\ ~(mc.watching /\ name \in Watched)
        \/ w.mc = Closed(mc) /\ w.net = Dropped(net)
    <3>1. CASE name \in Watched
      BY <3>1 DEF WatchCancel
    <3>2. CASE name \notin Watched
      BY <3>2
    <3> QED
      BY <3>1, <3>2
  <2>5. /\ w.mc \in ConnType /\ w.mc.more = mc.more /\ w.mc.canceled = mc.canceled
        /\ w.mc.sequence = mc.sequence /\ (mc.closed => w.mc.closed)
        /\ w.mc = Closed(mc) => w.mc.closed
    BY <1>1, <2>4 DEF ConnType, Closed
  <2>6. /\ w.net.out = net.out /\ w.net.buf = net.buf /\ w.net.up = net.up
        /\ w.net = Dropped(net) => w.net.wire = <<>>
    BY <1>1, <2>4 DEF NetType, Dropped
  <2> HIDE DEF w
  <2>7. q = IF HasRows THEN mc.sequence ELSE 0
    BY <2>5
  <2> HIDE DEF q
  <2>8. /\ mc'.more = w.mc.more /\ mc'.canceled = w.mc.canceled /\ mc'.closed = w.mc.closed
        /\ mc'.sequence = q
    BY <2>1, <2>5 DEF ConnType
  <2> QED
    BY <2>1, <2>2, <2>3, <2>4, <2>5, <2>6, <2>7, <2>8
<1> QED
  BY <1>3, <1>4, <1>5

(* A cancellation that is under way is of rows, and these can only be gone *)
(* on with or closed.                                                      *)
LEMMA StartNotLost ==
    ASSUME Front, NEW name \in Names, NEW c \in {"none", "live", "done"}, Start(name, c),
           ~Lost(call', mc')
    PROVE  ~Lost(call, mc)
<1>1. /\ mc'.canceled = mc.canceled /\ (mc.closed => mc'.closed)
      /\ call'.todo # <<>> => /\ mc.watching /\ name \in Watched => mc'.closed
                              /\ name = "RowsClose" => At(call'.todo, 1).do = "finish"
      /\ call'.todo = <<>> => mc.closed \/ ~mc.watching
  BY StartConn
<1>2. call.todo = <<>> /\ Reported /\ call'.name = name
  BY StartHeld
<1>3. ~mc.closed /\ ~mc'.closed
  BY <1>1 DEF Lost
<1>4. SUFFICES ASSUME mc.canceled
               PROVE  ~(call.err = "ctx" \/ call.name \in {"StmtClose", "RowsClose"})
  BY <1>3 DEF Lost
<1>5. mc.watching
  BY <1>3, <1>4, FrontFacts DEF WatchInv
<1>6. HasRows
  <2>1. ~Running /\ ~\E i \in 1..Len(call.todo) : TRUE
    BY <1>2 DEF Running, Runs
  <2> QED
    BY <1>3, <1>5, <2>1, FrontFacts DEF WatchInv
<1>7. name \notin Watched /\ name \notin {"StmtClose", "RowsClose"}
  BY <1>1, <1>2, <1>3, <1>4, <1>5 DEF Lost
<1>8. Legal(name)
  BY DEF Start
<1>9. name \in {"Next", "NextResultSet"}
  BY <1>6, <1>7, <1>8 DEF Legal, Names, Watched
<1> QED
  BY <1>8, <1>9 DEF Legal

LEMMA StartKeepsStream ==
    ASSUME Front, NEW name \in Names, NEW c \in {"none", "live", "done"}, Start(name, c)
    PROVE  StreamInv' /\ NumbersInv'
<1> DEFINE s == Stream
           o == net.out
<1>1. /\ TypeOK /\ NumbersInv /\ s \in Seq(PacketType) /\ Marked(s, net.up) /\ BufferInv
      /\ Fits(call, held, mc, o, s) /\ Pooled /\ TasksInv
      /\ held.of = 0 \/ mc.closed \/ mc.sequence >= 1 \/ ~Reported
  BY FrontFacts
<1>2. /\ call.todo = <<>> /\ Reported /\ call'.name = name /\ call'.n = call.n + 1
      /\ held'.of = (IF HasRows THEN held.of ELSE 0) /\ held.of < call'.n
      /\ HasRows => held.of # 0 /\ held'.open = held.open /\ held'.done = held.done
      /\ name \in RowCalls => HasRows
  BY StartHeld
<1>3. /\ mc'.more = mc.more /\ mc'.canceled = mc.canceled
      /\ mc.closed => mc'.closed
      /\ call'.todo = <<>> => /\ mc' = mc /\ net' = net
                              /\ \/ call'.err = "badconn" /\ mc.closed
                                 \/ call'.err = "ctx" /\ name \in Watched /\ ~mc.watching
      /\ call'.todo # <<>> => /\ mc'.sequence = IF HasRows THEN mc.sequence ELSE 0
                              /\ mc.watching /\ name \in Watched => mc'.closed
                              /\ name = "RowsClose" => At(call'.todo, 1).do = "finish"
      /\ net'.out = net.out /\ net'.buf = net.buf /\ net'.up = net.up
      /\ net'.wire \in {net.wire, <<>>} /\ (~mc'.closed => net' = net)
  BY StartConn
<1>4. /\ Part(Stream', Stream) /\ Among(Stream', Stream) /\ Stream' \in Seq(PacketType)
      /\ Marked(Stream', net'.up) /\ BufferInv'
  BY <1>3, StreamDropped
<1>5. /\ call'.todo # <<>> <=> call'.err = "running"
      /\ call'.todo # <<>> => Begins(call'.todo)
  BY <1>1, StartKeepsTasks
<1>6. ASSUME ~Lost(call', mc')
      PROVE  Silent(o) /\ IF HasRows THEN Rest(call', held', mc', Stream') ELSE Idle(Stream')
  <2>1. ~Lost(call, mc)
    BY <1>6, StartNotLost
  <2>2. ~Runs(call) /\ Reports(call) /\ (HasRows <=> Rows(call, held))
    BY <1>2 DEF Runs, Reports, Reported, HasRows, Rows
  <2>3. Silent(o) /\ IF HasRows THEN Rest(call, held, mc, s) ELSE Idle(s)
    BY <1>1, <2>1, <2>2 DEF Fits
  <2>4. Stream' = s
    BY <1>3, <1>6 DEF Lost, Stream
  <2>5. CASE HasRows
    <3>1. Rest(call, held, mc, s) /\ held'.of = held.of /\ held.of # 0
      BY <1>2, <2>3, <2>5
    <3>2. Rest(call', held', mc', s)
      BY <1>2, <1>3, <2>2, <2>5, <3>1 DEF Rest, RowsLeft, MoreAt
    <3> QED
      BY <2>3, <2>4, <2>5, <3>2
  <2> QED
    BY <2>3, <2>4, <2>5
<1>7. CASE call'.todo # <<>>
  <2>1. /\ \/ At(call'.todo, 1).do \in Starting
           \/ At(call'.todo, 1).do = "write" /\ ~IsFile(At(call'.todo, 1)) /\ At(call'.todo, 1).first
        /\ At(call'.todo, 1).do \notin Reading \cup {"discard", "more"}
        /\ ~IsFile(At(call'.todo, 1))
    BY <1>5, <1>7 DEF Begins, Starts, Starting, Reading, IsFile
  <2>2. ~Lost(call', mc') =>
           /\ Silent(net'.out) /\ Rest(call', held', mc', Stream')
           /\ At(call'.todo, 1).do = "write" /\ ~At(call'.todo, 1).first => mc'.sequence = 1
    <3>1. ~HasRows /\ Idle(Stream') => Rest(call', held', mc', Stream')
      BY <1>2 DEF Rest
    <3> QED
      <4>1. ~(At(call'.todo, 1).do = "write" /\ ~At(call'.todo, 1).first)
        BY <2>1 DEF Starting
      <4> QED
        BY <1>3, <1>6, <3>1, <4>1
  <2>3. Fits(call', held', mc', net'.out, Stream')
    <3>1. call'.err = "running"
      BY <1>5, <1>7
    <3>2. At(call'.todo, 1).do \in Starting \/ (At(call'.todo, 1).do = "write" /\ ~IsFile(At(call'.todo, 1)))
      BY <2>1
    <3> QED
      BY <2>2, <3>1, <3>2, StartingFits
  <2>4. /\ mc'.sequence <= 240
        /\ held'.of # 0 /\ Reported' /\ ~mc'.closed => mc'.sequence >= 1
    <3>1. mc.sequence <= 240
      BY <1>1 DEF NumbersInv
    <3>2. CASE HasRows
      BY <1>1, <1>2, <1>3, <1>7, <3>1, <3>2
    <3>3. CASE ~HasRows
      BY <1>2, <1>3, <1>7, <3>3
    <3> QED
      BY <3>2, <3>3
  <2>5. Among(net'.out, net.out)
    BY <1>3 DEF Among
  <2>6. First' = At(call'.todo, 1)
    BY DEF First
  <2>7. NumbersInv'
    BY <1>1, <1>4, <2>1, <2>4, <2>5, <2>6, NumbersKept
  <2> QED
    BY <1>4, <2>3, <2>7 DEF StreamInv
<1>8. CASE call'.todo = <<>>
  <2>1. /\ mc' = mc /\ net' = net /\ call'.err \in {"badconn", "ctx"}
        /\ call'.err = "ctx" => name \in Watched
    BY <1>3, <1>8
  <2>2. At(call'.todo, 1).do = "none"
    BY <1>8 DEF At, None, Task
  <2>3. Reports(call') /\ ~Lost(call', mc') =>
            Silent(net'.out) /\ IF Rows(call', held') THEN Rest(call', held', mc', Stream') ELSE Idle(Stream')
    <3>1. SUFFICES ASSUME Reports(call'), ~Lost(call', mc')
                   PROVE  Silent(net'.out) /\ IF Rows(call', held') THEN Rest(call', held', mc', Stream') ELSE Idle(Stream')
      OBVIOUS
    <3>2. name \in Watched
      BY <2>1, <3>1 DEF Reports
    <3>3. Rows(call', held') <=> HasRows
      BY <1>1, <1>2, <3>2 DEF Rows, Watched, TypeOK, HeldType, CallType
    <3> QED
      BY <1>3, <1>6, <3>1, <3>3
  <2>4. Fits(call', held', mc', net'.out, Stream')
    BY <2>1, <2>2, <2>3, EndFits
  <2>5. NumbersInv'
    <3>1. First' = At(call'.todo, 1)
      BY DEF First
    <3>2. ~IsFile(First') /\ First'.do \notin Reading \cup {"discard", "more"}
      BY <2>2, <3>1 DEF IsFile, Reading
    <3>3. mc'.sequence <= 240
      BY <1>1, <2>1 DEF NumbersInv
    <3>4. held'.of # 0 /\ Reported' /\ ~mc'.closed => mc'.sequence >= 1
      BY <1>1, <1>2, <2>1
    <3>5. Among(net'.out, net.out)
      BY <1>3 DEF Among
    <3> QED
      BY <1>1, <1>4, <3>2, <3>3, <3>4, <3>5, NumbersKept
  <2> QED
    BY <1>4, <2>4, <2>5 DEF StreamInv
<1> QED
  BY <1>7, <1>8

-----------------------------------------------------------------------------
(* All of it together, for a connection of the pool.                       *)

LEMMA InitStream ==
    ASSUME Init, Pooled, Columns <= 25
    PROVE  StreamInv /\ NumbersInv
<1>1. /\ TypeOK /\ call.todo = <<>> /\ call.err = "running" /\ held.of = 0 /\ mc.sequence = 0
      /\ net.out = <<>> /\ net.buf = <<>> /\ net.up
  BY InitTypes DEF Init
<1>2. net.wire = <<>>
  BY DEF Init, Pooled
<1>3. Stream = <<>>
  BY <1>1, <1>2 DEF Stream
<1>4. At(call.todo, 1).do = "none" /\ First.do = "none"
  BY <1>1 DEF At, None, Task, First
<1>5. Stream \in Seq(PacketType) /\ Idle(Stream) /\ Marked(Stream, net.up) /\ Silent(net.out)
  <2>1. \A i \in 1..Len(<<>>) : FALSE
    OBVIOUS
  <2> QED
    BY <1>1, <1>3, <2>1 DEF Idle, Marked, Silent
<1>6. Fits(call, held, mc, net.out, Stream)
  BY <1>4, <1>5, IdleFits
<1>7. BufferInv
  BY <1>1, <1>2 DEF BufferInv
<1>8. NumbersInv
  BY <1>1, <1>3, <1>4 DEF NumbersInv, IsFile, Reading
<1> QED
  BY <1>5, <1>6, <1>7, <1>8 DEF StreamInv

LEMMA InitPooled ==
    ASSUME Init, Columns <= 25
    PROVE  PooledInv
BY InitTasks, InitWatch, InitStream DEF PooledInv

LEMMA NextPooled ==
    ASSUME TypeOK, PooledInv, [Next]_connVars
    PROVE  PooledInv'
<1> SUFFICES ASSUME Pooled'
             PROVE  (TasksInv /\ WatchInv /\ StreamInv /\ NumbersInv)'
  BY DEF PooledInv
<1>1. CASE UNCHANGED connVars
  <2>1. UNCHANGED <<mc, net, call, held, watcher>>
    BY <1>1 DEF connVars, connectVars, vars
  <2>2. Pooled
    BY <2>1 DEF Pooled
  <2>3. TasksInv /\ WatchInv /\ StreamInv /\ NumbersInv
    BY <2>2 DEF PooledInv
  <2>4. TasksInv' /\ WatchInv'
    BY <2>1, <2>3 DEF TasksInv, WatchInv, HasRows, Running
  <2>5. StreamInv'
    BY <2>1, <2>3 DEF StreamInv, BufferInv, Stream
  <2>6. NumbersInv'
    <3>1. Stream' = Stream /\ First' = First /\ Reported' = Reported /\ net'.out = net.out
      BY <2>1 DEF Stream, First, Reported
    <3>2. mc'.sequence <= 240
      BY <2>1, <2>3 DEF NumbersInv
    <3>3. IsFile(First') => mc'.sequence <= IF First'.cmd = "content" THEN 111 ELSE 112
      BY <2>1, <2>3, <3>1 DEF NumbersInv
    <3>4. /\ First'.do \in Reading \cup {"discard", "more"} => mc'.sequence >= 1
          /\ held'.of # 0 /\ Reported' /\ ~mc'.closed => mc'.sequence >= 1
      BY <2>1, <2>3, <3>1 DEF NumbersInv
    <3>5. Among(net'.out, net.out) /\ Among(Stream', Stream)
      BY <3>1 DEF Among
    <3> QED
      BY <2>3, <3>2, <3>3, <3>4, <3>5, NumbersKept
  <2> QED
    BY <2>4, <2>5, <2>6
<1>2. CASE Next
  <2>1. Pooled
    BY <1>2, PooledStays
  <2>2. Front
    BY <2>1 DEF Front, PooledInv
  <2>3. NoFileAsked
    BY <2>2, ReadNoFile
  <2>4. TasksInv'
    BY <2>1, <2>2, <2>3, NextTasks DEF Front, Pooled
  <2>5. WatchInv'
    BY <2>1, <2>2, <2>4, NextWatch DEF Front
  <2>6. StreamInv' /\ NumbersInv'
    BY <1>2, <2>2, NextCases, StartKeepsStream, MovesKeepStream, FinishKeepsStream, OtherKeepStream DEF Moves
  <2> QED
    BY <2>4, <2>5, <2>6
<1> QED
  BY <1>1, <1>2

-----------------------------------------------------------------------------
(* A connection that is made.                                              *)

LEMMA InitSolo ==
    ASSUME Init
    PROVE  SoloInv
<1>1. /\ call.n = 0 /\ call.todo = <<>> /\ call.err = "running" /\ net.out = <<>> /\ net.buf = <<>>
      /\ ~mc.reset /\ held.of = 0 /\ NothingYet
  BY DEF Init, NothingYet
<1>2. ~Pooled => call.name = "new"
  BY DEF Init, Pooled
<1>3. ~Pooled => OfConnect(net.wire)
  <2>1. SUFFICES ASSUME ~Pooled
                 PROVE  OfConnect(net.wire)
    OBVIOUS
  <2>2. net.wire \in Greetings
    BY <1>2, <2>1 DEF Init
  <2>3. ASSUME NEW kind \in Kinds \ {"readonly", "file", "field"}, NEW arg \in Subjects, NEW f \in BOOLEAN
        PROVE  OfConnect(Greeting(kind, arg, f))
    <3> DEFINE p == Packet(kind, arg)
               q == [p EXCEPT !.flag = f, !.of = 1]
    <3>1. p \in PacketType /\ p.kind = kind
      BY PacketTyped
    <3>2. Greeting(kind, arg, f) = <<q>>
      BY DEF Greeting
    <3> HIDE DEF p
    <3>3. q.of = 1 /\ q.kind = kind
      BY <3>1 DEF PacketType
    <3> HIDE DEF q
    <3> QED
      BY <3>2, <3>3 DEF OfConnect
  <2>4. "handshake" \in Kinds \ {"readonly", "file", "field"} /\ "err" \in Kinds \ {"readonly", "file", "field"}
        /\ Plugins \cup {"none"} \subseteq Subjects /\ "none" \in Subjects /\ FALSE \in BOOLEAN
    BY DEF Kinds, Subjects
  <2>5. \/ \E p \in Plugins \cup {"none"} : \E f \in BOOLEAN : net.wire = Greeting("handshake", p, f)
        \/ net.wire = Greeting("err", "none", FALSE)
    <3> DEFINE S == Plugins \cup {"none"}
               D == {Greeting("handshake", p, f) : p \in S, f \in BOOLEAN}
               E == {Greeting("err", "none", FALSE)}
    <3>1. Greetings = D \cup E
      BY DEF Greetings
    <3> HIDE DEF D, E
    <3>2. net.wire \in D \/ net.wire \in E
      BY <2>2, <3>1
    <3>3. CASE net.wire \in D
      <4>1. net.wire \in {Greeting("handshake", p, f) : p \in S, f \in BOOLEAN}
        BY <3>3 DEF D
      <4>2. PICK p \in S, f \in BOOLEAN : net.wire = Greeting("handshake", p, f)
        BY <4>1
      <4> QED
        BY <4>2
    <3>4. CASE net.wire \in E
      BY <3>4 DEF E
    <3> QED
      BY <3>2, <3>3, <3>4
  <2> QED
    BY <2>3, <2>4, <2>5
<1>4. OfConnect(net.buf) /\ \A i \in 1..Len(net.out) : FALSE
  BY <1>1 DEF OfConnect
<1> QED
  BY <1>1, <1>2, <1>3, <1>4 DEF SoloInv

(* What the steps of a call do to the packets and to the connection.       *)
LEMMA MovesNet ==
    ASSUME TypeOK, Moves \/ Finish
    PROVE  /\ mc'.reset => mc.reset
           /\ \/ /\ net'.out = net.out /\ net'.buf = net.buf /\ net'.wire \in {net.wire, <<>>}
              \/ \E r \in Arrivals : net' = r.net \/ net' = Dropped(r.net)
              \/ Doing("write") /\ Sent(Head(call.todo))
<1>1. mc \in ConnType /\ net \in NetType /\ Closed(mc) \in ConnType /\ Closed(mc).reset = mc.reset
  BY ClosedTyped DEF TypeOK, Closed, ConnType
<1>2. CASE Step \/ TLSHandshake \/ Finish
  <2>1. net' = net /\ (mc' = mc \/ mc' = [mc EXCEPT !.watching = FALSE])
    BY <1>2 DEF Step, TLSHandshake, Finish
  <2> QED
    BY <1>1, <2>1 DEF ConnType
<1>3. CASE ReadPacket
  <2>1. PICK r \in Arrivals : /\ net' = IF r.pkt.kind = "readonly" THEN Dropped(r.net) ELSE r.net
                              /\ mc' = ConnAfter(r.pkt)
    BY <1>3 DEF ReadPacket
  <2>2. mc'.reset = mc.reset
    BY <1>1, <2>1 DEF ConnAfter, ConnType
  <2> QED
    BY <2>1, <2>2
<1>4. CASE OutOfSync
  BY <1>4 DEF OutOfSync
<1>5. CASE ReadFails \/ ReadTimeout \/ Cleanup
  <2>1. /\ net' = Dropped(net) \/ net' = [net EXCEPT !.faulty = TRUE]
        /\ mc' = mc \/ mc' = Closed(mc)
    BY <1>5 DEF ReadFails, ReadTimeout, Cleanup
  <2> QED
    BY <1>1, <2>1 DEF NetType, Dropped
<1>6. CASE BusyBuffer
  <2>1. net' = net /\ mc' = [mc EXCEPT !.sequence = Numbered(Head(call.todo))]
    BY <1>6 DEF BusyBuffer
  <2> QED
    BY <1>1, <2>1 DEF ConnType
<1>7. CASE Write
  <2> DEFINE w == Head(call.todo)
  <2>1. Doing("write") /\ (TooLarge(w) \/ Stale \/ Sent(w) \/ NothingWritten \/ PartWritten)
    BY <1>7 DEF Write
  <2>2. CASE Sent(w)
    <3>1. mc' = [mc EXCEPT !.sequence = (Numbered(w) + 1) % 256, !.reset = FALSE]
      BY <2>2 DEF Sent
    <3>2. ~mc'.reset
      BY <1>1, <3>1 DEF ConnType
    <3> QED
      BY <2>1, <2>2, <3>2
  <2>3. CASE TooLarge(w) \/ Stale \/ NothingWritten \/ PartWritten
    <3>1. /\ net' = net \/ net' = Dropped(net)
          /\ \/ mc' = mc \/ mc' = [mc EXCEPT !.reset = FALSE]
             \/ mc' = [Closed(mc) EXCEPT !.reset = FALSE]
      BY <2>3 DEF TooLarge, Stale, NothingWritten, PartWritten
    <3>2. mc'.reset => mc.reset
      BY <1>1, <3>1 DEF ConnType
    <3> QED
      BY <1>1, <3>1, <3>2 DEF NetType, Dropped
  <2> QED
    BY <2>1, <2>2, <2>3
<1> QED
  BY <1>2, <1>3, <1>4, <1>5, <1>6, <1>7 DEF Moves

LEMMA MovesHeld ==
    ASSUME TypeOK, call.name = "Connect", Moves \/ Finish
    PROVE  held'.of = held.of
<1>1. held \in HeldType
  BY DEF TypeOK
<1>2. CASE ReadPacket
  <2>1. PICK p : held' = RowsAfter(p)
    BY <1>2 DEF ReadPacket
  <2>2. \/ held' = held \/ held' = [held EXCEPT !.done = TRUE]
        \/ held' = [held EXCEPT !.done = TRUE, !.open = p.flag]
        \/ held' = [held EXCEPT !.open = FALSE]
    BY <2>1 DEF RowsAfter, QueryLike
  <2> QED
    BY <1>1, <2>2 DEF HeldType
<1>3. CASE Step
  <2>1. held' = held \/ held' = [held EXCEPT !.done = FALSE] \/ held' = [held EXCEPT !.open = FALSE]
    BY <1>3 DEF Step, Open, TakeBuffer, Discard, NextRow, NextResult, More, CloseRows, LookAtContext
  <2> QED
    BY <1>1, <2>1 DEF HeldType
<1>4. CASE OutOfSync \/ ReadFails \/ ReadTimeout \/ BusyBuffer \/ Write \/ Cleanup \/ TLSHandshake \/ Finish
  BY <1>4 DEF OutOfSync, ReadFails, ReadTimeout, BusyBuffer, Write, Cleanup, TLSHandshake, Finish,
     TooLarge, Stale, Sent, NothingWritten, PartWritten
<1> QED
  BY <1>2, <1>3, <1>4 DEF Moves

LEMMA ArrivalOfConnect ==
    ASSUME TypeOK, NEW r \in Arrivals, OfConnect(net.buf), OfConnect(net.wire)
    PROVE  /\ OfConnect(r.net.buf) /\ OfConnect(r.net.wire) /\ r.net.out = net.out
           /\ r.net \in NetType /\ r.pkt.of = 1 /\ r.pkt.kind \notin {"readonly", "file", "field"}
<1>1. /\ \A i \in 1..Len(r.net.buf) :
            \/ \E j \in 1..Len(net.buf) : r.net.buf[i] = net.buf[j]
            \/ \E j \in 1..Len(net.wire) : r.net.buf[i] = net.wire[j]
      /\ \A i \in 1..Len(r.net.wire) : \E j \in 1..Len(net.wire) : r.net.wire[i] = net.wire[j]
      /\ r.net.out = net.out /\ r.net \in NetType
  BY ArrivalIs
<1>2. r.pkt.of = 1 /\ r.pkt.kind \notin {"readonly", "file", "field"}
  <2>1. net.buf \in Seq(PacketType) /\ net.wire \in Seq(PacketType)
    BY StreamTyped
  <2>2. (net.buf # <<>> /\ r.pkt = Head(net.buf)) \/ (net.wire # <<>> /\ r.pkt = Head(net.wire))
    <3>1. CASE net.buf # <<>>
      BY <3>1 DEF Arrivals
    <3>2. CASE net.buf = <<>>
      <4>1. PICK k \in {j \in {1, Len(net.wire)} : net.wire # <<>>} :
               r = [pkt |-> Head(net.wire),
                    net |-> [net EXCEPT !.buf = SubSeq(net.wire, 2, k),
                                        !.wire = SubSeq(net.wire, k + 1, Len(net.wire))]]
        BY <3>2 DEF Arrivals
      <4> QED
        BY <4>1
    <3> QED
      BY <3>1, <3>2
  <2>3. ASSUME NEW s \in Seq(PacketType), s # <<>>, OfConnect(s)
        PROVE  Head(s).of = 1 /\ Head(s).kind \notin {"readonly", "file", "field"}
    BY <2>3, SeqBasics DEF OfConnect
  <2> QED
    BY <2>1, <2>2, <2>3
<1> QED
  BY <1>1, <1>2 DEF OfConnect


(* What a call that connects has left to do, after a step.                 *)
Landed ==
    /\ call'.name = call.name /\ call'.n = call.n
    /\ call'.todo \in Seq(TaskType) /\ AllLogin(call'.todo)
    /\ call'.err # "running" => Ending(call'.todo)

LEMMA LoginConcat ==
    ASSUME NEW a \in Seq(TaskType), NEW b \in Seq(TaskType), AllLogin(a), AllLogin(b)
    PROVE  a \o b \in Seq(TaskType) /\ AllLogin(a \o b)
<1>1. /\ a \o b \in Seq(TaskType) /\ Len(a \o b) = Len(a) + Len(b)
      /\ Len(a) \in Nat /\ Len(b) \in Nat
      /\ \A i \in 1..Len(a) : (a \o b)[i] = a[i]
      /\ \A i \in 1..Len(b) : (a \o b)[Len(a) + i] = b[i]
  BY ConcatIs
<1> DEFINE s == a \o b
           n == Len(a)
<1>2. SUFFICES ASSUME NEW i \in 1..Len(s)
               PROVE  OfLogin(s[i])
  BY <1>1 DEF AllLogin
<1>3. CASE i \in 1..n
  BY <1>1, <1>3 DEF AllLogin
<1>4. CASE i \notin 1..n
  <2>1. \E k \in 1..Len(b) : i = n + k
    <3> HIDE DEF s, n
    <3>1. Len(s) = n + Len(b) /\ n \in Nat /\ Len(b) \in Nat
      BY <1>1 DEF s, n
    <3>2. i - n \in 1..Len(b) /\ i = n + (i - n)
      BY <1>4, <3>1
    <3> QED
      BY <3>2
  <2>2. PICK k \in 1..Len(b) : i = n + k
    BY <2>1
  <2>3. s[i] = b[k]
    BY <1>1, <2>2
  <2> QED
    BY <2>3 DEF AllLogin
<1> QED
  BY <1>3, <1>4

LEMMA LoginTail ==
    ASSUME NEW s \in Seq(TaskType), s # <<>>, AllLogin(s)
    PROVE  Tail(s) \in Seq(TaskType) /\ AllLogin(Tail(s)) /\ OfLogin(Head(s)) /\ Head(s) \in TaskType
BY SeqBasics DEF AllLogin

LEMMA EndingTail ==
    ASSUME NEW s \in Seq(TaskType), s # <<>>, Ending(s)
    PROVE  Ending(Tail(s)) /\ Head(s).do \in {"cleanup", "finish"}
BY SeqBasics DEF Ending

(* The lists the steps of Connect are made of.                             *)
LEMMA LoginOnes ==
    /\ \A do \in LoginTasks \ {"write"} :
          /\ <<Task(do)>> \in Seq(TaskType) /\ AllLogin(<<Task(do)>>)
          /\ Task(do) \in TaskType /\ OfLogin(Task(do)) /\ Task(do).do = do
    /\ \A cmd \in LoginCommands, arg \in Forms :
          /\ Writing(cmd, arg) \in TaskType /\ OfLogin(Writing(cmd, arg))
          /\ <<Writing(cmd, arg)>> \in Seq(TaskType) /\ AllLogin(<<Writing(cmd, arg)>>)
<1>1. ASSUME NEW t \in TaskType, OfLogin(t)
      PROVE  <<t>> \in Seq(TaskType) /\ AllLogin(<<t>>)
  BY <1>1 DEF AllLogin
<1>2. ASSUME NEW do \in LoginTasks \ {"write"}
      PROVE  Task(do) \in TaskType /\ OfLogin(Task(do)) /\ Task(do).do = do
  <2>1. do \in Tasks
    BY DEF LoginTasks, Tasks, Reading
  <2>2. Task(do) \in TaskType /\ Task(do).do = do
    BY <2>1, TaskTyped, TaskIs
  <2> QED
    BY <2>2 DEF OfLogin
<1>3. ASSUME NEW cmd \in LoginCommands, NEW arg \in Forms
      PROVE  Writing(cmd, arg) \in TaskType /\ OfLogin(Writing(cmd, arg))
  <2>1. cmd \in Commands
    BY DEF LoginCommands, Commands
  <2>2. Writing(cmd, arg) \in TaskType /\ Writing(cmd, arg).do = "write" /\ Writing(cmd, arg).cmd = cmd
    BY <2>1, WritingTyped
  <2> QED
    BY <2>2 DEF OfLogin, LoginTasks
<1> QED
  BY <1>1, <1>2, <1>3

LEMMA LoginPairs ==
    ASSUME NEW t \in TaskType, NEW u \in TaskType, OfLogin(t), OfLogin(u)
    PROVE  <<t, u>> \in Seq(TaskType) /\ AllLogin(<<t, u>>)
<1>1. ASSUME NEW i \in 1..2
      PROVE  i = 1 \/ i = 2
  OBVIOUS
<1> QED
  BY <1>1 DEF AllLogin

LEMMA SetupLogin ==
    ASSUME TypeOK
    PROVE  Setup \in Seq(TaskType) /\ AllLogin(Setup)
<1> DEFINE q == Writing("query", "none")
           a == IF conf.max THEN <<>> ELSE Small("query") \o <<Task("sysheader")>>
           b == IF conf.params = 0 THEN <<>> ELSE Small("query") \o <<Task("header"), Task("discard")>>
<1>1. "query" \in LoginCommands /\ "none" \in Forms
  BY DEF LoginCommands, Forms
<1>2. Small("query") = <<q>> /\ <<q>> \in Seq(TaskType) /\ AllLogin(<<q>>)
  BY <1>1, LoginOnes DEF Small
<1>3. <<>> \in Seq(TaskType) /\ AllLogin(<<>>)
  BY DEF AllLogin
<1>4. {"sysheader", "header", "discard"} \subseteq LoginTasks \ {"write"}
  BY DEF LoginTasks
<1>5. /\ <<Task("sysheader")>> \in Seq(TaskType) /\ AllLogin(<<Task("sysheader")>>)
      /\ Task("header") \in TaskType /\ OfLogin(Task("header"))
      /\ Task("discard") \in TaskType /\ OfLogin(Task("discard"))
  BY <1>4, LoginOnes
<1>6. <<Task("header"), Task("discard")>> \in Seq(TaskType) /\ AllLogin(<<Task("header"), Task("discard")>>)
  BY <1>5, LoginPairs
<1>7. a \in Seq(TaskType) /\ AllLogin(a)
  BY <1>2, <1>3, <1>5, LoginConcat
<1>8. b \in Seq(TaskType) /\ AllLogin(b)
  BY <1>2, <1>3, <1>6, LoginConcat
<1>9. Setup = a \o b
  BY DEF Setup
<1> HIDE DEF a, b
<1> QED
  BY <1>7, <1>8, <1>9, LoginConcat

(* Going on with tasks of the login, or returning an error of it.          *)
LEMMA GoLands ==
    ASSUME TypeOK, call.name = "Connect", call.err = "running", NEW todo \in Seq(TaskType), AllLogin(todo), Go(todo)
    PROVE  Landed /\ call'.err # "badconn"
<1>1. call' \in CallType
  BY GoTyped
<1>2. CASE todo = <<>>
  <2>1. Return("nil")
    BY <1>2, GoIs
  <2>2. call'.err = "nil" /\ call'.todo = AtReturn("Connect", "nil")
    BY <2>1, ReturnIs DEF MarkBadConn
  <2>3. call'.todo = <<Task("finish")>>
    BY <2>2 DEF AtReturn, Watched
  <2>4. "finish" \in LoginTasks \ {"write"}
    BY DEF LoginTasks
  <2>5. AllLogin(call'.todo) /\ Ending(call'.todo)
    BY <2>3, <2>4, LoginOnes DEF Ending
  <2> QED
    BY <1>1, <2>1, <2>2, <2>5, ReturnIs DEF Landed, CallType
<1>3. CASE todo # <<>>
  BY <1>1, <1>3, GoIs DEF Landed, CallType
<1> QED
  BY <1>2, <1>3

LEMMA ReturnLands ==
    ASSUME TypeOK, call.name = "Connect", NEW err \in Errors \ {"running", "nil"}, Return(err)
    PROVE  /\ call.err = "running" => call'.err = err
           /\ call.err \in {"running"} \cup (Errors \ {"nil"}) => Landed
<1>1. call' \in CallType
  BY ReturnTyped
<1>2. /\ call'.name = call.name /\ call'.n = call.n
      /\ call'.err = IF call.err = "running" THEN err ELSE call.err
      /\ call'.todo = AtReturn("Connect", call'.err)
  BY ReturnIs DEF MarkBadConn, Marking
<1>3. call'.err # "nil" => call'.todo = <<Task("cleanup"), Task("finish")>>
  <2>1. ASSUME NEW e, e # "nil"
        PROVE  AtReturn("Connect", e) = <<Task("cleanup"), Task("finish")>>
    BY <2>1 DEF AtReturn
  <2> QED
    BY <1>2, <2>1
<1>4. "cleanup" \in LoginTasks \ {"write"} /\ "finish" \in LoginTasks \ {"write"}
  BY DEF LoginTasks
<1>5. AllLogin(<<Task("cleanup"), Task("finish")>>) /\ Ending(<<Task("cleanup"), Task("finish")>>)
  <2> DEFINE t == Task("cleanup")
             u == Task("finish")
  <2>1. /\ t \in TaskType /\ OfLogin(t) /\ t.do = "cleanup"
        /\ u \in TaskType /\ OfLogin(u) /\ u.do = "finish"
    BY <1>4, LoginOnes
  <2> HIDE DEF t, u
  <2>2. AllLogin(<<t, u>>)
    BY <2>1, LoginPairs
  <2>3. ASSUME NEW i \in 1..2
        PROVE  i = 1 \/ i = 2
    OBVIOUS
  <2>4. Ending(<<t, u>>)
    BY <2>1, <2>3 DEF Ending
  <2> QED
    BY <2>2, <2>4 DEF t, u
<1> QED
  BY <1>1, <1>2, <1>3, <1>5 DEF Landed, CallType


LEMMA PlanLands ==
    ASSUME TypeOK, call.name = "Connect", call.err = "running", NEW plugin \in Subjects,
           NEW todo \in Seq(TaskType), AllLogin(todo),
           call' = [call EXCEPT !.plugin = plugin, !.todo = todo]
    PROVE  Landed /\ call'.err # "badconn"
<1>1. call \in CallType
  BY DEF TypeOK
<1>2. call'.name = call.name /\ call'.n = call.n /\ call'.err = call.err /\ call'.todo = todo
  BY <1>1 DEF CallType
<1> QED
  BY <1>2 DEF Landed

LEMMA LoginLands ==
    ASSUME TypeOK, call.name = "Connect", call.err = "running", NEW plugin \in Subjects, NEW tls,
           Login(plugin, tls)
    PROVE  Landed /\ call'.err # "badconn"
<1> DEFINE a == IF tls THEN <<Writing("ssl", "none"), Task("tls")>> ELSE <<>>
           b == <<Writing("response", Auth(plugin, tls)), Task("authResult")>>
<1>1. /\ {"ssl", "response"} \subseteq LoginCommands /\ "none" \in Forms
      /\ {"tls", "authResult"} \subseteq LoginTasks \ {"write"}
      /\ Auth(plugin, tls) \in Forms
  BY AuthTyped DEF LoginCommands, Forms, LoginTasks
<1>2. b \in Seq(TaskType) /\ AllLogin(b)
  BY <1>1, LoginOnes, LoginPairs
<1>3. a \in Seq(TaskType) /\ AllLogin(a)
  <2>1. <<>> \in Seq(TaskType) /\ AllLogin(<<>>)
    BY DEF AllLogin
  <2>2. <<Writing("ssl", "none"), Task("tls")>> \in Seq(TaskType)
        /\ AllLogin(<<Writing("ssl", "none"), Task("tls")>>)
    BY <1>1, LoginOnes, LoginPairs
  <2> QED
    BY <2>1, <2>2
<1>4. call' = [call EXCEPT !.plugin = plugin, !.todo = a \o b]
  BY DEF Login
<1> HIDE DEF a, b
<1> QED
  BY <1>2, <1>3, <1>4, LoginConcat, PlanLands

LEMMA HandshakeLands ==
    ASSUME TypeOK, call.name = "Connect", call.err = "running", NEW p \in PacketType, Handshake(p)
    PROVE  Landed /\ call'.err # "badconn"
<1> DEFINE wanted == IF p.arg = "none" THEN "native" ELSE p.arg
<1>1. wanted \in Subjects /\ "native" \in Subjects
  BY DEF PacketType, Subjects, Plugins
<1> HIDE DEF wanted
<1>2. \/ \E err \in {"mysql", "notls", "plugin"} : Return(err)
      \/ Login(wanted, Encrypted(p))
      \/ Login("native", Encrypted(p))
  BY DEF Handshake, wanted
<1>3. {"mysql", "notls", "plugin"} \subseteq Errors \ {"running", "nil", "badconn"}
  BY DEF Errors
<1> QED
  BY <1>1, <1>2, <1>3, LoginLands, ReturnLands

LEMMA SecretLogin ==
    ASSUME TypeOK, NEW f \in Forms
    PROVE  /\ <<Writing("secret", f), Task("ok")>> \o Setup \in Seq(TaskType)
           /\ AllLogin(<<Writing("secret", f), Task("ok")>> \o Setup)
           /\ <<Writing("secret", "requestKey"), Task("key"), Writing("secret", "encrypted"), Task("ok")>>
                 \o Setup \in Seq(TaskType)
           /\ AllLogin(<<Writing("secret", "requestKey"), Task("key"), Writing("secret", "encrypted"),
                         Task("ok")>> \o Setup)
           /\ <<Task("ok")>> \o Setup \in Seq(TaskType)
           /\ AllLogin(<<Task("ok")>> \o Setup)
<1>1. /\ "secret" \in LoginCommands /\ {"requestKey", "encrypted"} \subseteq Forms
      /\ {"ok", "key"} \subseteq LoginTasks \ {"write"}
  BY DEF LoginCommands, Forms, LoginTasks
<1> DEFINE w(g) == Writing("secret", g)
           k == Task("key")
           ok == Task("ok")
<1>2. /\ \A g \in Forms : w(g) \in TaskType /\ OfLogin(w(g))
      /\ k \in TaskType /\ OfLogin(k) /\ ok \in TaskType /\ OfLogin(ok)
      /\ <<ok>> \in Seq(TaskType) /\ AllLogin(<<ok>>)
  BY <1>1, LoginOnes
<1>3. Setup \in Seq(TaskType) /\ AllLogin(Setup)
  BY SetupLogin
<1> HIDE DEF w, k, ok
<1>4. \A g \in Forms : /\ <<w(g), ok>> \in Seq(TaskType) /\ AllLogin(<<w(g), ok>>)
                       /\ <<w(g), k>> \in Seq(TaskType) /\ AllLogin(<<w(g), k>>)
  BY <1>2, LoginPairs
<1>5. <<w("requestKey"), k, w("encrypted"), ok>> = <<w("requestKey"), k>> \o <<w("encrypted"), ok>>
  OBVIOUS
<1>6. /\ <<w("requestKey"), k, w("encrypted"), ok>> \in Seq(TaskType)
      /\ AllLogin(<<w("requestKey"), k, w("encrypted"), ok>>)
  BY <1>1, <1>4, <1>5, LoginConcat
<1>7. /\ <<w(f), ok>> \o Setup \in Seq(TaskType) /\ AllLogin(<<w(f), ok>> \o Setup)
      /\ <<ok>> \o Setup \in Seq(TaskType) /\ AllLogin(<<ok>> \o Setup)
  BY <1>2, <1>3, <1>4, LoginConcat
<1>8. /\ <<w("requestKey"), k, w("encrypted"), ok>> \o Setup \in Seq(TaskType)
      /\ AllLogin(<<w("requestKey"), k, w("encrypted"), ok>> \o Setup)
  BY <1>3, <1>6, LoginConcat
<1> QED
  BY <1>7, <1>8 DEF w, k, ok

LEMMA AuthenticatedLands ==
    ASSUME TypeOK, call.name = "Connect", call.err = "running", NEW plugin, NEW data,
           Authenticated(plugin, data)
    PROVE  Landed /\ call'.err # "badconn"
<1>1. Setup \in Seq(TaskType) /\ AllLogin(Setup) /\ {"encrypted", "clear"} \subseteq Forms
  BY SetupLogin DEF Forms
<1> DEFINE s(f) == <<Writing("secret", f), Task("ok")>> \o Setup
           k == <<Writing("secret", "requestKey"), Task("key"), Writing("secret", "encrypted"), Task("ok")>>
                \o Setup
           ok == <<Task("ok")>> \o Setup
<1>2. /\ \A f \in Forms : s(f) \in Seq(TaskType) /\ AllLogin(s(f))
      /\ k \in Seq(TaskType) /\ AllLogin(k) /\ ok \in Seq(TaskType) /\ AllLogin(ok)
  BY <1>1, SecretLogin
<1>3. \/ Go(CachingSha2(data)) \/ Go(s("encrypted")) \/ Go(Setup)
  BY DEF Authenticated
<1>4. CachingSha2(data) \in {Setup, ok, s("clear"), s("encrypted"), k}
  BY DEF CachingSha2
<1> HIDE DEF s, k, ok
<1>5. \E todo \in Seq(TaskType) : AllLogin(todo) /\ Go(todo)
  BY <1>1, <1>2, <1>3, <1>4
<1> QED
  BY <1>5, GoLands

LEMMA AuthResultLands ==
    ASSUME TypeOK, call.name = "Connect", call.err = "running", NEW p \in PacketType, NEW first,
           AuthResult(p, first)
    PROVE  Landed /\ call'.err # "badconn"
<1> DEFINE t == <<Writing("secret", Auth(p.arg, mc.tls)), Task("authResult2")>>
<1>1. t \in Seq(TaskType) /\ AllLogin(t)
  <2>1. "secret" \in LoginCommands /\ "authResult2" \in LoginTasks \ {"write"} /\ Auth(p.arg, mc.tls) \in Forms
    BY AuthTyped DEF LoginCommands, LoginTasks
  <2> QED
    BY <2>1, LoginOnes, LoginPairs
<1>2. \/ Authenticated(call.plugin, "none") \/ Authenticated(call.plugin, p.arg)
      \/ call' = [call EXCEPT !.plugin = p.arg, !.todo = t]
      \/ \E err \in {"plugin", "mysql"} : Return(err)
  BY DEF AuthResult
<1> HIDE DEF t
<1>3. p.arg \in Subjects /\ {"plugin", "mysql"} \subseteq Errors \ {"running", "nil", "badconn"}
  BY DEF PacketType, Errors
<1> QED
  BY <1>1, <1>2, <1>3, AuthenticatedLands, PlanLands, ReturnLands

LEMMA SystemVarLands ==
    ASSUME TypeOK, call.name = "Connect", call.err = "running", call.todo # <<>>, AllLogin(call.todo),
           NEW p, SystemVar(p)
    PROVE  Landed /\ call'.err # "badconn"
<1>1. /\ call.todo \in Seq(TaskType) /\ Tail(call.todo) \in Seq(TaskType) /\ AllLogin(Tail(call.todo))
  BY LoginTail DEF TypeOK, CallType
<1> DEFINE e == Task("eof")
           r == Task("sysrow")
           t == <<e, r, e>>
<1>2. /\ e \in TaskType /\ OfLogin(e) /\ r \in TaskType /\ OfLogin(r)
      /\ <<e>> \in Seq(TaskType) /\ AllLogin(<<e>>)
  <2>1. {"eof", "sysrow"} \subseteq LoginTasks \ {"write"}
    BY DEF LoginTasks
  <2> QED
    BY <2>1, LoginOnes
<1> HIDE DEF e, r
<1>3. t = <<e, r>> \o <<e>>
  OBVIOUS
<1>4. t \in Seq(TaskType) /\ AllLogin(t)
  BY <1>2, <1>3, LoginPairs, LoginConcat
<1>5. Go(t \o Tail(call.todo)) \/ Go(Tail(call.todo)) \/ Return("mysql")
  BY DEF SystemVar, e, r
<1> HIDE DEF t
<1>6. t \o Tail(call.todo) \in Seq(TaskType) /\ AllLogin(t \o Tail(call.todo))
  BY <1>1, <1>4, LoginConcat
<1>7. "mysql" \in Errors \ {"running", "nil", "badconn"}
  BY DEF Errors
<1> QED
  BY <1>1, <1>5, <1>6, <1>7, GoLands, ReturnLands

LEMMA ConnectHeaderLands ==
    ASSUME TypeOK, call.name = "Connect", call.err = "running", call.todo # <<>>, AllLogin(call.todo),
           NEW p, p.kind \notin {"readonly", "file", "field"}, Header(p)
    PROVE  Landed /\ call'.err # "badconn"
<1>1. /\ call.todo \in Seq(TaskType) /\ Tail(call.todo) \in Seq(TaskType) /\ AllLogin(Tail(call.todo))
  BY LoginTail DEF TypeOK, CallType
<1> DEFINE e == Task("eof")
<1>2. e \in TaskType /\ OfLogin(e)
  <2>1. "eof" \in LoginTasks \ {"write"}
    BY DEF LoginTasks
  <2> QED
    BY <2>1, LoginOnes
<1>3. Go(Tail(call.todo)) \/ Go(<<e, e>> \o Tail(call.todo)) \/ Return("mysql")
  BY DEF Header, QueryLike, ErrorOf
<1> HIDE DEF e
<1>4. <<e, e>> \in Seq(TaskType) /\ AllLogin(<<e, e>>)
  BY <1>2, LoginPairs
<1>5. <<e, e>> \o Tail(call.todo) \in Seq(TaskType) /\ AllLogin(<<e, e>> \o Tail(call.todo))
  BY <1>1, <1>4, LoginConcat
<1>6. "mysql" \in Errors \ {"running", "nil", "badconn"}
  BY DEF Errors
<1> QED
  BY <1>1, <1>3, <1>5, <1>6, GoLands, ReturnLands

LEMMA ReadsLand ==
    ASSUME TypeOK, call.name = "Connect", call.err = "running", call.todo # <<>>,
           Head(call.todo).do \in Reading, Doing("handshake") \/ AllLogin(call.todo),
           NEW p \in PacketType, p.kind \notin {"readonly", "file", "field"}, CallReads(p)
    PROVE  Landed /\ call'.err # "badconn"
<1>1. "mysql" \in Errors \ {"running", "nil", "badconn"}
  BY DEF Errors
<1>2. CASE Doing("handshake")
  <2>1. ~Doing("ok") /\ ~Doing("any") /\ ~Doing("header") /\ ~Doing("eof") /\ ~Doing("drain")
        /\ ~Doing("columns") /\ ~Doing("row") /\ ~Doing("prepared") /\ ~Doing("authResult")
        /\ ~Doing("authResult2") /\ ~Doing("key")
    BY <1>2 DEF Doing
  <2>2. Handshake(p)
    BY <1>2, <2>1 DEF CallReads, ConnectReads
  <2> QED
    BY <2>2, HandshakeLands
<1>3. CASE AllLogin(call.todo)
  <2>1. /\ call.todo \in Seq(TaskType) /\ Tail(call.todo) \in Seq(TaskType) /\ AllLogin(Tail(call.todo))
        /\ OfLogin(Head(call.todo))
    BY <1>3, LoginTail DEF TypeOK, CallType
  <2>2. Head(call.todo).do \in {"ok", "header", "eof", "authResult", "authResult2", "key", "sysheader", "sysrow"}
    BY <2>1 DEF OfLogin, LoginTasks, Reading
  <2>3. CASE Doing("ok")
    <3>1. Go(Tail(call.todo)) \/ Return("mysql")
      BY <2>3 DEF CallReads, Doing, ErrorOf
    <3> QED
      BY <1>1, <2>1, <3>1, GoLands, ReturnLands
  <2>4. CASE Doing("header")
    <3>1. Header(p)
      BY <2>4 DEF CallReads, Doing
    <3> QED
      BY <1>3, <3>1, ConnectHeaderLands
  <2>5. CASE Doing("eof")
    <3>1. UntilEOF(p)
      BY <2>5 DEF CallReads, Doing
    <3>2. Go(Tail(call.todo)) \/ Go(call.todo) \/ Return("mysql")
      BY <3>1 DEF UntilEOF, ErrorOf
    <3> QED
      BY <1>1, <1>3, <2>1, <3>2, GoLands, ReturnLands
  <2>6. CASE Doing("authResult") \/ Doing("authResult2")
    <3>1. AuthResult(p, TRUE) \/ AuthResult(p, FALSE)
      BY <2>6 DEF CallReads, ConnectReads, Doing
    <3> QED
      BY <3>1, AuthResultLands
  <2>7. CASE Doing("key")
    <3>1. Go(Tail(call.todo))
      BY <2>7 DEF CallReads, ConnectReads, Doing
    <3> QED
      BY <2>1, <3>1, GoLands
  <2>8. CASE Doing("sysheader") \/ Doing("sysrow")
    <3>1. SystemVar(p)
      BY <2>8 DEF CallReads, ConnectReads, Doing
    <3> QED
      BY <1>3, <3>1, SystemVarLands
  <2> QED
    BY <2>2, <2>3, <2>4, <2>5, <2>6, <2>7, <2>8 DEF Doing
<1> QED
  BY <1>2, <1>3


LEMMA ConnectMoves ==
    ASSUME TypeOK, call.name = "Connect", SoloInv, call.todo # <<>>
    PROVE  /\ call.todo \in Seq(TaskType) /\ Head(call.todo) \in TaskType
           /\ Doing("handshake") \/ (AllLogin(call.todo) /\ AllLogin(Tail(call.todo))
                                     /\ Tail(call.todo) \in Seq(TaskType) /\ OfLogin(Head(call.todo)))
           /\ Head(call.todo).do \notin {"cleanup", "finish"} => call.err = "running"
           /\ call.err # "running" => Ending(Tail(call.todo))
           /\ ~mc.reset /\ OfConnect(net.buf) /\ OfConnect(net.wire)
<1>1. ~Pooled
  BY DEF Pooled
<1>2. call.todo \in Seq(TaskType)
  BY DEF TypeOK, CallType
<1>3. call.todo = <<Task("handshake")>> => Doing("handshake")
  BY TaskIs DEF Doing
<1> QED
  BY <1>1, <1>2, <1>3, LoginTail, EndingTail, RestTyped DEF SoloInv

LEMMA ConnectLands ==
    ASSUME TypeOK, call.name = "Connect", SoloInv, Moves \/ Finish
    PROVE  /\ Landed
           /\ call'.err = "badconn" => call.err = "badconn" \/ Doing("handshake")
<1>0. ASSUME NEW do, Doing(do)
      PROVE  call.todo # <<>> /\ Head(call.todo).do = do
  BY <1>0 DEF Doing
<1>1. ASSUME NEW err \in Errors \ {"running", "nil", "badconn"}, Return(err), call.err = "running"
      PROVE  Landed /\ call'.err # "badconn"
  BY <1>1, ReturnLands
<1>2. {"sync", "nowrite", "ctx", "invalid", "tls"} \subseteq Errors \ {"running", "nil", "badconn"}
      /\ "badconn" \in Errors \ {"running", "nil"}
  BY DEF Errors
<1>3. CASE Step
  <2>1. call.todo # <<>> /\ Head(call.todo).do \in {"open", "buffer", "discard", "next", "nextResult",
                                                    "more", "closeRows", "ctx"}
    BY <1>3 DEF Step, Open, TakeBuffer, Discard, NextRow, NextResult, More, CloseRows, LookAtContext, Doing
  <2>2. AllLogin(call.todo) /\ AllLogin(Tail(call.todo)) /\ Tail(call.todo) \in Seq(TaskType)
        /\ OfLogin(Head(call.todo)) /\ call.todo \in Seq(TaskType) /\ call.err = "running"
    BY <2>1, ConnectMoves DEF Doing
  <2>3. Head(call.todo).do = "discard"
    BY <2>1, <2>2 DEF OfLogin, LoginTasks
  <2>4. Discard
    BY <1>3, <2>3 DEF Step, Open, TakeBuffer, NextRow, NextResult, More, CloseRows, LookAtContext, Doing
  <2>5. "header" \in LoginTasks \ {"write"}
    BY DEF LoginTasks
  <2>6. <<Task("header")>> \o call.todo \in Seq(TaskType) /\ AllLogin(<<Task("header")>> \o call.todo)
    BY <2>2, <2>5, LoginOnes, LoginConcat
  <2>7. Go(<<Task("header")>> \o call.todo) \/ Go(Tail(call.todo))
    BY <2>4 DEF Discard
  <2> QED
    BY <2>2, <2>6, <2>7, GoLands
<1>4. CASE ReadPacket \/ OutOfSync \/ ReadFails \/ ReadTimeout
  <2>1. call.todo # <<>> /\ Head(call.todo).do \in Reading
    BY <1>4 DEF ReadPacket, OutOfSync, ReadFails, ReadTimeout
  <2>2. call.err = "running" /\ (Doing("handshake") \/ AllLogin(call.todo))
        /\ OfConnect(net.buf) /\ OfConnect(net.wire)
    BY <2>1, ConnectMoves DEF Reading
  <2>3. CASE ReadPacket
    <3>1. PICK r \in Arrivals : CallReads(r.pkt)
      BY <2>3 DEF ReadPacket
    <3>2. r.pkt \in PacketType /\ r.pkt.kind \notin {"readonly", "file", "field"}
      BY <2>2, ArrivalTyped, ArrivalOfConnect
    <3> QED
      BY <2>1, <2>2, <3>1, <3>2, ReadsLand
  <2>4. CASE OutOfSync
    BY <1>1, <1>2, <2>2, <2>4 DEF OutOfSync
  <2>5. CASE ReadFails \/ ReadTimeout
    <3>1. Return(ReadError)
      BY <2>5 DEF ReadFails, ReadTimeout
    <3>2. ReadError \in {"ctx", "invalid"} \/ (ReadError = "badconn" /\ Doing("handshake"))
      BY DEF ReadError
    <3> QED
      BY <1>1, <1>2, <2>2, <3>1, <3>2, ReturnLands
  <2> QED
    BY <1>4, <2>3, <2>4, <2>5
<1>5. CASE BusyBuffer \/ Write
  <2>1. Doing("write") /\ call.todo # <<>> /\ Head(call.todo).do = "write"
    BY <1>0, <1>5 DEF BusyBuffer, Write
  <2>2. AllLogin(Tail(call.todo)) /\ Tail(call.todo) \in Seq(TaskType) /\ call.err = "running" /\ ~mc.reset
    BY <2>1, ConnectMoves DEF Doing
  <2>3. CASE BusyBuffer
    BY <1>1, <1>2, <2>2, <2>3 DEF BusyBuffer
  <2>4. CASE Write
    <3>1. Go(Tail(call.todo)) \/ \E err \in {"nowrite", "ctx", "invalid"} : Return(err)
      BY <2>2, <2>4 DEF Write, TooLarge, Stale, Sent, NothingWritten, PartWritten, Fails
    <3> QED
      BY <1>1, <1>2, <2>2, <3>1, GoLands
  <2> QED
    BY <1>5, <2>3, <2>4
<1>6. CASE TLSHandshake
  <2>1. Doing("tls") /\ (Go(Tail(call.todo)) \/ Return("tls"))
    BY <1>6 DEF TLSHandshake
  <2>2. AllLogin(Tail(call.todo)) /\ Tail(call.todo) \in Seq(TaskType) /\ call.err = "running"
    BY <1>0, <2>1, ConnectMoves DEF Doing
  <2> QED
    BY <1>1, <1>2, <2>1, <2>2, GoLands
<1>7. CASE Cleanup \/ Finish
  <2>1. /\ Doing("cleanup") \/ Doing("finish")
        /\ call' = [call EXCEPT !.todo = Tail(@)]
    BY <1>7 DEF Cleanup, Finish
  <2>2. /\ AllLogin(Tail(call.todo)) /\ Tail(call.todo) \in Seq(TaskType)
        /\ call.err # "running" => Ending(Tail(call.todo))
    BY <1>0, <2>1, ConnectMoves DEF Doing
  <2>3. call \in CallType
    BY DEF TypeOK
  <2>4. call'.name = call.name /\ call'.n = call.n /\ call'.err = call.err /\ call'.todo = Tail(call.todo)
    BY <2>1, <2>3 DEF CallType
  <2> QED
    BY <2>2, <2>4 DEF Landed
<1> QED
  BY <1>3, <1>4, <1>5, <1>6, <1>7 DEF Moves

LEMMA MovesSolo ==
    ASSUME TypeOK, call.name = "Connect", SoloInv, Moves \/ Finish
    PROVE  SoloInv'
<1>1. /\ ~Pooled /\ call.n = 1 /\ OfConnect(net.buf) /\ OfConnect(net.wire) /\ ~mc.reset /\ held.of = 0
      /\ \A i \in 1..Len(net.out) : net.out[i].of = 1 /\ net.out[i].cmd \in LoginCommands
  BY DEF SoloInv, Pooled
<1>2. /\ Landed /\ (call'.err = "badconn" => call.err = "badconn" \/ Doing("handshake"))
      /\ held'.of = 0 /\ ~mc'.reset
  BY <1>1, ConnectLands, MovesHeld, MovesNet
<1>3. server' = server
  BY DEF Moves, Step, ReadPacket, OutOfSync, ReadFails, ReadTimeout, BusyBuffer, Write, Cleanup, TLSHandshake,
     Finish
<1>4. net.buf \in Seq(PacketType) /\ net.wire \in Seq(PacketType) /\ net \in NetType /\ net.out \in Seq(CommandType)
  BY StreamTyped DEF TypeOK, NetType
<1>5. OfConnect(<<>>)
  BY DEF OfConnect
<1>6. /\ OfConnect(net'.buf) /\ OfConnect(net'.wire)
      /\ \A i \in 1..Len(net'.out) : net'.out[i].of = 1 /\ net'.out[i].cmd \in LoginCommands
      /\ net'.out = net.out \/ Doing("write")
  <2>1. CASE net'.out = net.out /\ net'.buf = net.buf /\ net'.wire \in {net.wire, <<>>}
    BY <1>1, <1>5, <2>1
  <2>2. CASE \E r \in Arrivals : net' = r.net \/ net' = Dropped(r.net)
    <3>1. PICK r \in Arrivals : net' = r.net \/ net' = Dropped(r.net)
      BY <2>2
    <3>2. OfConnect(r.net.buf) /\ OfConnect(r.net.wire) /\ r.net.out = net.out /\ r.net \in NetType
      BY <1>1, ArrivalOfConnect
    <3>3. net'.buf = r.net.buf /\ net'.wire \in {r.net.wire, <<>>} /\ net'.out = r.net.out
      BY <3>1, <3>2, DroppedTyped
    <3> QED
      BY <1>1, <1>5, <3>2, <3>3
  <2>3. CASE Doing("write") /\ Sent(Head(call.todo))
    <3> DEFINE w == Head(call.todo)
               c == [cmd |-> w.cmd, arg |-> w.arg, seq |-> Numbered(w), of |-> Owner]
    <3>1. call.todo # <<>> /\ w.do = "write" /\ w \in TaskType
      BY <2>3, ConnectMoves DEF Doing
    <3>2. w.cmd \in LoginCommands
      BY <3>1, ConnectMoves DEF Doing, OfLogin
    <3>3. net' = [net EXCEPT !.out = IF net.up /\ w.last THEN Append(@, c) ELSE @]
      BY <2>3 DEF Sent
    <3>4. Owner = 1
      BY <1>1 DEF Owner
    <3>5. c.cmd \in LoginCommands /\ c.of = 1 /\ c \in CommandType
      BY <3>1, <3>2, <3>4, NumberedTyped DEF CommandType, TaskType
    <3> HIDE DEF c
    <3>6. net'.buf = net.buf /\ net'.wire = net.wire /\ net'.out \in {net.out, Append(net.out, c)}
      BY <1>4, <3>3 DEF NetType
    <3>7. \A i \in 1..Len(Append(net.out, c)) :
             Append(net.out, c)[i] = c \/ (i \in 1..Len(net.out) /\ Append(net.out, c)[i] = net.out[i])
      BY <1>4, <3>5, Appended
    <3> QED
      BY <1>1, <2>3, <3>5, <3>6, <3>7, SMTT(30)
  <2> QED
    BY <2>1, <2>2, <2>3, MovesNet
<1>7. call'.err = "badconn" => NothingYet'
  <2>1. SUFFICES ASSUME call'.err = "badconn"
                 PROVE  NothingYet'
    OBVIOUS
  <2>2. CASE call.err = "badconn"
    <3>1. NothingYet /\ Ending(call.todo)
      BY <1>1, <2>2 DEF SoloInv
    <3>2. ~Doing("write")
      BY <3>1, EndingTail DEF Doing, TypeOK, CallType
    <3> QED
      BY <1>3, <1>6, <3>1, <3>2 DEF NothingYet
  <2>3. CASE Doing("handshake")
    <3>1. NothingYet
      <4>1. call.todo \in Seq(TaskType) /\ call.todo # <<>>
        BY <2>3 DEF Doing, TypeOK, CallType
      <4>2. ~AllLogin(call.todo)
        BY <2>3, <4>1, LoginTail DEF OfLogin, LoginTasks, Doing
      <4> QED
        BY <1>1, <4>2 DEF SoloInv
    <3> QED
      BY <1>3, <1>6, <2>3, <3>1 DEF NothingYet, Doing
  <2> QED
    BY <1>2, <2>1, <2>2, <2>3
<1> QED
  BY <1>1, <1>2, <1>6, <1>7 DEF SoloInv, Landed


LEMMA VariableOfOne ==
    LET s == Variable
    IN  /\ s \in Seq(PacketType) /\ Len(s) = 5
        /\ s[1].kind = "result" /\ s[2].kind = "column" /\ s[3].kind = "eof" /\ ~s[3].flag
        /\ s[4].kind = "row" /\ s[5].kind = "eof" /\ ~s[5].flag
<1> DEFINE b == FALSE
           a == Result(1, b)
           p == a[2]
           q == [p EXCEPT !.kind = "column"]
<1>1. /\ a \in Seq(PacketType) /\ Len(a) = 5
      /\ a[1].kind = "result" /\ a[3].kind = "eof" /\ ~a[3].flag /\ a[4].kind = "row" /\ a[5].kind = "eof"
  BY ResultOfOne
<1>2. ~a[5].flag
  <2> DEFINE n == 1
  <2>1. n \in {0, 1} /\ b \in BOOLEAN /\ n + 4 = 5
    OBVIOUS
  <2> HIDE DEF n, b
  <2>2. Result(n, b)[n + 4].flag = b
    BY <2>1, ResultIs
  <2>3. Result(n, b)[5].flag = b
    BY <2>1, <2>2
  <2> QED
    BY <2>3 DEF n, b
<1>3. Variable = [a EXCEPT ![2] = q]
  BY DEF Variable
<1> HIDE DEF a
<1>4. p \in PacketType
  <2>1. 2 \in 1..Len(a)
    BY <1>1
  <2> QED
    BY <1>1, <2>1, ElementOfSeq
<1> HIDE DEF p
<1>5. q \in PacketType /\ q.kind = "column"
  BY <1>4 DEF PacketType, Kinds
<1> HIDE DEF q
<1> DEFINE s == [a EXCEPT ![2] = q]
<1> DEFINE n == 5
<1>6. s \in Seq(PacketType) /\ Len(s) = 5
  <2>1. a \in Seq(PacketType) /\ Len(a) = n /\ n \in Nat
    BY <1>1
  <2> HIDE DEF n
  <2>2. a \in [1..n -> PacketType]
    BY <2>1
  <2>3. s \in [1..n -> PacketType]
    BY <1>5, <2>2
  <2>4. s \in Seq(PacketType) /\ Len(s) = n
    BY <2>1, <2>3
  <2> QED
    BY <2>4 DEF n
<1>7. DOMAIN a = 1..5
  BY <1>1
<1>8. s[1] = a[1] /\ s[2] = q /\ s[3] = a[3] /\ s[4] = a[4] /\ s[5] = a[5]
  BY <1>7
<1> HIDE DEF s
<1>9. Variable = s
  BY <1>3 DEF s
<1> QED
  BY <1>1, <1>2, <1>5, <1>6, <1>8, <1>9

(* What the server does for a client that connects.                        *)
LEMMA AnswerOfConnect ==
    ASSUME TypeOK, call.name = "Connect", net.out # <<>>, Head(net.out).cmd \in LoginCommands, Server
    PROVE  LET c == Head(net.out)
           IN  /\ net'.out = Tail(net.out) /\ net'.buf = net.buf /\ net'.up = net.up
               /\ UNCHANGED <<mc, call, held>>
               /\ \E a \in Seq(PacketType) :
                     /\ net'.wire = IF net.up /\ ~mc.closed THEN net.wire \o Numbering(a, c) ELSE net.wire
                     /\ IF c.cmd \in {"response", "secret"}
                        THEN a \in AuthAnswers(call.plugin, c.arg) \cup Switches(c.cmd)
                        ELSE IF c.cmd = "query" THEN a \in {Error, Ok(FALSE), Variable} ELSE a = <<>>
                     /\ server'.accepted => \/ server.accepted
                                            \/ c.cmd \in {"response", "secret"} /\ a[Len(a)].kind = "ok"
                     /\ server.accepted => server'.accepted
<1> DEFINE c == Head(net.out)
           s(a) == Numbering(a, c)
           wire(a) == IF net.up /\ ~mc.closed THEN net.wire \o s(a) ELSE net.wire
           out == Tail(net.out)
           takes(a) == /\ server'.accepted => \/ server.accepted
                                              \/ c.cmd \in {"response", "secret"} /\ a[Len(a)].kind = "ok"
                       /\ server.accepted => server'.accepted
<1>1. net \in NetType /\ net.out \in Seq(CommandType) /\ server \in ServerType
  BY DEF TypeOK, NetType
<1>2. c \in CommandType /\ UNCHANGED <<mc, call, held>>
  BY <1>1, SeqBasics DEF Server
<1>3. \A a : s(a) = Numbering(a, c)
  BY DEF Numbering
<1>4. ASSUME NEW a, net' = [net EXCEPT !.out = out, !.wire = wire(a)]
      PROVE  /\ net'.out = out /\ net'.buf = net.buf /\ net'.up = net.up
             /\ net'.wire = IF net.up /\ ~mc.closed THEN net.wire \o Numbering(a, c) ELSE net.wire
  <2>1. wire(a) = IF net.up /\ ~mc.closed THEN net.wire \o Numbering(a, c) ELSE net.wire
    BY <1>3
  <2> HIDE DEF wire, out
  <2>2. net'.out = out /\ net'.wire = wire(a) /\ net'.buf = net.buf /\ net'.up = net.up
    BY <1>1, <1>4 DEF NetType
  <2> QED
    BY <2>1, <2>2
<1>5. CASE c.cmd \in {"response", "secret"}
  <2>1. PICK a \in AuthAnswers(call.plugin, c.arg) \cup Switches(c.cmd) :
           /\ net' = [net EXCEPT !.out = out, !.wire = wire(a)]
           /\ server' = [server EXCEPT !.accepted = @ \/ a[Len(a)].kind = "ok",
                                       !.switched = @ \/ a[1].kind = "switch"]
    BY <1>5 DEF Server, ServerAuthenticates
  <2>2. a \in Seq(PacketType)
    <3>1. AuthAnswer(a, call.plugin, c.arg)
      BY AuthAnswerIs, Zenon
    <3> QED
      BY <3>1 DEF AuthAnswer
  <2>3. takes(a)
    <3> DEFINE x == server.accepted \/ a[Len(a)].kind = "ok"
               y == server.switched \/ a[1].kind = "switch"
    <3>1. server' = [server EXCEPT !.accepted = x, !.switched = y]
      BY <2>1
    <3> HIDE DEF x, y
    <3>2. server'.accepted = x
      BY <1>1, <3>1 DEF ServerType
    <3> QED
      BY <1>5, <3>2 DEF x
  <2> HIDE DEF s, wire, out, c
  <2> QED
    BY <1>2, <1>4, <1>5, <2>1, <2>2, <2>3 DEF c, out
<1>6. CASE c.cmd \notin {"response", "secret"}
  <2>1. PICK a \in Answers(c.cmd) :
           /\ net' = [net EXCEPT !.out = out, !.wire = wire(a)]
           /\ server' = [server EXCEPT
                           !.done = @ + IF c.of = Owner THEN Effects(c.cmd, a) ELSE 0,
                           !.file = @ \/ \E i \in DOMAIN a : a[i].kind = "file",
                           !.refused = @ \/ \E i \in DOMAIN a : i > 1 /\ a[i].kind = "readonly"]
    BY <1>6 DEF Server, ServerAnswers
  <2>2. a \in Seq(PacketType)
    BY <1>2, <2>1, AnswersTyped DEF CommandType
  <2>3. c.cmd = "query" => a \in {Error, Ok(FALSE), Variable}
    <3>1. Answers("query") = {Error, Ok(FALSE), Variable}
      BY DEF Answers
    <3> HIDE DEF c
    <3> QED
      BY <2>1, <3>1
  <2>4. c.cmd = "ssl" => a = <<>>
    BY <2>1, NoAnswers
  <2>5. c.cmd \in {"query", "ssl"}
    BY <1>6 DEF LoginCommands
  <2>6. takes(a)
    <3> DEFINE x == server.done + IF c.of = Owner THEN Effects(c.cmd, a) ELSE 0
               y == server.file \/ \E i \in DOMAIN a : a[i].kind = "file"
               z == server.refused \/ \E i \in DOMAIN a : i > 1 /\ a[i].kind = "readonly"
    <3>1. server' = [server EXCEPT !.done = x, !.file = y, !.refused = z]
      BY <2>1
    <3> HIDE DEF x, y, z
    <3>2. server'.accepted = server.accepted
      BY <1>1, <3>1 DEF ServerType
    <3> QED
      BY <3>2
  <2> HIDE DEF s, wire, out, c
  <2> QED
    BY <1>2, <1>4, <1>6, <2>1, <2>2, <2>3, <2>4, <2>5, <2>6 DEF c, out
<1> QED
  BY <1>5, <1>6

LEMMA ServerSolo ==
    ASSUME TypeOK, ~Pooled, SoloInv, Server
    PROVE  SoloInv'
<1> DEFINE c == Head(net.out)
<1>1. net.out # <<>> /\ net.out \in Seq(CommandType)
  BY DEF Server, TypeOK, NetType
<1>2. call.name = "Connect" /\ AllLogin(call.todo) /\ call.err # "badconn"
  BY <1>1 DEF SoloInv, NothingYet
<1>3. c \in CommandType /\ c.cmd \in LoginCommands /\ c.of = 1
      /\ \A i \in 1..Len(Tail(net.out)) : Tail(net.out)[i] = net.out[i + 1] /\ i + 1 \in 1..Len(net.out)
  BY <1>1, SeqBasics DEF SoloInv
<1>4. PICK a \in Seq(PacketType) :
         /\ net'.wire = IF net.up /\ ~mc.closed THEN net.wire \o Numbering(a, c) ELSE net.wire
         /\ IF c.cmd \in {"response", "secret"}
            THEN a \in AuthAnswers(call.plugin, c.arg) \cup Switches(c.cmd)
            ELSE IF c.cmd = "query" THEN a \in {Error, Ok(FALSE), Variable} ELSE a = <<>>
  BY <1>1, <1>2, <1>3, AnswerOfConnect
<1>5. net'.out = Tail(net.out) /\ net'.buf = net.buf /\ UNCHANGED <<mc, call, held>>
  BY <1>1, <1>2, <1>3, AnswerOfConnect
<1>6. \A i \in 1..Len(a) : a[i].kind \notin {"readonly", "file", "field"}
  <2>1. CASE c.cmd \in {"response", "secret"}
    <3>1. a \in AuthAnswers(call.plugin, c.arg) \cup Switches(c.cmd)
      BY <1>4, <2>1
    <3>2. \/ Len(a) = 1 /\ a[1].kind \in {"ok", "err", "key", "switch", "more"}
          \/ Len(a) = 2 /\ a[1].kind = "more" /\ a[2].kind = "ok"
      <4>1. AuthAnswer(a, call.plugin, c.arg)
        BY <3>1, AuthAnswerIs, Zenon
      <4> QED
        BY <4>1 DEF AuthAnswer
    <3> QED
      BY <3>2
  <2>2. CASE c.cmd = "query"
    <3>1. a \in {Error, Ok(FALSE), Variable}
      BY <1>4, <2>2
    <3>2. /\ Len(Error) = 1 /\ Error[1].kind = "err"
          /\ Len(Ok(FALSE)) = 1 /\ Ok(FALSE)[1].kind = "ok"
      BY PlainOnes, OkIs
    <3> DEFINE r == Variable
    <3>3. /\ Len(r) = 5 /\ r[1].kind = "result" /\ r[2].kind = "column" /\ r[3].kind = "eof"
          /\ r[4].kind = "row" /\ r[5].kind = "eof"
      BY VariableOfOne
    <3>4. a = Error \/ a = Ok(FALSE) \/ a = r
      BY <3>1
    <3> HIDE DEF r
    <3>5. \A i \in 1..5 : i = 1 \/ i = 2 \/ i = 3 \/ i = 4 \/ i = 5
      OBVIOUS
    <3>6. a = r => \A i \in 1..5 : a[i].kind \notin {"readonly", "file", "field"}
      BY <3>3, <3>5
    <3>7. a = Error \/ a = Ok(FALSE) => Len(a) = 1 /\ a[1].kind \notin {"readonly", "file", "field"}
      BY <3>2
    <3>8. CASE a = r
      BY <3>3, <3>6, <3>8
    <3>9. CASE a # r
      <4>1. Len(a) = 1 /\ a[1].kind \notin {"readonly", "file", "field"}
        BY <3>4, <3>7, <3>9
      <4> QED
        BY <4>1
    <3> QED
      BY <3>8, <3>9
  <2>3. CASE c.cmd \notin {"response", "secret", "query"}
    <3>1. a = <<>>
      BY <1>4, <2>3
    <3> QED
      BY <3>1
  <2> QED
    BY <2>1, <2>2, <2>3
<1> DEFINE b == Numbering(a, c)
<1>7. b \in Seq(PacketType) /\ OfConnect(b)
  <2> HIDE DEF c
  <2>1. /\ b \in Seq(PacketType) /\ Len(b) = Len(a)
        /\ \A i \in 1..Len(a) : b[i].kind = a[i].kind /\ b[i].of = c.of
    BY <1>3, NumberingIs
  <2> QED
    BY <1>3, <1>6, <2>1 DEF OfConnect
<1> HIDE DEF b
<1>8. OfConnect(net.wire) /\ OfConnect(net.buf) /\ net.wire \in Seq(PacketType)
  BY DEF SoloInv, TypeOK, NetType
<1>9. OfConnect(net.wire \o b)
  <2>1. /\ Len(net.wire \o b) = Len(net.wire) + Len(b)
        /\ \A i \in 1..Len(net.wire) : (net.wire \o b)[i] = net.wire[i]
        /\ \A i \in 1..Len(b) : (net.wire \o b)[Len(net.wire) + i] = b[i]
        /\ Len(net.wire) \in Nat /\ Len(b) \in Nat
    BY <1>7, <1>8, ConcatIs
  <2> DEFINE s == net.wire \o b
             n == Len(net.wire)
  <2>2. SUFFICES ASSUME NEW i \in 1..Len(s)
                 PROVE  s[i].of = 1 /\ s[i].kind \notin {"readonly", "file", "field"}
    BY DEF OfConnect
  <2>3. i \in 1..n \/ \E k \in 1..Len(b) : i = n + k
    <3>1. Len(s) = n + Len(b) /\ n \in Nat /\ Len(b) \in Nat
      BY <2>1
    <3> HIDE DEF s, n
    <3>2. i \notin 1..n => i - n \in 1..Len(b) /\ i = n + (i - n)
      BY <3>1
    <3> QED
      BY <3>2
  <2> QED
    BY <1>7, <1>8, <2>1, <2>3 DEF OfConnect
<1>10. OfConnect(net'.wire)
  BY <1>4, <1>8, <1>9 DEF b
<1>11. \A i \in 1..Len(net'.out) : net'.out[i].of = 1 /\ net'.out[i].cmd \in LoginCommands
  BY <1>3, <1>5 DEF SoloInv
<1> QED
  BY <1>2, <1>5, <1>8, <1>10, <1>11 DEF SoloInv, Pooled

LEMMA StartSolo ==
    ASSUME TypeOK, ~Pooled, SoloInv, NEW name \in Names, NEW c \in {"none", "live", "done"}, Start(name, c)
    PROVE  SoloInv'
<1>1. /\ Legal(name) /\ call.name # "Connect" /\ (name = "Connect") = (call.name = "new")
      /\ server' = [server EXCEPT !.done = 0, !.file = FALSE, !.refused = FALSE]
      /\ held' = [held EXCEPT !.open = @ /\ HasRows, !.of = IF HasRows THEN @ ELSE 0, !.done = @ /\ HasRows,
                              !.stmt = HasStmt, !.tx = InTx]
  BY DEF Start, Legal
<1>2. call.name = "new" /\ name = "Connect"
  BY <1>1 DEF Pooled
<1>3. /\ call.n = 0 /\ OfConnect(net.buf) /\ OfConnect(net.wire) /\ ~mc.reset /\ held.of = 0
      /\ net.out = <<>>
  BY <1>2 DEF SoloInv, NothingYet
<1>4. held \in HeldType /\ server \in ServerType /\ mc \in ConnType /\ net \in NetType
  BY DEF TypeOK
<1>5. held'.of = 0
  <2> DEFINE k == IF HasRows THEN held.of ELSE 0
             o == held.open /\ HasRows
             d == held.done /\ HasRows
             s == HasStmt
             t == InTx
  <2>1. held' = [held EXCEPT !.open = o, !.of = k, !.done = d, !.stmt = s, !.tx = t]
    BY <1>1
  <2>2. k = 0
    BY <1>3
  <2> HIDE DEF k, o, d, s, t
  <2> QED
    BY <1>4, <2>1, <2>2 DEF HeldType
<1>6. server'.done = 0
  BY <1>1, <1>4 DEF ServerType
<1>7. /\ mc'.reset = mc.reset /\ net'.out = net.out /\ net'.buf = net.buf /\ net'.wire \in {net.wire, <<>>}
      /\ call'.name = "Connect" /\ call'.n = 1
      /\ \/ call'.todo = <<>> /\ call'.err \in {"early", "ctx"}
         \/ call'.todo = <<Task("handshake")>> /\ call'.err = "running"
  <2>1. CASE /\ \E err \in {"early", "ctx"} : call' = NewCall(name, <<>>, err)
             /\ UNCHANGED <<mc, net, watcher>>
    BY <1>2, <1>3, <2>1 DEF NewCall
  <2> DEFINE w == IF name \in Watched THEN WatchCancel(c)
                  ELSE [mc |-> mc, net |-> net, watcher |-> watcher]
  <2>2. CASE /\ \E todo \in Program(name) : call' = NewCall(name, todo, "running")
             /\ mc' = [w.mc EXCEPT !.sequence = IF HasRows THEN @ ELSE 0]
             /\ net' = w.net /\ watcher' = w.watcher
    <3>1. Program("Connect") = {<<Task("handshake")>>}
      BY DEF Program
    <3>2. /\ call'.name = "Connect" /\ call'.n = 1 /\ call'.err = "running"
          /\ call'.todo = <<Task("handshake")>>
      BY <1>2, <1>3, <2>2, <3>1 DEF NewCall
    <3>3. /\ w.mc \in ConnType /\ w.net \in {net, Dropped(net)} /\ w.mc.reset = mc.reset
      <4>1. WatchCancel(c).mc \in ConnType /\ WatchCancel(c).net \in {net, Dropped(net)}
        BY WatchCancelTyped
      <4>2. WatchCancel(c).mc \in {mc, Closed(mc), [mc EXCEPT !.watching = TRUE]}
        BY DEF WatchCancel
      <4>3. WatchCancel(c).mc.reset = mc.reset
        BY <1>4, <4>2 DEF Closed, ConnType
      <4> QED
        BY <1>2, <4>1, <4>3 DEF Watched
    <3> DEFINE q == IF HasRows THEN w.mc.sequence ELSE 0
    <3>4. mc' = [w.mc EXCEPT !.sequence = q]
      BY <2>2
    <3> HIDE DEF w, q
    <3>5. mc'.reset = mc.reset
      BY <3>3, <3>4 DEF ConnType
    <3>6. net'.out = net.out /\ net'.buf = net.buf /\ net'.wire \in {net.wire, <<>>}
      BY <1>4, <2>2, <3>3, DroppedTyped DEF w
    <3> QED
      BY <3>2, <3>5, <3>6
  <2> QED
    BY <1>2, <2>1, <2>2, StartCases
<1>8. OfConnect(<<>>) /\ AllLogin(<<>>) /\ Ending(<<>>)
  BY DEF OfConnect, AllLogin, Ending
<1>9. \A i \in 1..Len(<<>>) : FALSE
  OBVIOUS
<1>10. \A i \in 1..Len(net'.out) : net'.out[i].of = 1 /\ net'.out[i].cmd \in LoginCommands
  BY <1>3, <1>7, <1>9
<1>11. OfConnect(net'.buf) /\ OfConnect(net'.wire) /\ ~mc'.reset
  BY <1>3, <1>7, <1>8
<1>12. NothingYet'
  BY <1>3, <1>6, <1>7 DEF NothingYet
<1> QED
  BY <1>5, <1>7, <1>8, <1>10, <1>11, <1>12 DEF SoloInv

LEMMA OtherSolo ==
    ASSUME TypeOK, ~Pooled, SoloInv, OtherSteps
    PROVE  SoloInv'
<1>1. UNCHANGED <<call, held>>
  BY OtherStepsKeep
<1>2. CASE Server
  BY <1>2, ServerSolo
<1>3. ~ResetSession /\ ~ServerCloses
  BY DEF ResetSession, ServerCloses, Pooled
<1>4. CASE Watcher \/ CancelContext
  <2>1. mc \in ConnType /\ net \in NetType /\ server' = server
    BY <1>4 DEF TypeOK, Watcher, CancelContext, WatcherTakes, WatcherEnds, WatcherSees, WatcherCloses
  <2>2. mc' \in {mc, Closed(mc), [mc EXCEPT !.canceled = TRUE]} /\ net' \in {net, Dropped(net)}
    BY <1>4 DEF Watcher, CancelContext, WatcherTakes, WatcherEnds, WatcherSees, WatcherCloses
  <2>3. mc'.reset = mc.reset
    BY <2>1, <2>2 DEF Closed, ConnType
  <2>4. net'.out = net.out /\ net'.buf = net.buf /\ net'.wire \in {net.wire, <<>>}
    BY <2>1, <2>2, DroppedTyped
  <2>5. OfConnect(<<>>)
    BY DEF OfConnect
  <2>6. OfConnect(net'.wire) /\ OfConnect(net'.buf)
    BY <2>4, <2>5 DEF SoloInv
  <2> QED
    BY <1>1, <2>1, <2>3, <2>4, <2>6 DEF SoloInv, NothingYet, Pooled
<1>5. CASE Break
  <2>1. /\ net'.buf = net.buf /\ net'.out \in {net.out, <<>>}
        /\ Len(net'.wire) <= Len(net.wire)
        /\ \A i \in 1..Len(net'.wire) : net'.wire[i] = net.wire[i]
        /\ UNCHANGED <<mc, server>> /\ net' \in NetType
    BY <1>5, BreakTyped DEF Break
  <2>2. OfConnect(net'.wire)
    <3>1. Len(net.wire) \in Nat /\ Len(net'.wire) \in Nat
      BY <2>1 DEF TypeOK, NetType
    <3>2. \A i \in 1..Len(net'.wire) : i \in 1..Len(net.wire)
      BY <2>1, <3>1
    <3> QED
      BY <2>1, <3>2 DEF SoloInv, OfConnect
  <2>3. \A i \in 1..Len(<<>>) : FALSE
    OBVIOUS
  <2>4. /\ \A i \in 1..Len(net'.out) : net'.out[i].of = 1 /\ net'.out[i].cmd \in LoginCommands
        /\ NothingYet => NothingYet'
    BY <2>1, <2>3 DEF SoloInv, NothingYet
  <2> QED
    BY <1>1, <2>1, <2>2, <2>4 DEF SoloInv, Pooled
<1> QED
  BY <1>2, <1>3, <1>4, <1>5 DEF OtherSteps

LEMMA NextSolo ==
    ASSUME TypeOK, SoloInv, [Next]_connVars
    PROVE  SoloInv'
<1>1. CASE UNCHANGED connVars
  <2>1. UNCHANGED <<mc, net, call, held, server>>
    BY <1>1 DEF connVars, connectVars, vars
  <2> QED
    BY <2>1 DEF SoloInv, Pooled, NothingYet
<1>2. CASE Next
  <2>1. SUFFICES ASSUME ~Pooled
                 PROVE  SoloInv'
    BY <1>2, PooledStays DEF SoloInv
  <2>2. Moves \/ Finish => call.todo # <<>>
    BY MovesCalm DEF Finish, Doing
  <2>3. Moves \/ Finish => call.name = "Connect"
    BY <2>1, <2>2 DEF SoloInv, Pooled
  <2> QED
    BY <1>2, <2>1, <2>3, NextCases, StartSolo, MovesSolo, OtherSolo DEF Moves
<1> QED
  BY <1>1, <1>2


(* Each packet that is taken is of the answer the call waits for.          *)
LEMMA FrontOwnAnswers ==
    ASSUME TypeOK, PooledInv, SoloInv
    PROVE  OwnAnswers
<1> SUFFICES ASSUME call.todo # <<>>, Head(call.todo).do \in Reading, NEW r \in Arrivals, InSequence(r.pkt)
             PROVE  r.pkt.of = Owner
  BY DEF OwnAnswers
<1>1. CASE Pooled
  <2>1. Front
    BY <1>1 DEF Front, PooledInv
  <2> QED
    BY <2>1, ArrivalMine
<1>2. CASE ~Pooled
  <2>1. call.name = "Connect" /\ call.n = 1 /\ OfConnect(net.buf) /\ OfConnect(net.wire)
    BY <1>2 DEF SoloInv, Pooled
  <2>2. r.pkt.of = 1
    BY <2>1, ArrivalOfConnect
  <2> QED
    BY <2>1, <2>2 DEF Owner
<1> QED
  BY <1>1, <1>2

(* No call takes a packet of another call's answer for its own, whatever   *)
(* calls were made before, and however they ended: what is left on the     *)
(* connection when a call starts is either nothing, or rows whose sequence *)
(* numbers are not those of an answer (packets.go:46, readPacket).  The    *)
(* numbers have eight bits: that is why the results are of 25 columns or   *)
(* fewer here.  No call follows one that ended with a file or sync error.  *)
THEOREM OwnAnswersHolds == ASSUME Columns <= 25 PROVE Spec => []OwnAnswers
<1>1. Init => TypeOK /\ PooledInv /\ SoloInv
  BY InitTypes, InitPooled, InitSolo
<1>2. TypeOK /\ PooledInv /\ SoloInv /\ [Next]_connVars => (TypeOK /\ PooledInv /\ SoloInv)'
  BY NextTypes, NextPooled, NextSolo
<1>3. TypeOK /\ PooledInv /\ SoloInv => OwnAnswers
  BY FrontOwnAnswers
<1> QED
  BY <1>1, <1>2, <1>3, PTL DEF Spec

-----------------------------------------------------------------------------
(* A server that refuses a command because it is read-only has not done    *)
(* anything for it.                                                        *)
LEMMA RefusalDoesNothing ==
    ASSUME call.name # "Connect", NEW cmd \in Commands \ {"response", "secret"},
           NEW a \in Answers(cmd), a # <<>>, a[1].kind = "readonly"
    PROVE  cmd \in Harmful /\ Effects(cmd, a) = 0
<1>1. cmd \notin {"none", "ssl", "stmtClose", "longdata", "content"}
  BY NoAnswers
<1>2. cmd # "prepare"
  <2>1. CASE cmd = "prepare"
    <3>1. Prepares(a)
      BY <2>1, PrepareReplies
    <3>2. FALSE
      BY <3>1 DEF Prepares
    <3> QED
      BY <3>2
  <2> QED
    BY <2>1
<1>3. cmd \in {"query", "execute", "ping", "session", "commit", "empty"}
  BY <1>1, <1>2 DEF Commands
<1>4. Replies(cmd, a)
  BY <1>3, QueryReplies, OtherReplies
<1>5. cmd \in {"query", "execute"} /\ Chain(a)
  BY <1>4 DEF Replies
<1>6. a \in Seq(PacketType) /\ Len(a) \in Nat /\ Len(a) >= 1
  BY <1>5 DEF Chain
<1>7. \A q : ~Goes(a[1], q)
  BY DEF Goes
<1>8. Len(a) = 1
  <2>1. \A i \in 1..(Len(a) - 1) : Goes(a[i], a[i + 1])
    BY <1>5 DEF Chain
  <2>2. 1 \notin 1..(Len(a) - 1)
    BY <1>7, <2>1
  <2>3. \A n \in Nat : n >= 1 /\ 1 \notin 1..(n - 1) => n = 1
    OBVIOUS
  <2> QED
    BY <1>6, <2>2, <2>3
<1>9. DOMAIN a = {1}
  BY <1>6, <1>8
<1>10. {i \in DOMAIN a : a[i].kind \in {"ok", "result"}} = {}
  BY <1>9
<1> QED
  BY <1>5, <1>10, FS_EmptySet DEF Effects, Harmful

LEMMA HarmlessCommand ==
    ASSUME NEW cmd, cmd \notin Harmful, NEW a
    PROVE  Effects(cmd, a) = 0
BY DEF Effects, Harmful

(* The server takes a command.                                             *)
LEMMA ServerActs ==
    ASSUME Front, Server
    PROVE  LET c == Head(net.out)
           IN  /\ net.out # <<>> /\ c = net.out[1] /\ 1 \in 1..Len(net.out) /\ c \in CommandType
               /\ net'.out = Tail(net.out) /\ net'.buf = net.buf
               /\ UNCHANGED <<mc, call, held>>
               /\ c.cmd \notin {"response", "secret"} /\ c.of # 0
               /\ \E a \in Answers(c.cmd) :
                     /\ a \in Seq(PacketType)
                     /\ net'.wire \in {net.wire, net.wire \o Numbering(a, c)}
                     /\ server'.done = server.done + (IF c.of = Owner THEN Effects(c.cmd, a) ELSE 0)
                     /\ server.file => server'.file
                     /\ ~server'.file => \A i \in 1..Len(a) : a[i].kind # "file"
                     /\ server.refused => server'.refused
                     /\ ~server'.refused => \A i \in 1..Len(a) : i > 1 => a[i].kind # "readonly"
                     /\ mc.closed => net'.wire = net.wire
<1> DEFINE c == Head(net.out)
<1>1. /\ net.out # <<>> /\ c = net.out[1] /\ c \in CommandType /\ 1 \in 1..Len(net.out)
      /\ net'.out = Tail(net.out) /\ net'.buf = net.buf
      /\ mc' = mc /\ call' = call /\ held' = held
  BY ServerFacts
<1>2. c.cmd \notin {"response", "secret"} /\ c.of # 0
  BY <1>1, FrontFacts DEF NumbersInv
<1>3. ServerAnswers(c)
  BY <1>2 DEF Server
<1>4. server \in ServerType /\ net \in NetType
  BY DEF Front, TypeOK
<1>5. PICK a \in Answers(c.cmd) :
        /\ server' = [server EXCEPT
                        !.done = @ + IF c.of = Owner THEN Effects(c.cmd, a) ELSE 0,
                        !.file = @ \/ \E i \in DOMAIN a : a[i].kind = "file",
                        !.refused = @ \/ \E i \in DOMAIN a : i > 1 /\ a[i].kind = "readonly"]
        /\ net' = [net EXCEPT !.out = Tail(@), !.wire =
                     IF net.up /\ ~mc.closed
                     THEN @ \o Numbering(a, c)
                     ELSE @]
  BY <1>3 DEF ServerAnswers
<1> HIDE DEF c
<1>6. c.cmd \in Commands
  BY <1>1 DEF CommandType
<1>7. a \in Seq(PacketType)
  BY <1>5, <1>6, AnswersTyped
<1>8. DOMAIN a = 1..Len(a)
  BY <1>7
<1>9. /\ net'.wire \in {net.wire, net.wire \o Numbering(a, c)}
      /\ mc.closed => net'.wire = net.wire
  <2> DEFINE x == IF net.up /\ ~mc.closed THEN net.wire \o Numbering(a, c) ELSE net.wire
             o == Tail(net.out)
  <2>1. net' = [net EXCEPT !.out = o, !.wire = x]
    BY <1>5
  <2>2. x \in {net.wire, net.wire \o Numbering(a, c)} /\ (mc.closed => x = net.wire)
    OBVIOUS
  <2> HIDE DEF x, o
  <2>3. net'.wire = x
    BY <1>4, <2>1 DEF NetType
  <2> QED
    BY <2>2, <2>3
<1>10. /\ server'.done = server.done + (IF c.of = Owner THEN Effects(c.cmd, a) ELSE 0)
       /\ server'.file = (server.file \/ \E i \in DOMAIN a : a[i].kind = "file")
       /\ server'.refused = (server.refused \/ \E i \in DOMAIN a : i > 1 /\ a[i].kind = "readonly")
  <2> DEFINE e == server.done + IF c.of = Owner THEN Effects(c.cmd, a) ELSE 0
             f == server.file \/ \E i \in DOMAIN a : a[i].kind = "file"
             g == server.refused \/ \E i \in DOMAIN a : i > 1 /\ a[i].kind = "readonly"
  <2>1. server' = [server EXCEPT !.done = e, !.file = f, !.refused = g]
    BY <1>5
  <2> HIDE DEF e, f, g
  <2>2. server'.done = e /\ server'.file = f /\ server'.refused = g
    BY <1>4, <2>1 DEF ServerType
  <2> QED
    BY <2>2 DEF e, f, g
<1>11. /\ server.file => server'.file
       /\ ~server'.file => \A i \in 1..Len(a) : a[i].kind # "file"
       /\ server.refused => server'.refused
       /\ ~server'.refused => \A i \in 1..Len(a) : i > 1 => a[i].kind # "readonly"
  BY <1>8, <1>10
<1> QED
  BY <1>1, <1>2, <1>5, <1>7, <1>9, <1>10, <1>11, Zenon DEF c

-----------------------------------------------------------------------------
(* What is taken from the server and what is lost does no harm.            *)
LEMMA UntouchedKept ==
    ASSUME Untouched, Among(net'.out, net.out), server'.done = server.done, call'.n = call.n
    PROVE  Untouched'
<1>1. \A i \in 1..Len(net'.out) : net'.out[i].of = call'.n => net'.out[i].cmd \notin Harmful
  BY DEF Untouched, Among
<1> QED
  BY <1>1 DEF Untouched

LEMMA PastKept ==
    ASSUME PastInv, call'.n = call.n, Among(net'.out, net.out), Among(Stream', Stream)
    PROVE  PastInv'
<1>1. \A i \in 1..Len(net'.out) : net'.out[i].of <= call'.n
  BY DEF PastInv, Among
<1>2. \A i \in 1..Len(Stream') : Stream'[i].of <= call'.n
  BY DEF PastInv, Among
<1> QED
  BY <1>1, <1>2 DEF PastInv

(* Nothing is read, and nothing sent for a file, by a call that has its    *)
(* result.                                                                 *)
LEMMA ResultIsLast ==
    ASSUME TypeOK, Pooled, TasksInv, ~Running
    PROVE  ~IsFile(First) /\ First.do \notin Reading \cup {"discard", "more", "nextResult"}
<1>1. CASE call.todo = <<>>
  <2>1. First.do = "none"
    BY <1>1, TaskIs DEF First, At, None
  <2> QED
    BY <2>1 DEF IsFile, Reading
<1>2. CASE call.todo # <<>>
  <2>1. call.err # "running"
    BY <1>2 DEF Running, Runs
  <2>2. Ready(call, held, First)
    BY <1>2, TaskFacts DEF First
  <2>3. First.do \in {"finish", "ctx"} \/ (First.do = "write" /\ First.cmd = "stmtClose")
    BY <2>1, <2>2 DEF Ready
  <2> QED
    BY <2>3 DEF IsFile, Reading
<1> QED
  BY <1>1, <1>2

LEMMA PacketsConcat ==
    \A x, y, z \in Seq(PacketType) : (x \o y) \o z = x \o (y \o z)
BY ConcatAssociative

LEMMA PacketsAppended ==
    \A x, y \in Seq(PacketType) :
        /\ x \o y \in Seq(PacketType) /\ Len(x \o y) = Len(x) + Len(y)
        /\ Len(x) \in Nat /\ Len(y) \in Nat
        /\ \A i \in 1..Len(x) : (x \o y)[i] = x[i]
        /\ \A i \in 1..Len(y) : (x \o y)[Len(x) + i] = y[i]
BY ConcatIs

(* A call that will read on while its command is under way reads already.  *)
LEMMA AnsweringReads ==
    ASSUME Front, Answering, call.name \notin RowCalls, ~Silent(net.out)
    PROVE  First.do \in Reading
<1> SUFFICES ASSUME First.do \notin Reading PROVE FALSE
  OBVIOUS
<1>1. Fits(call, held, mc, net.out, Stream) /\ TypeOK /\ Pooled /\ TasksInv
  BY FrontFacts
<1>2. First.do = "nextResult" /\ ~mc.closed
  BY <1>1 DEF Fits, First, Looks, Answering
<1>3. call.todo # <<>>
  BY <1>2, TaskIs DEF First, At, None
<1>4. /\ Leads(call.name, First, At(call.todo, 2), At(call.todo, 3)) /\ Ready(call, held, First)
      /\ call.name \in QueryLike
  BY <1>1, <1>2, <1>3, TaskFacts DEF First, Leads
<1>5. call.err = "running"
  BY <1>2, <1>4 DEF Ready
<1>6. ~Lost(call, mc) /\ Runs(call)
  BY <1>2, <1>3, <1>4, <1>5 DEF Lost, Runs, QueryLike
<1> QED
  BY <1>1, <1>2, <1>6 DEF Fits, First, Starting

(* The server takes a command of this call, or of an earlier.              *)
LEMMA ServerKeepsRetry ==
    ASSUME Front, PastInv, FreshInv, TouchInv, Server
    PROVE  PastInv' /\ FreshInv' /\ TouchInv'
<1> DEFINE c == Head(net.out)
<1>1. /\ net.out # <<>> /\ c = net.out[1] /\ 1 \in 1..Len(net.out) /\ c \in CommandType
      /\ net'.out = Tail(net.out) /\ net'.buf = net.buf
      /\ UNCHANGED <<mc, call, held>>
      /\ c.cmd \notin {"response", "secret"} /\ c.of # 0
  BY ServerActs
<1>2. PICK a \in Answers(c.cmd) :
        /\ a \in Seq(PacketType)
        /\ net'.wire \in {net.wire, net.wire \o Numbering(a, c)}
        /\ server'.done = server.done + (IF c.of = Owner THEN Effects(c.cmd, a) ELSE 0)
        /\ server.file => server'.file
        /\ ~server'.file => \A i \in 1..Len(a) : a[i].kind # "file"
        /\ server.refused => server'.refused
        /\ ~server'.refused => \A i \in 1..Len(a) : i > 1 => a[i].kind # "readonly"
        /\ mc.closed => net'.wire = net.wire
  BY ServerActs
<1> HIDE DEF c
<1>3. /\ TypeOK /\ Pooled /\ TasksInv /\ net \in NetType /\ server \in ServerType
      /\ net.out \in Seq(CommandType) /\ Stream \in Seq(PacketType)
  BY FrontFacts DEF TypeOK, NetType
<1>4. /\ \A i \in 1..Len(Tail(net.out)) : Tail(net.out)[i] = net.out[i + 1] /\ i + 1 \in 1..Len(net.out)
      /\ Among(Tail(net.out), net.out) /\ c.cmd \in Commands
  <2>1. \A i \in 1..Len(Tail(net.out)) : Tail(net.out)[i] = net.out[i + 1] /\ i + 1 \in 1..Len(net.out)
    BY <1>1, <1>3, SeqBasics
  <2> QED
    BY <1>1, <2>1 DEF Among, CommandType
<1>5. DEFINE b == Numbering(a, c)
<1>6. /\ b \in Seq(PacketType) /\ Len(b) = Len(a)
      /\ \A i \in 1..Len(b) : b[i].kind = a[i].kind /\ b[i].of = c.of
  <2>1. b \in Seq(PacketType) /\ Len(b) = Len(a) /\ \A i \in 1..Len(a) : b[i].kind = a[i].kind
    BY <1>1, <1>2, NumberingTyped
  <2>2. \A i \in 1..Len(a) : b[i].of = c.of
    BY <1>1, <1>2, NumberingIs
  <2> QED
    BY <2>1, <2>2
<1> HIDE DEF b
<1>7. /\ Stream' \in {Stream, Stream \o b}
      /\ Stream \o b \in Seq(PacketType) /\ Len(Stream \o b) = Len(Stream) + Len(b)
      /\ Len(Stream) \in Nat /\ Len(b) \in Nat
      /\ \A i \in 1..Len(Stream) : (Stream \o b)[i] = Stream[i]
      /\ \A i \in 1..Len(b) : (Stream \o b)[Len(Stream) + i] = b[i]
  <2>1. net.buf \in Seq(PacketType) /\ net.wire \in Seq(PacketType)
    BY <1>3 DEF NetType
  <2>6. b \in Seq(PacketType)
    BY <1>6
  <2>2. (net.buf \o net.wire) \o b = net.buf \o (net.wire \o b)
    BY <2>1, <2>6, PacketsConcat, Zenon
  <2>4. net'.wire = net.wire \/ net'.wire = net.wire \o b
    BY <1>2 DEF b
  <2>5. Stream' = net.buf \o net.wire \/ Stream' = net.buf \o (net.wire \o b)
    BY <1>1, <2>4, Zenon DEF Stream
  <2>3. Stream' = Stream \/ Stream' = Stream \o b
    BY <2>2, <2>5, Zenon DEF Stream
  <2>7. /\ Stream \o b \in Seq(PacketType) /\ Len(Stream \o b) = Len(Stream) + Len(b)
        /\ Len(Stream) \in Nat /\ Len(b) \in Nat
        /\ \A i \in 1..Len(Stream) : (Stream \o b)[i] = Stream[i]
        /\ \A i \in 1..Len(b) : (Stream \o b)[Len(Stream) + i] = b[i]
    BY <1>3, <2>6, PacketsAppended, Zenon
  <2> QED
    BY <2>3, <2>7, Zenon
<1>8. \A i \in 1..Len(Stream') : \/ \E j \in 1..Len(Stream) : Stream'[i] = Stream[j]
                                 \/ \E j \in 1..Len(b) : Stream'[i] = b[j] /\ Stream' = Stream \o b
  <2>1. CASE Stream' = Stream
    BY <2>1
  <2>2. CASE Stream' = Stream \o b
    <3>1. SUFFICES ASSUME NEW i \in 1..Len(Stream')
                   PROVE  \/ \E j \in 1..Len(Stream) : Stream'[i] = Stream[j]
                          \/ \E j \in 1..Len(b) : Stream'[i] = b[j]
      BY <2>2
    <3>2. CASE i <= Len(Stream)
      BY <1>7, <2>2, <3>2
    <3>3. CASE ~(i <= Len(Stream))
      <4>1. i - Len(Stream) \in 1..Len(b) /\ Stream'[Len(Stream) + (i - Len(Stream))] = b[i - Len(Stream)]
        BY <1>7, <2>2, <3>3
      <4>2. Len(Stream) + (i - Len(Stream)) = i
        BY <1>7
      <4> QED
        BY <4>1, <4>2
    <3> QED
      BY <3>2, <3>3
  <2> QED
    BY <1>7, <2>1, <2>2
<1>9. c.of <= call.n
  BY <1>1 DEF PastInv
<1>10. PastInv'
  <2>1. \A i \in 1..Len(net'.out) : net'.out[i].of <= call'.n
    BY <1>1, <1>4 DEF PastInv
  <2>2. \A i \in 1..Len(Stream') : Stream'[i].of <= call'.n
    BY <1>1, <1>6, <1>8, <1>9 DEF PastInv
  <2> QED
    BY <2>1, <2>2 DEF PastInv
<1>11. FreshInv'
  BY <1>1 DEF FreshInv, HasRows, Running, First
<1>12. call.name \notin RowCalls => Owner = call.n
  BY DEF Owner, RowCalls
<1>13. c.cmd \notin Harmful => server'.done = server.done
  BY <1>2, <1>3, HarmlessCommand DEF ServerType
<1>14. c.of # Owner => server'.done = server.done
  BY <1>2, <1>3 DEF ServerType
<1>15. call.name \notin RowCalls /\ Untouched => Untouched'
  <2>1. SUFFICES ASSUME call.name \notin RowCalls, Untouched PROVE Untouched'
    OBVIOUS
  <2>2. c.of = call.n => c.cmd \notin Harmful
    BY <1>1, <2>1 DEF Untouched
  <2>3. server'.done = server.done
    BY <1>12, <1>13, <1>14, <2>1, <2>2
  <2> QED
    BY <1>1, <1>4, <2>1, <2>3, UntouchedKept
<1>16. call'.err = "badconn" =>
          call'.name \in RowCalls \/ server'.file \/ server'.refused \/ Untouched'
  BY <1>1, <1>2, <1>15 DEF TouchInv
<1>17. ASSUME call.name \notin RowCalls, ~server'.file, ~server'.refused
       PROVE  /\ ~FileSeen'
              /\ Answering' /\ Denied' => server'.done = 0
              /\ Running' /\ (Sends(First') \/ call'.name = "BeginTx") => Untouched'
              /\ First'.do \in Reading =>
                   \A i \in 1..Len(net'.out) :
                        net'.out[i].of = call'.n /\ net'.out[i].cmd \in Harmful => server'.done = 0
  <2>1. /\ ~server.file /\ ~server.refused
        /\ \A i \in 1..Len(a) : a[i].kind # "file" /\ (i > 1 => a[i].kind # "readonly")
    BY <1>2, <1>17
  <2>2. /\ ~FileSeen
        /\ Answering /\ Denied => server.done = 0
        /\ Running /\ (Sends(First) \/ call.name = "BeginTx") => Untouched
        /\ First.do \in Reading =>
             \A i \in 1..Len(net.out) :
                  net.out[i].of = call.n /\ net.out[i].cmd \in Harmful => server.done = 0
    BY <1>17, <2>1 DEF TouchInv
  <2>3. First' = First /\ Running' = Running /\ Answering' = Answering
    BY <1>1 DEF First, Running, Answering
  <2>4. ~FileSeen'
    <3>2. /\ \A j \in 1..Len(Stream) : ~(Stream[j].kind = "file" /\ Stream[j].of = call.n)
          /\ \A j \in 1..Len(b) : b[j].kind # "file"
      BY <1>6, <2>1, <2>2 DEF FileSeen
    <3>1. \A i \in 1..Len(Stream') : ~(Stream'[i].kind = "file" /\ Stream'[i].of = call.n)
      BY <1>8, <3>2
    <3> QED
      BY <1>1, <2>2, <2>3, <3>1 DEF FileSeen
  <2>5. Running' /\ (Sends(First') \/ call'.name = "BeginTx") => Untouched'
    BY <1>1, <1>15, <1>17, <2>2, <2>3
  <2>6. \A x \in Harmful : \A y : y.cmd = x => Asks(y)
    BY DEF Harmful, Asks
  <2>7. First.do \in Reading => Reads(call, held, mc, net.out, Stream) /\ OwnerOf(call, held) = call.n
    BY <1>17, FrontFacts DEF Fits, First, OwnerOf
  <2>8. ASSUME First.do \in Reading,
               NEW i \in 1..Len(net'.out), net'.out[i].of = call'.n, net'.out[i].cmd \in Harmful
        PROVE  server'.done = 0
    <3>1. net'.out[i] = net.out[i + 1] /\ i + 1 \in 1..Len(net.out) /\ i \in Nat /\ i # 0
      BY <1>1, <1>4, <2>8
    <3>2. Asks(net.out[i + 1])
      BY <2>6, <2>8, <3>1
    <3>3. ~Asks(c)
      BY <1>1, <2>7, <2>8, <3>1, <3>2 DEF Reads, Alone
    <3>4. c.cmd \notin Harmful
      BY <2>6, <3>3
    <3>5. server.done = 0
      BY <1>1, <2>2, <2>8, <3>1
    <3> QED
      BY <1>13, <3>4, <3>5
  <2>9. ASSUME Answering, Denied'
        PROVE  server'.done = 0
    <3>1. /\ Stream' # <<>> /\ Stream'[1].of = call.n
          /\ \E i \in 1..Len(Stream') : Stream'[i].kind = "readonly" /\ Stream'[i].of = call.n
      BY <1>1, <2>9 DEF Denied
    <3>2. CASE Stream' = Stream /\ c.cmd \notin Harmful
      <4>1. Denied
        BY <3>1, <3>2 DEF Denied
      <4> QED
        BY <1>13, <2>2, <2>9, <3>2, <4>1
    <3>3. CASE ~Asks(c)
      <4>1. a = <<>> /\ c.cmd \notin Harmful
        BY <1>2, <1>4, <2>6, <3>3, NoAnswers DEF Asks
      <4>2. b = <<>>
        BY <1>6, <4>1
      <4>3. Stream' = Stream
        BY <1>3, <1>7, <4>2, ConcatEmptySeq
      <4> QED
        BY <3>2, <4>1, <4>3
    <3>4. CASE Asks(c)
      <4>1. ~Silent(net.out)
        BY <1>1, <3>4 DEF Silent
      <4>2. First.do \in Reading
        BY <1>17, <2>9, <4>1, AnsweringReads
      <4>3. CASE Stream = <<>>
        <5>1. Len(Stream) = 0 /\ Stream' # Stream
          BY <3>1, <4>3
        <5>2. PICK k \in 1..Len(b) : b[k].kind = "readonly" /\ b[k].of = call.n
          BY <1>8, <3>1, <5>1
        <5>3. k = 1 /\ a[1].kind = "readonly" /\ c.of = call.n /\ a # <<>>
          BY <1>6, <1>7, <2>1, <5>2
        <5>4. c.cmd \in Harmful /\ Effects(c.cmd, a) = 0
          BY <1>1, <1>2, <1>3, <1>4, <5>3, RefusalDoesNothing DEF Pooled
        <5>5. server.done = 0
          BY <1>1, <2>2, <4>2, <5>3, <5>4
        <5> QED
          BY <1>2, <5>4, <5>5
      <4>4. CASE Stream # <<>>
        <5>1. Blocked(call, held, mc, Stream)
          BY <2>7, <4>1, <4>2, <4>4 DEF Reads
        <5>2. Stream'[1] = Stream[1]
          BY <1>3, <1>7, <4>4, SeqBasics
        <5> QED
          BY <2>7, <3>1, <4>2, <5>1, <5>2 DEF Blocked
      <4> QED
        BY <4>3, <4>4
    <3> QED
      BY <3>3, <3>4
  <2> QED
    BY <2>3, <2>4, <2>5, <2>8, <2>9
<1> QED
  BY <1>1, <1>10, <1>11, <1>16, <1>17 DEF TouchInv

-----------------------------------------------------------------------------
(* A part of what is under way is lost, or nothing happens to it.          *)
LEMMA DroppedIsAmong ==
    ASSUME TypeOK, net'.buf = net.buf, net'.wire \in Seq(PacketType), Part(net'.wire, net.wire)
    PROVE  Part(Stream', Stream) /\ Among(Stream', Stream)
<1> DEFINE b == net.buf
           w == net.wire
           v == net'.wire
<1>1. b \in Seq(PacketType) /\ w \in Seq(PacketType) /\ v \in Seq(PacketType)
  BY DEF TypeOK, NetType
<1>2. Stream = b \o w /\ Stream' = b \o v
  BY DEF Stream
<1>3. Len(v) <= Len(w) /\ \A i \in 1..Len(v) : v[i] = w[i]
  BY DEF Part
<1> HIDE DEF b, w, v
<1>4. /\ Len(b \o w) = Len(b) + Len(w) /\ Len(b) \in Nat /\ Len(w) \in Nat
      /\ \A i \in 1..Len(b) : (b \o w)[i] = b[i]
      /\ \A i \in 1..Len(w) : (b \o w)[Len(b) + i] = w[i]
  BY <1>1, PacketsAppended, Zenon
<1>5. /\ Len(b \o v) = Len(b) + Len(v) /\ Len(v) \in Nat
      /\ \A i \in 1..Len(b) : (b \o v)[i] = b[i]
      /\ \A i \in 1..Len(v) : (b \o v)[Len(b) + i] = v[i]
  BY <1>1, PacketsAppended, Zenon
<1> DEFINE x == b \o v
           y == b \o w
<1>6. /\ Len(y) = Len(b) + Len(w) /\ Len(x) = Len(b) + Len(v)
      /\ \A i \in 1..Len(b) : x[i] = b[i] /\ y[i] = b[i]
      /\ \A i \in 1..Len(w) : y[Len(b) + i] = w[i]
      /\ \A i \in 1..Len(v) : x[Len(b) + i] = v[i]
  BY <1>4, <1>5, Zenon
<1> HIDE DEF x, y
<1>7. ASSUME NEW i \in 1..Len(x)
      PROVE  x[i] = y[i] /\ i \in 1..Len(y)
  <2>1. CASE i <= Len(b)
    BY <1>3, <1>4, <1>5, <1>6, <2>1
  <2>2. CASE ~(i <= Len(b))
    <3>1. i - Len(b) \in 1..Len(v) /\ i - Len(b) \in 1..Len(w) /\ Len(b) + (i - Len(b)) = i
      BY <1>3, <1>4, <1>5, <1>6, <2>2
    <3>2. x[Len(b) + (i - Len(b))] = v[i - Len(b)] /\ y[Len(b) + (i - Len(b))] = w[i - Len(b)]
      BY <1>6, <3>1
    <3> QED
      BY <1>3, <1>4, <1>6, <3>1, <3>2
  <2> QED
    BY <2>1, <2>2
<1>8. Len(x) <= Len(y)
  BY <1>3, <1>4, <1>5, <1>6
<1>9. Part(x, y) /\ Among(x, y)
  BY <1>7, <1>8 DEF Part, Among
<1> QED
  BY <1>2, <1>9 DEF x, y

LEMMA NothingIsPart ==
    \A s \in Seq(PacketType) : Part(s, s) /\ Part(<<>>, s) /\ <<>> \in Seq(PacketType) /\ Among(s, s)
BY DEF Part, Among

LEMMA NextStreamTyped ==
    ASSUME TypeOK'
    PROVE  Stream' \in Seq(PacketType)
<1>1. net'.buf \in Seq(PacketType) /\ net'.wire \in Seq(PacketType)
  BY DEF TypeOK, NetType
<1>2. net'.buf \o net'.wire \in Seq(PacketType)
  BY <1>1, PacketsAppended, Zenon
<1> QED
  BY <1>2 DEF Stream

(* The watcher, the context and the network.                               *)
LEMMA LosingKeepsRetry ==
    ASSUME Front, PastInv, FreshInv, TouchInv, call' = call, held' = held, server' = server,
           Among(net'.out, net.out), Part(Stream', Stream), Among(Stream', Stream),
           Stream' \in Seq(PacketType), mc'.reset => mc.reset \/ (~HasRows /\ ~Running),
           mc.closed => mc'.closed
    PROVE  PastInv' /\ FreshInv' /\ TouchInv'
<1>1. First' = First /\ Running' = Running /\ HasRows' = HasRows
  BY DEF First, Running, HasRows
<1>2. PastInv'
  BY PastKept
<1>3. FreshInv'
  BY <1>1 DEF FreshInv
<1>4. Untouched => Untouched'
  BY UntouchedKept
<1>5. FileSeen' => FileSeen
  <2>1. ASSUME \E i \in 1..Len(Stream') : Stream'[i].kind = "file" /\ Stream'[i].of = call.n
        PROVE  \E i \in 1..Len(Stream) : Stream[i].kind = "file" /\ Stream[i].of = call.n
    BY <2>1 DEF Among
  <2> QED
    BY <1>1, <2>1 DEF FileSeen
<1>6. Stream' # <<>> => Stream # <<>> /\ Stream'[1] = Stream[1]
  <2>1. Stream \in Seq(PacketType)
    BY FrontFacts
  <2>2. Len(Stream') \in Nat /\ Stream' \in Seq(PacketType)
    BY SeqBasics
  <2> QED
    BY <2>1, <2>2, SeqBasics DEF Part
<1>7. ASSUME \A i \in 1..Len(net.out) :
                net.out[i].of = call.n /\ net.out[i].cmd \in Harmful => server.done = 0
      PROVE  \A i \in 1..Len(net'.out) :
                net'.out[i].of = call.n /\ net'.out[i].cmd \in Harmful => server.done = 0
  BY <1>7 DEF Among
<1>8. Answering' /\ Denied' => Answering /\ Denied
  <2>1. Answering' => Answering
    BY <1>1 DEF Answering
  <2>2. Denied' => Denied
    BY <1>6 DEF Denied, Among
  <2> QED
    BY <2>1, <2>2
<1>9. TouchInv'
  BY <1>1, <1>4, <1>5, <1>7, <1>8 DEF TouchInv
<1> QED
  BY <1>2, <1>3, <1>9

LEMMA OtherKeepRetry ==
    ASSUME Front, PastInv, FreshInv, TouchInv, OtherSteps, TypeOK'
    PROVE  PastInv' /\ FreshInv' /\ TouchInv'
<1>1. /\ TypeOK /\ net \in NetType /\ mc \in ConnType /\ Stream \in Seq(PacketType)
      /\ net.wire \in Seq(PacketType) /\ net.buf \in Seq(PacketType) /\ net.out \in Seq(CommandType)
  BY FrontFacts DEF TypeOK, NetType
<1>2. UNCHANGED <<call, held>>
  BY OtherStepsKeep
<1>3. Stream' \in Seq(PacketType)
  BY NextStreamTyped
<1>4. Among(net.out, net.out) /\ Among(<<>>, net.out)
  BY DEF Among
<1>5. CASE ResetSession
  <2>1. /\ net' = net /\ server' = server /\ ~HasRows /\ call.todo = <<>> /\ ~mc.closed
    BY <1>5 DEF ResetSession, Over
  <2>2. ~Running
    BY <2>1 DEF Running, Runs
  <2>3. Stream' = Stream
    BY <2>1 DEF Stream
  <2>4. Part(Stream', Stream) /\ Among(Stream', Stream)
    BY <1>1, <2>3, NothingIsPart
  <2> QED
    BY <1>2, <1>3, <1>4, <2>1, <2>2, <2>4, LosingKeepsRetry
<1>6. CASE Server
  BY <1>6, ServerKeepsRetry
<1>7. CASE ServerCloses
  <2> DEFINE e == Packet("err", "none")
  <2>1. /\ call.todo = <<>> /\ net.wire = <<>> /\ UNCHANGED <<mc, server>>
        /\ net'.out = net.out /\ net'.buf = net.buf /\ net'.wire = <<e>>
    BY <1>1, <1>7 DEF ServerCloses, Over, NetType
  <2>2. e \in PacketType /\ e.kind = "err" /\ e.of = 0
    BY PacketIs DEF Kinds, Packet
  <2> HIDE DEF e
  <2>3. <<e>> \in Seq(PacketType) /\ Len(<<e>>) = 1 /\ <<e>>[1] = e
    BY <2>2
  <2>4. /\ Stream = net.buf \o <<>> /\ Stream' = net.buf \o <<e>>
    BY <2>1 DEF Stream
  <2>5. Stream = net.buf
    BY <1>1, <2>4, ConcatEmptySeq
  <2>6. /\ Len(Stream') = Len(net.buf) + 1 /\ Len(net.buf) \in Nat
        /\ \A i \in 1..Len(net.buf) : Stream'[i] = net.buf[i]
        /\ Stream'[Len(net.buf) + 1] = e
    <3> DEFINE b == net.buf
               x == b \o <<e>>
    <3>1. b \in Seq(PacketType) /\ Stream' = x
      BY <1>1, <2>4
    <3> HIDE DEF b
    <3>2. /\ Len(x) = Len(b) + Len(<<e>>) /\ Len(b) \in Nat
          /\ \A i \in 1..Len(b) : x[i] = b[i]
          /\ \A i \in 1..Len(<<e>>) : x[Len(b) + i] = <<e>>[i]
      BY <2>3, <3>1, PacketsAppended, Zenon
    <3> HIDE DEF x
    <3>3. 1 \in 1..Len(<<e>>)
      BY <2>3
    <3> QED
      BY <2>3, <3>1, <3>2, <3>3 DEF b
  <2>7. \A i \in 1..Len(Stream') : \/ \E j \in 1..Len(Stream) : Stream'[i] = Stream[j]
                                   \/ Stream'[i] = e
    <3>1. SUFFICES ASSUME NEW i \in 1..Len(Stream')
                   PROVE  i \in 1..Len(net.buf) \/ i = Len(net.buf) + 1
      BY <2>5, <2>6
    <3> QED
      BY <2>6, <3>1
  <2>8. PastInv'
    <3>1. call.n \in Nat
      BY <1>1 DEF TypeOK, CallType
    <3>2. \A i \in 1..Len(net'.out) : net'.out[i].of <= call'.n
      BY <1>2, <2>1 DEF PastInv
    <3>3. \A i \in 1..Len(Stream') : Stream'[i].of <= call'.n
      BY <1>2, <2>2, <2>7, <3>1 DEF PastInv
    <3> QED
      BY <3>2, <3>3 DEF PastInv
  <2>9. First' = First /\ Running' = Running /\ HasRows' = HasRows
    BY <1>2 DEF First, Running, HasRows
  <2>10. FreshInv'
    BY <2>1, <2>9 DEF FreshInv
  <2>11. First.do = "none"
    BY <2>1, TaskIs DEF First, At, None
  <2>12. FileSeen' => FileSeen
    <3>1. ASSUME \E i \in 1..Len(Stream') : Stream'[i].kind = "file" /\ Stream'[i].of = call.n
          PROVE  \E i \in 1..Len(Stream) : Stream[i].kind = "file" /\ Stream[i].of = call.n
      BY <2>2, <2>7, <3>1
    <3> QED
      BY <1>2, <2>9, <3>1 DEF FileSeen
  <2>13. Untouched' = Untouched
    BY <1>2, <2>1 DEF Untouched
  <2>14. TouchInv'
    BY <1>2, <2>1, <2>9, <2>11, <2>12, <2>13 DEF TouchInv, Reading, Answering
  <2> QED
    BY <2>8, <2>10, <2>14
<1>8. CASE Watcher \/ CancelContext
  <2>1. /\ net' = net \/ net' = Dropped(net)
        /\ server' = server /\ mc'.reset = mc.reset /\ (mc.closed => mc'.closed)
    BY <1>1, <1>8 DEF Watcher, WatcherTakes, WatcherEnds, WatcherSees, WatcherCloses, CancelContext, Closed, ConnType
  <2>2. /\ net'.out = net.out /\ net'.buf = net.buf
        /\ net'.wire = net.wire \/ net'.wire = <<>>
    BY <1>1, <2>1, DroppedTyped
  <2>3. Part(net'.wire, net.wire) /\ net'.wire \in Seq(PacketType)
    BY <1>1, <2>2, NothingIsPart
  <2>4. Part(Stream', Stream) /\ Among(Stream', Stream)
    BY <1>1, <2>2, <2>3, DroppedIsAmong
  <2> QED
    BY <1>2, <1>3, <1>4, <2>1, <2>2, <2>4, LosingKeepsRetry
<1>9. CASE Break
  <2>1. /\ mc' = mc /\ server' = server /\ net'.out \in {net.out, <<>>} /\ net'.buf = net.buf
        /\ Len(net'.wire) <= Len(net.wire) /\ \A i \in 1..Len(net'.wire) : net'.wire[i] = net.wire[i]
        /\ net'.wire \in Seq(PacketType)
    BY <1>1, <1>9, BreakTyped DEF Break, NetType
  <2>2. Part(Stream', Stream) /\ Among(Stream', Stream)
    BY <1>1, <2>1, DroppedIsAmong DEF Part
  <2>3. Among(net'.out, net.out)
    BY <1>4, <2>1
  <2> QED
    BY <1>2, <1>3, <2>1, <2>2, <2>3, LosingKeepsRetry
<1> QED
  BY <1>5, <1>6, <1>7, <1>8, <1>9 DEF OtherSteps

-----------------------------------------------------------------------------
(* The call that comes next: nothing that is under way is of it.           *)
LEMMA StartKeepsRetry ==
    ASSUME Front, PastInv, FreshInv, NEW name \in Names, NEW c \in {"none", "live", "done"},
           Start(name, c), TasksInv'
    PROVE  PastInv' /\ FreshInv' /\ TouchInv'
<1>1. /\ TypeOK /\ Pooled /\ TasksInv /\ net \in NetType /\ mc \in ConnType
      /\ net.wire \in Seq(PacketType) /\ net.buf \in Seq(PacketType) /\ call.n \in Nat
      /\ server \in ServerType
  BY FrontFacts DEF TypeOK, NetType, CallType
<1>2. /\ call.todo = <<>> /\ call'.name = name /\ call'.n = call.n + 1
      /\ held'.of = (IF HasRows THEN held.of ELSE 0) /\ held.of < call'.n
      /\ HasRows => held.of # 0
      /\ name \in RowCalls => HasRows
  BY StartHeld
<1>3. /\ net'.out = net.out /\ net'.buf = net.buf /\ net'.wire \in {net.wire, <<>>}
  BY StartConn
<1>4. /\ Pooled' /\ name # "Connect"
      /\ call'.todo = <<>> \/ Begins(call'.todo)
      /\ call'.todo # <<>> <=> call'.err = "running"
  BY <1>1, StartKeepsTasks
<1>5. server'.done = 0 /\ server'.file = FALSE /\ server'.refused = FALSE
  BY <1>1 DEF Start, ServerType
<1>6. mc'.reset = mc.reset
  <2>1. CASE UNCHANGED mc
    BY <2>1
  <2>2. CASE LET w == IF name \in Watched THEN WatchCancel(c)
                      ELSE [mc |-> mc, net |-> net, watcher |-> watcher]
             IN  mc' = [w.mc EXCEPT !.sequence = IF HasRows THEN @ ELSE 0]
    <3> DEFINE w == IF name \in Watched THEN WatchCancel(c)
                    ELSE [mc |-> mc, net |-> net, watcher |-> watcher]
    <3>1. WatchCancel(c).mc \in ConnType /\ WatchCancel(c).mc.reset = mc.reset
      <4>1. WatchCancel(c).mc \in ConnType
        BY <1>1, WatchCancelTyped
      <4>2. WatchCancel(c).mc \in {Closed(mc), [mc EXCEPT !.watching = TRUE], mc}
        BY DEF WatchCancel
      <4>3. Closed(mc).reset = mc.reset /\ [mc EXCEPT !.watching = TRUE].reset = mc.reset
        BY <1>1 DEF Closed, ConnType
      <4> QED
        BY <4>1, <4>2, <4>3
    <3>2. w.mc \in ConnType /\ w.mc.reset = mc.reset
      BY <1>1, <3>1
    <3>3. mc' = [w.mc EXCEPT !.sequence = IF HasRows THEN @ ELSE 0]
      BY <2>2
    <3> HIDE DEF w
    <3> QED
      BY <3>2, <3>3 DEF ConnType
  <2> QED
    BY <2>1, <2>2, StartCases
<1>7. Among(Stream', Stream)
  <2>1. Part(net'.wire, net.wire) /\ net'.wire \in Seq(PacketType)
    BY <1>1, <1>3, NothingIsPart
  <2> QED
    BY <1>1, <1>3, <2>1, DroppedIsAmong
<1>8. /\ \A i \in 1..Len(net'.out) : net'.out[i].of <= call.n
      /\ \A i \in 1..Len(Stream') : Stream'[i].of <= call.n
  BY <1>3, <1>7 DEF PastInv, Among
<1>9. \A k \in Nat : k <= call.n => k <= call'.n /\ k # call'.n
  BY <1>1, <1>2
<1>10. /\ \A i \in 1..Len(net'.out) : net'.out[i].of \in Nat
       /\ \A i \in 1..Len(Stream') : Stream'[i].of \in Nat
  <2>1. \A s \in Seq(PacketType) : \A i \in 1..Len(s) : s[i].of \in Nat
    <3>1. SUFFICES ASSUME NEW s \in Seq(PacketType), NEW i \in 1..Len(s)
                   PROVE  s[i].of \in Nat
      OBVIOUS
    <3>2. s[i] \in PacketType
      BY SeqBasics
    <3> QED
      BY <3>2 DEF PacketType
  <2>2. \A s \in Seq(CommandType) : \A i \in 1..Len(s) : s[i].of \in Nat
    <3>1. SUFFICES ASSUME NEW s \in Seq(CommandType), NEW i \in 1..Len(s)
                   PROVE  s[i].of \in Nat
      OBVIOUS
    <3>2. s[i] \in CommandType
      BY SeqBasics
    <3> QED
      BY <3>2 DEF CommandType
  <2>3. net.out \in Seq(CommandType) /\ Stream \in Seq(PacketType)
    BY FrontFacts DEF NetType
  <2> QED
    BY <1>3, <1>7, <2>1, <2>2, <2>3 DEF Among
<1>11. PastInv'
  BY <1>8, <1>9, <1>10 DEF PastInv
<1>12. Untouched'
  BY <1>5, <1>8, <1>9, <1>10 DEF Untouched
<1>13. /\ First'.do \in {"none", "open", "next", "nextResult", "finish"} \/ Starts(First')
       /\ Running' => Sends(First') \/ First'.do \in {"next", "nextResult", "finish"}
  <2>1. CASE call'.todo = <<>>
    <3>1. First'.do = "none" /\ ~Running'
      BY <2>1, TaskIs DEF First, At, None, Running, Runs
    <3> QED
      BY <3>1
  <2>2. CASE Begins(call'.todo)
    <3>1. \/ First'.do \in {"open", "next", "nextResult", "finish"}
          \/ Starts(First')
      BY <2>2 DEF Begins, First
    <3>2. First'.do = "open" \/ Starts(First') => Sends(First')
      BY DEF Sends, Starts, IsFile
    <3> QED
      BY <3>1, <3>2
  <2> QED
    BY <1>4, <2>1, <2>2
<1>14. ~IsFile(First') /\ First'.do \notin Reading
  BY <1>13 DEF IsFile, Starts, Reading
<1>15. FreshInv'
  <2>1. HasRows' => HasRows
    BY <1>2 DEF HasRows
  <2>2. ASSUME Running', ~Sends(First')
        PROVE  HasRows
    <3>1. call'.todo # <<>> /\ First'.do \in {"next", "nextResult", "finish"} /\ call'.err = "running"
      BY <1>13, <2>2 DEF Running, Runs
    <3>2. Leads(name, First', At(call'.todo, 2), At(call'.todo, 3)) /\ Ready(call', held', First')
      <4>1. Sound(call', held', call'.todo) /\ call'.todo \in Seq(TaskType)
        BY <1>4, <3>1 DEF TasksInv, Begins
      <4> QED
        BY <1>2, <3>1, <4>1, SoundFirst DEF First
    <3>3. First'.do = "next" => name \in RowCalls
      BY <3>2 DEF Leads, RowCalls
    <3>4. First'.do = "finish" => name \in RowCalls
      BY <1>2, <3>1, <3>2 DEF Ready, RowCalls
    <3>5. First'.do = "nextResult" => name \in RowCalls
      <4>1. SUFFICES ASSUME First'.do = "nextResult", name \notin RowCalls
                     PROVE  FALSE
        OBVIOUS
      <4>2. held'.of = OwnerOf(call', held') /\ OwnerOf(call', held') = call'.n
        BY <1>2, <3>2, <4>1 DEF Ready, OwnerOf
      <4>3. held.of \in Nat
        BY <1>1 DEF TypeOK, HeldType
      <4> QED
        BY <1>1, <1>2, <4>2, <4>3
    <3> QED
      BY <1>2, <3>1, <3>3, <3>4, <3>5
  <2> QED
    BY <1>6, <2>1, <2>2 DEF FreshInv
<1>16. call'.err = "badconn" => name = "Ping"
  BY StartCases DEF NewCall
<1>17. ~FileSeen'
  BY <1>8, <1>9, <1>10, <1>14 DEF FileSeen
<1>18. TouchInv'
  BY <1>5, <1>12, <1>14, <1>17 DEF TouchInv
<1> QED
  BY <1>11, <1>15, <1>18

-----------------------------------------------------------------------------
(* The client's own steps.  A call is refused by a step that finds nothing *)
(* can be sent, or reads that the server is read-only.                     *)
Refused ==
    /\ call.name \notin RowCalls /\ net'.out = net.out /\ Running
    /\ \/ Sends(First) \/ IsFile(First)
       \/ First.do \in Reading /\ Silent(net.out) /\ Denied

(* What the task after a step has to do with the one before.               *)
Turns ==
    /\ Running' => Running
    /\ Running' /\ Sends(First') => Sends(First) \/ call.name = "BeginTx"
    /\ Running' /\ mc'.reset /\ Sends(First) => Sends(First')
    /\ IsFile(First') /\ call.name \notin RowCalls => FileSeen
    /\ First'.do \in Reading /\ call.name \notin RowCalls =>
          \/ Sends(First) \/ IsFile(First)
          \/ Silent(net.out) /\ net'.out = net.out
    /\ Answering' /\ Denied' /\ call.name \notin RowCalls =>
          Sends(First) \/ IsFile(First) \/ (Answering /\ Denied)
    /\ call'.err = "badconn" => call.err = "badconn" \/ Refused \/ call.name \in RowCalls
    /\ \A i \in 1..Len(net'.out) :
          \/ \E j \in 1..Len(net.out) : net'.out[i] = net.out[j]
          \/ /\ net'.out[i].of = Owner
             /\ net'.out[i].cmd \in Harmful =>
                   Running /\ ~Sends(First') /\ (call.name = "BeginTx" => IsFile(First))

LEMMA OwnerIsPast ==
    ASSUME TypeOK, Pooled, TasksInv
    PROVE  Owner <= call.n /\ Owner = OwnerOf(call, held)
BY DEF TypeOK, CallType, TasksInv, Owner, OwnerOf, RowCalls

(* A step of the client that is not a return leaves the rows alone while a *)
(* command is still to be sent, and once the call has its result.          *)
LEMMA MovesLate ==
    ASSUME Front, Moves
    PROVE  /\ call.todo # <<>>
           /\ ~Running => call.name = "Prepare"
           /\ ~Running \/ Sends(First) => held' = held
<1>1. TypeOK /\ Pooled /\ TasksInv /\ call.todo # <<>>
  BY MovesCalm DEF Front
<1>2. /\ First = Head(call.todo) /\ Ready(call, held, First)
      /\ Leads(call.name, First, At(call.todo, 2), At(call.todo, 3))
  BY <1>1, TaskFacts DEF First
<1>3. First.do # "finish"
  <2>1. SUFFICES ASSUME First.do = "finish" PROVE FALSE
    OBVIOUS
  <2> QED
    BY <1>2, <2>1 DEF Moves, Step, Open, TakeBuffer, Discard, NextRow, NextResult, More, CloseRows,
       LookAtContext, ReadPacket, Write, TLSHandshake, Cleanup, OutOfSync, ReadFails, ReadTimeout,
       BusyBuffer, Doing, Reading
<1>4. ~Running => First.do = "ctx" \/ (First.do = "write" /\ call.name = "Prepare")
  BY <1>1, <1>2, <1>3 DEF Ready, Running, Runs
<1>5. ASSUME First.do \in {"ctx", "open", "buffer", "write"}
      PROVE  held' = held
  <2>1. CASE Step
    BY <1>2, <1>5, <2>1 DEF Step, Open, TakeBuffer, Discard, NextRow, NextResult, More, CloseRows,
       LookAtContext, Doing
  <2>2. CASE Write
    BY <2>2 DEF Write, TooLarge, Stale, NothingWritten, PartWritten, Sent
  <2>3. CASE OutOfSync \/ ReadFails \/ ReadTimeout \/ BusyBuffer
    BY <2>3 DEF OutOfSync, ReadFails, ReadTimeout, BusyBuffer
  <2>4. CASE ReadPacket \/ Cleanup \/ TLSHandshake
    BY <1>2, <1>5, <2>4 DEF ReadPacket, Cleanup, TLSHandshake, Doing, Reading, Leads
  <2> QED
    BY <2>1, <2>2, <2>3, <2>4 DEF Moves
<1> QED
  BY <1>1, <1>2, <1>4, <1>5 DEF Leads, Sends

LEMMA RowsAppear ==
    ASSUME Front, Moves, FreshInv, HasRows', mc.reset,
           call'.name = call.name, call'.n = call.n
    PROVE  FALSE
<1>1. ~HasRows /\ (Running => Sends(First))
  BY DEF FreshInv
<1>2. call.todo # <<>> /\ held' = held /\ (~Running => call.name = "Prepare")
  BY <1>1, MovesLate
<1>3. /\ held.of # 0 /\ call.name # "RowsClose"
      /\ call.name \in {"Query", "StmtQuery"} /\ held.of = call.n
  BY <1>1, <1>2 DEF HasRows
<1>4. Running
  BY <1>2, <1>3
<1>5. Ready(call, held, First) /\ OwnerOf(call, held) = call.n /\ call.err = "running"
  BY <1>2, <1>3, <1>4, TaskFacts DEF Front, First, OwnerOf, RowCalls, Running, Runs
<1> QED
  BY <1>1, <1>3, <1>4, <1>5 DEF Ready

LEMMA TurnsKeepTouch ==
    ASSUME Front, PastInv, FreshInv, TouchInv, Turns, TypeOK', TasksInv', server' = server,
           call'.name = call.name, call'.n = call.n, Among(Stream', Stream)
    PROVE  PastInv' /\ TouchInv'
<1>1. TypeOK /\ Pooled /\ TasksInv /\ Pooled'
  BY DEF Front, Pooled
<1>2. Owner <= call.n
  BY <1>1, OwnerIsPast
<1>3. PastInv'
  <2>1. \A i \in 1..Len(net'.out) : net'.out[i].of <= call'.n
    BY <1>2 DEF PastInv, Turns
  <2>2. \A i \in 1..Len(Stream') : Stream'[i].of <= call'.n
    BY DEF PastInv, Among
  <2> QED
    BY <2>1, <2>2 DEF PastInv
<1>4. ASSUME Untouched,
              ~Running \/ (call.name = "BeginTx" /\ ~IsFile(First)) \/ Sends(First') \/ net'.out = net.out
      PROVE  Untouched'
  <2>1. \A i \in 1..Len(net'.out) : net'.out[i].of = call'.n => net'.out[i].cmd \notin Harmful
    BY <1>4 DEF Untouched, Turns
  <2> QED
    BY <1>4, <2>1 DEF Untouched
<1>5. \A x \in Harmful : \A y : y.cmd = x => Asks(y)
  BY DEF Harmful, Asks
<1>6. Silent(net.out) => \A i \in 1..Len(net.out) : net.out[i].cmd \notin Harmful
  BY <1>5 DEF Silent
<1>7. FileSeen' /\ call.name \notin RowCalls => FileSeen
  <2>1. (\E i \in 1..Len(Stream') : Stream'[i].kind = "file" /\ Stream'[i].of = call.n)
        => \E i \in 1..Len(Stream) : Stream[i].kind = "file" /\ Stream[i].of = call.n
    BY DEF Among
  <2> QED
    BY <2>1 DEF FileSeen, Turns
<1>8. /\ IsFile(First) /\ call.name \notin RowCalls => server.file \/ server.refused
      /\ (~Running => ~IsFile(First) /\ First.do \notin Reading \cup {"discard", "more", "nextResult"})'
  <2>1. (~Running => ~IsFile(First) /\ First.do \notin Reading \cup {"discard", "more", "nextResult"})'
    BY <1>1, ResultIsLast, PTL
  <2> QED
    BY <2>1 DEF FileSeen, TouchInv
<1>9. call'.err = "badconn" => call'.name \in RowCalls \/ server'.file \/ server'.refused \/ Untouched'
  <2>1. CASE call.err = "badconn"
    <3>1. ~Running /\ (call.name \in RowCalls \/ server.file \/ server.refused \/ Untouched)
      BY <2>1 DEF Running, Runs, TouchInv
    <3> QED
      BY <1>4, <3>1
  <2>2. CASE Refused
    <3>1. call.name \notin RowCalls /\ net'.out = net.out /\ Running
      BY <2>2 DEF Refused
    <3>2. server.file \/ server.refused \/ Untouched
      <4>1. CASE Sends(First)
        BY <3>1, <4>1 DEF TouchInv
      <4>2. CASE IsFile(First)
        BY <1>8, <3>1, <4>2
      <4>3. CASE First.do \in Reading /\ Silent(net.out) /\ Denied
        <5>1. server.file \/ server.refused \/ server.done = 0
          BY <3>1, <4>3 DEF TouchInv, Answering
        <5> QED
          BY <1>6, <4>3, <5>1 DEF Untouched
      <4> QED
        BY <2>2, <4>1, <4>2, <4>3 DEF Refused
    <3> QED
      BY <1>4, <3>1, <3>2
  <2> QED
    BY <2>1, <2>2 DEF Turns
<1>10. ASSUME call.name \notin RowCalls, ~server.file, ~server.refused
       PROVE  /\ ~FileSeen'
              /\ Answering' /\ Denied' => server'.done = 0
              /\ Running' /\ (Sends(First') \/ call'.name = "BeginTx") => Untouched'
              /\ First'.do \in Reading =>
                   \A i \in 1..Len(net'.out) :
                        net'.out[i].of = call'.n /\ net'.out[i].cmd \in Harmful => server'.done = 0
  <2>1. /\ ~FileSeen /\ ~IsFile(First)
        /\ Answering /\ Denied => server.done = 0
        /\ Running /\ (Sends(First) \/ call.name = "BeginTx") => Untouched
    BY <1>10 DEF TouchInv, FileSeen
  <2>2. Running' /\ (Sends(First') \/ call.name = "BeginTx") => Untouched
    BY <2>1 DEF Turns
  <2>3. Running' /\ Sends(First) => server.done = 0
    BY <2>1 DEF Turns, Untouched
  <2>4. ASSUME First'.do \in Reading
        PROVE  server.done = 0 \/ \A i \in 1..Len(net'.out) : net'.out[i].cmd \notin Harmful
    <3>1. Running'
      BY <1>8, <2>4
    <3> QED
      BY <1>6, <1>10, <2>1, <2>3, <2>4, <3>1 DEF Turns
  <2>5. ASSUME Answering', Denied'
        PROVE  server.done = 0
    <3>1. Running'
      BY <1>8, <2>5 DEF Answering
    <3> QED
      BY <1>10, <2>1, <2>3, <2>5, <3>1 DEF Turns
  <2> QED
    BY <1>4, <1>7, <1>10, <2>1, <2>2, <2>4, <2>5
<1> QED
  BY <1>3, <1>9, <1>10 DEF TouchInv

LEMMA TurnsKeepFresh ==
    ASSUME Front, Moves, FreshInv, Turns, mc'.reset => mc.reset,
           call'.name = call.name, call'.n = call.n
    PROVE  FreshInv'
<1>1. HasRows' => ~mc'.reset
  BY RowsAppear
<1>2. Running' /\ ~Sends(First') => ~mc'.reset
  BY DEF FreshInv, Turns
<1> QED
  BY <1>1, <1>2 DEF FreshInv

-----------------------------------------------------------------------------
(* A step after which the call has its result.                             *)
LEMMA ReturnTurns ==
    ASSUME Front, TypeOK', TasksInv', call.todo # <<>>, call.err = "running",
           NEW err, err # "running", Return(err), net'.out = net.out,
           MarkBadConn(call.name, err) = "badconn" => Refused \/ call.name \in RowCalls
    PROVE  Turns /\ call'.name = call.name /\ call'.n = call.n /\ ~Running'
<1>1. TypeOK /\ Pooled
  BY DEF Front
<1>2. /\ call'.name = call.name /\ call'.n = call.n
      /\ call'.err = MarkBadConn(call.name, err)
  BY <1>1, ReturnIs
<1>3. call'.err # "running" /\ Pooled'
  BY <1>1, <1>2 DEF MarkBadConn, Pooled
<1>4. ~Running' /\ Running
  BY <1>3 DEF Running, Runs
<1>5. (~Running => ~IsFile(First) /\ First.do \notin Reading \cup {"discard", "more", "nextResult"})'
  BY <1>3, ResultIsLast, PTL
<1>6. ~Answering' /\ ~IsFile(First') /\ First'.do \notin Reading
  BY <1>4, <1>5 DEF Answering
<1> QED
  BY <1>2, <1>4, <1>6 DEF Turns

(* A step after which it goes on with other tasks.                         *)
LEMMA GoTurns ==
    ASSUME Front, TypeOK', TasksInv', call.todo # <<>>, call.err = "running",
           NEW todo, Go(todo), net'.out = net.out,
           todo # <<>> =>
              LET t == At(todo, 1)
              IN  /\ Sends(t) => Sends(First) \/ call.name = "BeginTx"
                  /\ Sends(First) => Sends(t)
                  /\ IsFile(t) /\ call.name \notin RowCalls => FileSeen
                  /\ t.do \in Reading /\ call.name \notin RowCalls => Silent(net.out)
                  /\ Sends(First) \/ call.name \in RowCalls \/ (Answering /\ Stream' = Stream)
    PROVE  Turns /\ call'.name = call.name /\ call'.n = call.n
<1>1. CASE todo = <<>>
  <2>1. Return("nil")
    BY <1>1, GoIs DEF Front
  <2> QED
    BY <2>1, ReturnTurns DEF MarkBadConn
<1>2. CASE todo # <<>>
  <2>1. call'.todo = todo /\ call'.err = "running" /\ call'.name = call.name /\ call'.n = call.n
    BY <1>2, GoIs DEF Front
  <2>2. First' = At(todo, 1) /\ Running /\ Running'
    BY <1>2, <2>1 DEF First, Running, Runs
  <2>3. Stream' = Stream /\ Denied' => Denied
    BY <2>1 DEF Denied
  <2> QED
    BY <1>2, <2>1, <2>2, <2>3 DEF Turns
<1> QED
  BY <1>1, <1>2

LEMMA OpenTurns ==
    ASSUME Front, TypeOK', TasksInv', Open \/ TakeBuffer, net' = net
    PROVE  Turns /\ call'.name = call.name /\ call'.n = call.n
<1> DEFINE u == At(call.todo, 2)
           tail == Tail(call.todo)
<1>1. TypeOK /\ Pooled /\ TasksInv /\ call.todo # <<>>
  BY FrontFacts DEF Open, TakeBuffer, Doing
<1>2. /\ First = Head(call.todo) /\ Leads(call.name, First, u, At(call.todo, 3)) /\ Ready(call, held, First)
      /\ At(tail, 1) = u
  BY <1>1, TaskFacts DEF First
<1>3. First.do \in {"open", "buffer"}
  BY <1>2 DEF Open, TakeBuffer, Doing
<1> HIDE DEF u, tail
<1>4. Sends(First) /\ call.err = "running"
  BY <1>2, <1>3 DEF Sends, IsFile, Ready
<1>5. call.name \notin RowCalls
  BY <1>2, <1>4 DEF Ready, OwnerOf
<1>6. Refused
  BY <1>1, <1>4, <1>5 DEF Refused, Running, Runs
<1>7. Sends(u) /\ ~IsFile(u) /\ u.do \notin Reading
  BY <1>2, <1>3 DEF Leads, Starts, Sends, IsFile, Reading
<1>8. \/ Go(tail)
      \/ \E err \in {"invalid", "badconn", "nowrite"} : Return(err)
  BY DEF Open, TakeBuffer, tail
<1>9. CASE Go(tail)
  BY <1>1, <1>2, <1>4, <1>7, <1>9, GoTurns
<1>10. CASE \E err \in {"invalid", "badconn", "nowrite"} : Return(err)
  BY <1>1, <1>4, <1>6, <1>10, ReturnTurns
<1> QED
  BY <1>8, <1>9, <1>10

LEMMA DiscardTurns ==
    ASSUME Front, TypeOK', TasksInv', Discard, net' = net
    PROVE  Turns /\ call'.name = call.name /\ call'.n = call.n
<1> DEFINE u == At(call.todo, 2)
           tail == Tail(call.todo)
           k == Task("header")
           x == <<k>> \o call.todo
<1>1. /\ TypeOK /\ Pooled /\ TasksInv /\ call.todo # <<>> /\ Stream' = Stream
      /\ Fits(call, held, mc, net.out, Stream)
  BY FrontFacts DEF Discard, Doing, Stream
<1>2. /\ First = Head(call.todo) /\ Leads(call.name, First, u, At(call.todo, 3)) /\ Ready(call, held, First)
      /\ At(tail, 1) = u /\ call.todo \in Seq(TaskType)
  BY <1>1, TaskFacts DEF First
<1>3. First.do = "discard"
  BY <1>2 DEF Discard, Doing
<1>4. Silent(net.out) /\ MoreAt(mc, Stream)
  BY <1>1, <1>3 DEF Fits, First, Looks
<1>5. call.err = "running" /\ ~Sends(First)
  BY <1>2, <1>3 DEF Ready, Sends
<1>6. k.do = "header" /\ At(x, 1) = k
  BY <1>2, TaskIs, TaskTyped, AtCons DEF Tasks, Reading
<1>7. Go(x) \/ Go(tail)
  BY DEF Discard
<1>8. Answering
  BY <1>3 DEF Answering
<1> HIDE DEF u, tail, x, k
<1>9. CASE Go(x)
  <2>1. ~Sends(At(x, 1)) /\ ~IsFile(At(x, 1))
    BY <1>6 DEF Sends, IsFile
  <2> QED
    BY <1>1, <1>4, <1>5, <1>8, <1>9, <2>1, GoTurns
<1>10. CASE Go(tail)
  <2>1. u.do = "none" \/ (u.do = "open" /\ call.name = "BeginTx")
    BY <1>2, <1>3 DEF Leads
  <2>2. (Sends(u) => call.name = "BeginTx") /\ ~IsFile(u) /\ u.do \notin Reading
    BY <2>1 DEF Sends, IsFile, Reading
  <2> QED
    BY <1>1, <1>2, <1>5, <1>8, <1>10, <2>2, GoTurns
<1> QED
  BY <1>7, <1>9, <1>10

LEMMA MoreTurns ==
    ASSUME Front, TypeOK', TasksInv', More, net' = net
    PROVE  Turns /\ call'.name = call.name /\ call'.n = call.n
<1> DEFINE x == <<Task("header")>>
<1>1. /\ TypeOK /\ Pooled /\ TasksInv /\ call.todo # <<>> /\ Stream' = Stream
      /\ Fits(call, held, mc, net.out, Stream)
  BY FrontFacts DEF More, Doing, Stream
<1>2. First = Head(call.todo) /\ Ready(call, held, First)
  BY <1>1, TaskFacts DEF First
<1>3. First.do = "more"
  BY <1>2 DEF More, Doing
<1>4. Silent(net.out) /\ MoreAt(mc, Stream)
  BY <1>1, <1>3 DEF Fits, First, Looks
<1>5. call.err = "running" /\ ~Sends(First)
  BY <1>2, <1>3 DEF Ready, Sends
<1>6. At(x, 1).do = "header"
  BY TaskIs DEF At
<1>7. Go(x) \/ Return("nil") \/ Return("end")
  BY DEF More, ReturnEnd
<1>8. Answering
  BY <1>3 DEF Answering
<1> HIDE DEF x
<1>9. CASE Go(x)
  <2>1. ~Sends(At(x, 1)) /\ ~IsFile(At(x, 1))
    BY <1>6 DEF Sends, IsFile
  <2> QED
    BY <1>1, <1>4, <1>5, <1>8, <1>9, <2>1, GoTurns
<1>10. CASE Return("nil") \/ Return("end")
  BY <1>1, <1>5, <1>10, ReturnTurns DEF MarkBadConn
<1> QED
  BY <1>7, <1>9, <1>10

LEMMA RowsTurn ==
    ASSUME Front, TypeOK', TasksInv', NextRow \/ NextResult \/ CloseRows, net' = net
    PROVE  Turns /\ call'.name = call.name /\ call'.n = call.n
<1> DEFINE r == Task("row")
           d == Task("drain")
           m == Task("more")
           k == Task("discard")
           e == Task("eof")
<1>1. /\ TypeOK /\ Pooled /\ TasksInv /\ call.todo # <<>> /\ Stream' = Stream
  BY FrontFacts DEF NextRow, NextResult, CloseRows, Doing, Stream
<1>2. First = Head(call.todo) /\ Ready(call, held, First)
      /\ Leads(call.name, First, At(call.todo, 2), At(call.todo, 3))
  BY <1>1, TaskFacts DEF First
<1>3. First.do \in {"next", "nextResult", "closeRows"}
  BY <1>2 DEF NextRow, NextResult, CloseRows, Doing
<1>4. call.err = "running" /\ ~Sends(First)
  BY <1>2, <1>3 DEF Ready, Sends, Leads
<1>5. r.do = "row" /\ d.do = "drain" /\ m.do = "more" /\ k.do = "discard" /\ e.do = "eof"
  BY TaskIs
<1>6. \/ \E err \in {"end", "nil", "ctx", "invalid"} : Return(err)
      \/ /\ held.open /\ ~mc.closed
         /\ \E x \in {<<r>>, <<m>>, <<d, m>>, <<k>>, <<e, k>>} : Go(x)
  <2>1. CASE NextRow
    BY <2>1 DEF NextRow, ConnError
  <2>2. CASE NextResult
    BY <2>2 DEF NextResult, ConnError, ReturnEnd
  <2>3. CASE CloseRows
    <3>1. <<k>> \in Seq({k}) /\ e \in TaskType /\ k \in TaskType
      BY TaskTyped DEF Tasks, Reading
    <3>2. <<>> \o <<k>> = <<k>>
      BY <3>1, ConcatEmptySeq
    <3> HIDE DEF e, k
    <3>3. <<e>> \o <<k>> = <<e, k>>
      BY <3>1, PairIs, SMTT(30)
    <3> USE DEF e, k
    <3>4. \/ \E err \in {"end", "nil", "ctx", "invalid"} : Return(err)
          \/ held.open /\ ~mc.closed /\ (Go(<<>> \o <<k>>) \/ Go(<<e>> \o <<k>>))
      BY <2>3 DEF CloseRows, ConnError
    <3> QED
      BY <3>2, <3>3, <3>4
  <2> QED
    BY <2>1, <2>2, <2>3
<1>7. \A x \in {<<r>>, <<m>>, <<d, m>>, <<k>>, <<e, k>>} :
         At(x, 1).do \in {"row", "more", "drain", "discard", "eof"}
  <2> HIDE DEF r, d, m, k, e
  <2>1. /\ At(<<r>>, 1) = r /\ At(<<m>>, 1) = m /\ At(<<d, m>>, 1) = d
        /\ At(<<k>>, 1) = k /\ At(<<e, k>>, 1) = e
    BY DEF At
  <2> QED
    BY <1>5, <2>1, Zenon
<1> HIDE DEF r, d, m, k, e
<1>8. CASE \E err \in {"end", "nil", "ctx", "invalid"} : Return(err)
  BY <1>1, <1>4, <1>8, ReturnTurns DEF MarkBadConn
<1>9. CASE /\ held.open /\ ~mc.closed
           /\ \E x \in {<<r>>, <<m>>, <<d, m>>, <<k>>, <<e, k>>} : Go(x)
  <2>1. PICK x : Go(x) /\ At(x, 1).do \in {"row", "more", "drain", "discard", "eof"}
    BY <1>7, <1>9
  <2>2. ~Sends(At(x, 1)) /\ ~IsFile(At(x, 1))
    BY <2>1 DEF Sends, IsFile
  <2>3. Silent(net.out) /\ RowsLeft(held, mc, Stream)
    BY <1>1, <1>3, <1>4, <1>9, AboutRows DEF First
  <2>5. call.name \in RowCalls \/ Answering
    BY <1>2, <1>3, <1>9 DEF Leads, RowCalls, Answering
  <2> QED
    BY <1>1, <1>4, <2>1, <2>2, <2>3, <2>5, GoTurns
<1> QED
  BY <1>6, <1>8, <1>9

LEMMA ContextTurns ==
    ASSUME Front, LookAtContext, net' = net
    PROVE  Turns /\ call'.name = call.name /\ call'.n = call.n
<1>1. /\ TypeOK /\ Pooled /\ TasksInv /\ call.todo # <<>> /\ call \in CallType
  BY FrontFacts DEF LookAtContext, Doing
<1>2. First = Head(call.todo) /\ Ready(call, held, First)
  BY <1>1, TaskFacts DEF First
<1>3. First.do = "ctx"
  BY <1>2 DEF LookAtContext, Doing
<1>4. call.err = "nil"
  BY <1>2, <1>3 DEF Ready
<1>5. /\ call'.todo \in {<<>>, Small("stmtClose")} /\ call'.err \in {"ctx", "nil"}
      /\ call'.name = call.name /\ call'.n = call.n
  BY <1>1, <1>4 DEF LookAtContext, CallType
<1>6. First'.do \in {"none", "write"} /\ ~IsFile(First')
  BY <1>5, TaskIs, WritingIs DEF First, At, None, Small, IsFile
<1>7. ~Running' /\ First'.do \notin Reading /\ ~Answering'
  BY <1>5, <1>6 DEF Running, Runs, Reading, Answering
<1> QED
  BY <1>5, <1>6, <1>7 DEF Turns

LEMMA StepTurns ==
    ASSUME Front, TypeOK', TasksInv', Step
    PROVE  Turns /\ call'.name = call.name /\ call'.n = call.n
BY OpenTurns, DiscardTurns, MoreTurns, RowsTurn, ContextTurns DEF Step

-----------------------------------------------------------------------------
(* After a packet other than a refusal the call reads on, looks, or has    *)
(* its result; it starts with nothing new.                                 *)
LEMMA SkipsTo ==
    ASSUME NEW r \in Seq(TaskType)
    PROVE  LET e == Task("eof")
           IN  /\ At(<<e>> \o r, 1).do = "eof" /\ At(<<e, e>> \o r, 1).do = "eof"
               /\ At(<<Task("nextResult")>>, 1).do = "nextResult"
               /\ At(<<Task("columns")>>, 1).do = "columns"
<1> DEFINE e == Task("eof")
           n == Task("nextResult")
           c == Task("columns")
<1>1. e.do = "eof" /\ e \in TaskType /\ n.do = "nextResult" /\ c.do = "columns"
  BY TaskIs, TaskTyped DEF Tasks, Reading
<1> HIDE DEF e, n, c
<1>2. <<e>> \o r \in Seq(TaskType) /\ At(<<e>> \o r, 1) = e
  BY <1>1, AtCons
<1>3. <<e, e>> \o r = <<e>> \o (<<e>> \o r)
  <2>1. e \in TaskType /\ r \in Seq(TaskType)
    BY <1>1
  <2> QED
    BY <2>1, PairCons, SMTT(30)
<1>4. At(<<e>> \o (<<e>> \o r), 1) = e
  <2> DEFINE x == <<e>> \o r
  <2>1. x \in Seq(TaskType) /\ e \in TaskType
    BY <1>1, <1>2
  <2> HIDE DEF x
  <2>2. At(<<e>> \o x, 1) = e
    BY <2>1, AtCons
  <2> QED
    BY <2>2 DEF x
<1>5. At(<<n>>, 1) = n /\ At(<<c>>, 1) = c
  BY DEF At
<1> QED
  BY <1>1, <1>2, <1>3, <1>4, <1>5 DEF e, n, c

LEMMA GoesCalmly ==
    ASSUME TypeOK, Pooled, call.err = "running", NEW x, Go(x), ~Sends(At(x, 1))
    PROVE  call'.err # "badconn" /\ ~Sends(First') /\ call'.name = call.name /\ call'.n = call.n
<1>1. CASE x = <<>>
  <2>1. Return("nil")
    BY <1>1, GoIs
  <2>2. /\ call'.err = "nil" /\ call'.todo = AtReturn(call.name, "nil")
        /\ call'.name = call.name /\ call'.n = call.n
    BY <2>1, ReturnIs DEF MarkBadConn
  <2>3. At(call'.todo, 1).do \in {"none", "finish"}
    BY <2>2, ReturnFirst DEF Pooled
  <2> QED
    BY <2>2, <2>3 DEF First, Sends
<1>2. CASE x # <<>>
  BY <1>2, GoIs DEF First
<1> QED
  BY <1>1, <1>2

LEMMA ReturnsCalmly ==
    ASSUME TypeOK, Pooled, call.err = "running", NEW err \in {"nil", "end", "mysql", "file"}, Return(err)
    PROVE  call'.err # "badconn" /\ ~Sends(First') /\ call'.name = call.name /\ call'.n = call.n
<1>1. /\ call'.err = err /\ call'.todo = AtReturn(call.name, err)
      /\ call'.name = call.name /\ call'.n = call.n
  BY ReturnIs DEF MarkBadConn
<1>2. At(call'.todo, 1).do \in {"none", "finish"}
  BY <1>1, ReturnFirst DEF Pooled
<1> QED
  BY <1>1, <1>2 DEF First, Sends

LEMMA ReadsCalmly ==
    ASSUME NEW p, Read(p), Head(call.todo).do \in Reading
    PROVE  call'.err # "badconn" /\ ~Sends(First') /\ call'.name = call.name /\ call'.n = call.n
<1> DEFINE t == At(call.todo, 1)
           u == At(call.todo, 2)
           tail == Tail(call.todo)
<1>1. /\ TypeOK /\ Pooled /\ TasksInv /\ call.todo # <<>> /\ CallReads(p) /\ call.err = "running"
      /\ p.kind # "readonly"
  BY ReadBasics
<1>2. /\ t = Head(call.todo) /\ Leads(call.name, t, u, At(call.todo, 3))
      /\ At(tail, 1) = u /\ tail \in Seq(TaskType)
  BY <1>1, TaskFacts
<1>3. t.do \in {"ok", "any", "header", "eof", "drain", "columns", "row", "prepared"}
  BY <1>2 DEF Leads, Reading
<1>4. ErrorOf(p) = "mysql"
  BY <1>1 DEF ErrorOf
<1> DEFINE e == Task("eof")
           n == Task("nextResult")
           c == Task("columns")
<1>5. /\ At(<<e>> \o tail, 1).do = "eof" /\ At(<<e, e>> \o tail, 1).do = "eof"
      /\ At(<<n>>, 1).do = "nextResult" /\ At(<<c>>, 1).do = "columns"
  BY <1>2, SkipsTo
<1> HIDE DEF t, u, tail, e, n, c
<1>6. t.do \in {"ok", "eof", "drain", "columns", "prepared", "header"} => ~Sends(u)
  BY <1>2 DEF Leads, Sends, IsFile
<1>7. \/ \E err \in {"nil", "end", "mysql", "file"} : Return(err)
      \/ \E x \in {tail, call.todo, <<n>>, <<c>>, <<e>> \o tail, <<e, e>> \o tail} :
            Go(x) /\ ~Sends(At(x, 1))
      \/ t.do = "header" /\ p.kind = "file"
  <2>1. CASE t.do \in {"ok", "any", "row"}
    <3>1. \/ t.do = "ok" /\ Go(tail)
          \/ \E err \in {"nil", "end", "mysql", "file"} : Return(err)
      BY <1>1, <1>2, <1>4, <2>1 DEF CallReads, Doing, Row, tail
    <3> QED
      BY <1>2, <1>6, <2>1, <3>1
  <2>2. CASE t.do \in {"eof", "drain", "columns"}
    <3>1. At(call.todo, 1).do = t.do /\ ~Sends(At(call.todo, 1))
      BY <2>2 DEF t, Sends
    <3>2. UntilEOF(p)
      BY <1>1, <1>2, <2>2 DEF CallReads, Doing
    <3>3. Return("mysql") \/ Go(tail) \/ Go(call.todo)
      BY <1>4, <3>2 DEF UntilEOF, tail
    <3> QED
      BY <1>2, <1>6, <2>2, <3>1, <3>3
  <2>3. CASE t.do = "prepared"
    <3>1. Prepared(p)
      BY <1>1, <1>2, <2>3 DEF CallReads, Doing
    <3>2. Return("mysql") \/ Go(tail) \/ Go(<<e>> \o tail) \/ Go(<<e, e>> \o tail)
      BY <1>4, <3>1 DEF Prepared, tail, e
    <3> QED
      BY <1>2, <1>5, <1>6, <2>3, <3>2 DEF Sends
  <2>4. CASE t.do = "header" /\ p.kind # "file"
    <3>1. Header(p)
      BY <1>1, <1>2, <2>4 DEF CallReads, Doing
    <3>2. \/ Return("mysql") \/ Go(<<n>>) \/ Go(tail) \/ Go(<<c>>)
          \/ call.name \notin QueryLike /\ Go(<<e, e>> \o tail)
      BY <1>4, <2>4, <3>1 DEF Header, tail, e, n, c
    <3> QED
      BY <1>2, <1>5, <1>6, <2>4, <3>2 DEF Sends
  <2> QED
    BY <1>3, <2>1, <2>2, <2>3, <2>4
<1>8. CASE \E err \in {"nil", "end", "mysql", "file"} : Return(err)
  BY <1>1, <1>8, ReturnsCalmly
<1>9. CASE \E x \in {tail, call.todo, <<n>>, <<c>>, <<e>> \o tail, <<e, e>> \o tail} :
             Go(x) /\ ~Sends(At(x, 1))
  BY <1>1, <1>9, GoesCalmly
<1>10. CASE t.do = "header" /\ p.kind = "file"
  <2>1. IsFile(First')
    BY <1>10, HeaderOfFile DEF t, First
  <2>2. \E x : Go(x)
    <3>1. Header(p)
      BY <1>1, <1>2, <1>10 DEF CallReads, Doing
    <3> QED
      BY <1>10, <3>1 DEF Header, SendFile
  <2>3. PICK x : Go(x)
    BY <2>2
  <2>4. call'.name = call.name /\ call'.n = call.n /\ call'.err # "badconn"
    <3>1. CASE x = <<>>
      <4>1. Return("nil")
        BY <1>1, <2>3, <3>1, GoIs
      <4> QED
        BY <1>1, <4>1, ReturnsCalmly
    <3>2. CASE x # <<>>
      BY <1>1, <2>3, <3>2, GoIs
    <3> QED
      BY <3>1, <3>2
  <2> QED
    BY <2>1, <2>4 DEF Sends
<1> QED
  BY <1>7, <1>8, <1>9, <1>10

LEMMA ReadTurns ==
    ASSUME Front, TypeOK', TasksInv', ReadPacket
    PROVE  Turns /\ call'.name = call.name /\ call'.n = call.n
<1>1. PICK r \in Arrivals :
          /\ InSequence(r.pkt)
          /\ net' = IF r.pkt.kind = "readonly" THEN Dropped(r.net) ELSE r.net
          /\ mc' = ConnAfter(r.pkt)
          /\ held' = RowsAfter(r.pkt)
          /\ CallReads(r.pkt)
  BY DEF ReadPacket
<1> DEFINE p == r.pkt
<1>2. /\ TypeOK /\ Pooled /\ TasksInv /\ call.todo # <<>> /\ Head(call.todo).do \in Reading
  BY FrontFacts DEF ReadPacket
<1>3. Mine(p)
  BY <1>1, <1>2, ArrivalMine
<1>4. /\ net' = r.net => Stream' = Tail(Stream)
      /\ net'.out = net.out
  BY <1>1, ArrivalLeaves
<1>5. /\ First = Head(call.todo) /\ Leads(call.name, First, At(call.todo, 2), At(call.todo, 3))
  BY <1>2, TaskFacts DEF First
<1> HIDE DEF p
<1>6. /\ Stream \in Seq(PacketType) /\ Stream # <<>> /\ p = Stream[1] /\ p.of = OwnerOf(call, held) /\ p.of # 0
      /\ Silent(net.out) /\ Of(Stream, p.of) /\ Expected(call, Stream) /\ call.err = "running"
      /\ 1 \in 1..Len(Stream) /\ call.name \notin RowCalls => p.of = call.n
  <2>1. /\ Stream \in Seq(PacketType) /\ Stream # <<>> /\ p = Stream[1] /\ p.of = OwnerOf(call, held) /\ p.of # 0
        /\ Silent(net.out) /\ Of(Stream, p.of) /\ Expected(call, Stream) /\ call.err = "running"
    BY <1>3 DEF Mine
  <2>2. 1 \in 1..Len(Stream)
    BY <2>1, SeqBasics
  <2> QED
    BY <2>1, <2>2 DEF OwnerOf
<1>7. CASE p.kind = "readonly"
  <2>1. First.do \in {"ok", "any", "header", "eof", "drain", "columns", "row", "prepared"}
    BY <1>2, <1>5 DEF Leads, Reading
  <2>2. IF First.do = "any" THEN Return("file") ELSE Return("badconn")
    BY <1>1, <1>2, <1>5, <1>7, <2>1 DEF CallReads, Doing, ErrorOf, IsError, Header, UntilEOF, Row, Prepared, p
  <2>3. CASE First.do = "any"
    BY <1>2, <1>4, <1>6, <2>2, <2>3, ReturnTurns DEF MarkBadConn
  <2>4. CASE First.do # "any"
    <3>1. Refused \/ call.name \in RowCalls
      BY <1>2, <1>4, <1>5, <1>6, <1>7 DEF Refused, Running, Runs, Denied
    <3> QED
      BY <1>2, <1>4, <1>6, <2>2, <2>4, <3>1, ReturnTurns
  <2> QED
    BY <2>3, <2>4
<1>8. CASE p.kind # "readonly"
  <2>1. Read(p)
    BY <1>1, <1>2, <1>3, <1>8 DEF Read, Front, p
  <2>2. Fitted(p)
    BY <1>2, <2>1, ReadsFitted
  <2>3. call'.err # "badconn" /\ ~Sends(First') /\ call'.name = call.name /\ call'.n = call.n
    BY <1>2, <2>1, ReadsCalmly
  <2>4. Running /\ Stream' = Tail(Stream)
    BY <1>1, <1>2, <1>4, <1>6, <1>8 DEF Running, Runs, p
  <2>5. IsFile(First') /\ call.name \notin RowCalls => FileSeen
    BY <1>6, <2>2 DEF Fitted, First, FileSeen
  <2>6. ASSUME Denied', call.name \notin RowCalls
        PROVE  Answering /\ Denied
    <3>1. PICK i \in 1..Len(Tail(Stream)) : Tail(Stream)[i].kind = "readonly" /\ Tail(Stream)[i].of = call.n
      BY <2>3, <2>4, <2>6 DEF Denied
    <3>2. i + 1 \in 1..Len(Stream) /\ Tail(Stream)[i] = Stream[i + 1]
      BY <1>6, <3>1, SeqBasics
    <3>3. Answering
      BY <1>2, <1>5 DEF Answering
    <3> QED
      BY <1>6, <2>6, <3>1, <3>2, <3>3 DEF Denied
  <2>8. \A i \in 1..Len(net'.out) : \E j \in 1..Len(net.out) : net'.out[i] = net.out[j]
    BY <1>4
  <2>9. Turns
    <3>1. ~Sends(First)
      <4>1. First.do \in Reading
        BY <1>2, <1>5
      <4> QED
        BY <4>1 DEF Sends, Reading
    <3>2. Running' => Running
      BY <2>4
    <3>3. Running' /\ Sends(First') => Sends(First) \/ call.name = "BeginTx"
      BY <2>3
    <3>4. Running' /\ mc'.reset /\ Sends(First) => Sends(First')
      BY <3>1
    <3>5. call'.err = "badconn" => call.err = "badconn" \/ Refused
      BY <2>3
    <3>6. First'.do \in Reading /\ call.name \notin RowCalls => Silent(net.out) /\ net'.out = net.out
      BY <1>4, <1>6
    <3> QED
      BY <2>5, <2>6, <2>8, <3>2, <3>3, <3>4, <3>5, <3>6, Zenon DEF Turns
  <2> QED
    BY <2>3, <2>9
<1> QED
  BY <1>7, <1>8

LEMMA FailuresTurn ==
    ASSUME Front, TypeOK', TasksInv', OutOfSync \/ ReadFails \/ ReadTimeout
    PROVE  Turns /\ call'.name = call.name /\ call'.n = call.n /\ ~Running'
<1>1. net \in NetType /\ call.todo # <<>> /\ Head(call.todo).do \in Reading
  BY FrontFacts DEF OutOfSync, ReadFails, ReadTimeout
<1>2. call.err = "running" /\ ~Doing("handshake")
  BY <1>1, ReadingRuns
<1>3. CASE OutOfSync
  <2>1. PICK r \in Arrivals : net' = r.net
    BY <1>3 DEF OutOfSync
  <2>2. net'.out = net.out
    BY <2>1, ArrivalLeaves
  <2> QED
    BY <1>1, <1>2, <1>3, <2>2, ReturnTurns DEF OutOfSync, MarkBadConn
<1>4. CASE ReadFails \/ ReadTimeout
  <2>1. Return("ctx") \/ Return("invalid")
    BY <1>2, <1>4 DEF ReadFails, ReadTimeout, ReadError
  <2>2. net'.out = net.out
    BY <1>1, <1>4 DEF ReadFails, ReadTimeout, Dropped, NetType
  <2> QED
    BY <1>1, <1>2, <2>1, <2>2, ReturnTurns DEF MarkBadConn
<1> QED
  BY <1>3, <1>4

-----------------------------------------------------------------------------
(* What cannot be written.                                                 *)
LEMMA LateTurns ==
    ASSUME Front, TypeOK', TasksInv', call.todo # <<>>, call.err # "running",
           NEW err, Return(err), net'.out = net.out
    PROVE  Turns /\ call'.name = call.name /\ call'.n = call.n /\ ~Running'
<1>1. TypeOK /\ Pooled
  BY DEF Front
<1>2. /\ call'.name = call.name /\ call'.n = call.n /\ call'.err = call.err
  BY <1>1, ReturnIs
<1>3. ~Running' /\ Pooled'
  BY <1>1, <1>2 DEF Running, Runs, Pooled
<1>4. (~Running => ~IsFile(First) /\ First.do \notin Reading \cup {"discard", "more", "nextResult"})'
  BY <1>3, ResultIsLast, PTL
<1>5. ~Answering' /\ ~IsFile(First') /\ First'.do \notin Reading
  BY <1>3, <1>4 DEF Answering
<1> QED
  BY <1>2, <1>3, <1>5 DEF Turns

LEMMA UnwrittenTurns ==
    ASSUME Front, TypeOK', TasksInv', Doing("write"), FreshInv, net'.out = net.out,
           NEW err \in {"toolarge", "invalid", "ctx", "nowrite", "badconn"}, Return(err),
           err = "badconn" => mc.reset
    PROVE  Turns /\ call'.name = call.name /\ call'.n = call.n /\ ~Running'
<1>1. /\ call.todo # <<>> /\ First = Head(call.todo) /\ First.do = "write"
      /\ ~IsFile(First) => call.name \notin RowCalls
  BY WriteFacts DEF First
<1>2. CASE call.err # "running"
  BY <1>1, <1>2, LateTurns
<1>3. CASE call.err = "running"
  <2>1. Sends(First) \/ IsFile(First)
    BY <1>1 DEF Sends
  <2>2. Running
    BY <1>1, <1>3 DEF Running, Runs
  <2>3. MarkBadConn(call.name, err) = "badconn" => Refused
    <3>1. CASE err = "badconn"
      BY <1>1, <2>1, <2>2, <3>1 DEF FreshInv, Refused, Sends
    <3>2. CASE err = "nowrite"
      BY <2>1, <2>2, <3>2 DEF MarkBadConn, Marking, RowCalls, Refused
    <3>3. CASE err \in {"toolarge", "invalid", "ctx"}
      BY <3>3 DEF MarkBadConn
    <3> QED
      BY <3>1, <3>2, <3>3
  <2> QED
    BY <1>1, <1>3, <2>3, ReturnTurns
<1> QED
  BY <1>2, <1>3

LEMMA BusyTurns ==
    ASSUME Front, TypeOK', TasksInv', FreshInv, BusyBuffer
    PROVE  Turns /\ call'.name = call.name /\ call'.n = call.n /\ ~Running'
<1>1. Doing("write") /\ Return("nowrite") /\ net'.out = net.out
  BY DEF BusyBuffer
<1> QED
  BY <1>1, UnwrittenTurns

(* The command of a call is its last, or the file it is asked for.         *)
LEMMA SentTurns ==
    ASSUME Front, Doing("write"), Sent(Head(call.todo))
    PROVE  Turns /\ call'.name = call.name /\ call'.n = call.n
<1> DEFINE w == Head(call.todo)
           u == At(call.todo, 2)
           c == [cmd |-> w.cmd, arg |-> w.arg, seq |-> Numbered(w), of |-> Owner]
<1>1. /\ TypeOK /\ Pooled /\ net \in NetType /\ mc \in ConnType /\ net.out \in Seq(CommandType)
      /\ held' = held
  BY FrontFacts DEF NetType, Sent
<1>2. /\ call.todo # <<>> /\ First = w /\ w.do = "write" /\ w \in TaskType
      /\ WriteLeads(call.name, w, u)
      /\ call.err = "running" \/ w.cmd = "stmtClose"
  BY WriteFacts DEF First
<1>3. /\ call'.name = call.name /\ call'.n = call.n
      /\ u.do # "none" => call'.todo # <<>> /\ First' = u /\ call'.err = call.err
      /\ u.do = "none" => Return("nil") /\ First'.do \in {"none", "finish"}
  BY SentNext DEF First
<1>4. mc'.reset = FALSE
  <2> DEFINE n == (Numbered(w) + 1) % 256
  <2>1. mc' = [mc EXCEPT !.sequence = n, !.reset = FALSE]
    BY DEF Sent
  <2> HIDE DEF n
  <2> QED
    BY <1>1, <2>1 DEF ConnType
<1>5. net'.out \in {net.out, Append(net.out, c)} /\ (net'.out # net.out => w.last)
  <2> DEFINE o == IF net.up /\ w.last THEN Append(net.out, c) ELSE net.out
  <2>1. net' = [net EXCEPT !.out = o]
    BY <1>1 DEF Sent, NetType
  <2>2. net'.out = o
    <3> HIDE DEF o
    <3> QED
      BY <1>1, <2>1 DEF NetType
  <2> QED
    BY <2>2
<1>6. c.cmd = w.cmd /\ c.of = Owner /\ c \in CommandType
  <2>1. Numbered(w) \in Nat /\ Owner \in Nat
    BY <1>1, <1>2, OwnerTyped, NumberedTyped, SentFacts
  <2> QED
    BY <1>2, <2>1 DEF CommandType, TaskType
<1> HIDE DEF w, u, c
<1>7. u.do = "none" => call'.err \in {"nil", call.err} /\ (call.err = "running" => call'.err = "nil")
  <2>1. u.do = "none" => call'.err = IF call.err = "running" THEN "nil" ELSE call.err
    BY <1>1, <1>3, ReturnIs DEF MarkBadConn
  <2> QED
    BY <2>1
<1>8. Sends(First) \/ IsFile(First)
  BY <1>2 DEF Sends
<1>9. IsFile(First') => IsFile(First)
  <2>1. SUFFICES ASSUME IsFile(First') PROVE w.cmd = "content"
    BY <1>2 DEF IsFile
  <2>2. u.do = "write" /\ u.cmd \in {"content", "empty"}
    BY <1>3, <2>1 DEF IsFile
  <2> QED
    BY <1>2, <2>2 DEF WriteLeads
<1>10. IsFile(First) => ~Sends(First')
  <2>1. SUFFICES ASSUME IsFile(First) PROVE ~Sends(First')
    OBVIOUS
  <2>2. u.do \in {"ok", "any"} \/ (u.do = "write" /\ u.cmd = "empty")
    BY <1>2, <2>1 DEF IsFile, WriteLeads
  <2> QED
    BY <1>3, <2>2 DEF Sends, IsFile
<1>11. Running' => Running
  BY <1>2, <1>3, <1>7 DEF Running, Runs
<1>12. w.last /\ w.cmd \in Harmful => Running /\ ~Sends(First') /\ (call.name = "BeginTx" => IsFile(First))
  <2>1. SUFFICES ASSUME w.last, w.cmd \in Harmful
                 PROVE  Running /\ ~Sends(First') /\ (call.name = "BeginTx" => IsFile(First))
    OBVIOUS
  <2>2. w.cmd \in {"query", "execute", "commit", "empty"}
    BY <2>1 DEF Harmful
  <2>3. u.do \in {"header", "ok", "any"} /\ (call.name = "BeginTx" => w.cmd = "empty")
    BY <1>2, <2>1, <2>2 DEF WriteLeads
  <2>4. Running
    BY <1>2, <2>2 DEF Running, Runs
  <2> QED
    BY <1>2, <1>3, <2>3, <2>4 DEF Sends, IsFile
<1>13. \A i \in 1..Len(net'.out) :
          \/ \E j \in 1..Len(net.out) : net'.out[i] = net.out[j]
          \/ /\ net'.out[i].of = Owner
             /\ net'.out[i].cmd \in Harmful =>
                   Running /\ ~Sends(First') /\ (call.name = "BeginTx" => IsFile(First))
  <2>1. CASE net'.out = net.out
    BY <2>1
  <2>2. CASE net'.out = Append(net.out, c) /\ w.last
    <3>1. \A i \in 1..Len(Append(net.out, c)) :
             \/ i \in 1..Len(net.out) /\ Append(net.out, c)[i] = net.out[i]
             \/ Append(net.out, c)[i] = c
      BY <1>1, <1>6, Appended
    <3> QED
      BY <1>6, <1>12, <2>2, <3>1
  <2> QED
    BY <1>5, <2>1, <2>2
<1>14. IsFile(First') => FileSeen
  BY <1>9 DEF FileSeen
<1>15. Running' /\ Sends(First') => Sends(First)
  BY <1>8, <1>10
<1>16. call'.err = "badconn" => call.err = "badconn"
  BY <1>3, <1>7
<1>17. Turns
  BY <1>4, <1>8, <1>11, <1>13, <1>14, <1>15, <1>16, Zenon DEF Turns
<1> QED
  BY <1>3, <1>17

LEMMA WriteTurns ==
    ASSUME Front, TypeOK', TasksInv', FreshInv, Write
    PROVE  Turns /\ call'.name = call.name /\ call'.n = call.n /\ (mc'.reset /\ Running => ~Running')
<1>1. Doing("write") /\ net \in NetType /\ mc \in ConnType
  BY FrontFacts DEF Write
<1>2. CASE TooLarge(Head(call.todo))
  <2>1. Return("toolarge") /\ net'.out = net.out
    BY <1>2 DEF TooLarge
  <2> QED
    BY <1>1, <2>1, UnwrittenTurns
<1>3. CASE Stale
  <2>1. Return("badconn") /\ net'.out = net.out /\ mc.reset
    BY <1>1, <1>3 DEF Stale, Dropped, NetType
  <2> QED
    BY <1>1, <2>1, UnwrittenTurns
<1>4. CASE NothingWritten \/ PartWritten
  <2>1. PICK err \in {"nowrite", "invalid", "ctx"} : Return(err)
    BY <1>1, <1>4, FailsIs DEF NothingWritten, PartWritten
  <2>2. net'.out = net.out
    BY <1>1, <1>4 DEF NothingWritten, PartWritten, Dropped, NetType
  <2> QED
    BY <1>1, <2>1, <2>2, UnwrittenTurns
<1>5. CASE Sent(Head(call.todo))
  <2> DEFINE n == (Numbered(Head(call.todo)) + 1) % 256
  <2>1. mc' = [mc EXCEPT !.sequence = n, !.reset = FALSE]
    BY <1>5 DEF Sent
  <2> HIDE DEF n
  <2>2. mc'.reset = FALSE
    BY <1>1, <2>1 DEF ConnType
  <2> QED
    BY <1>1, <1>5, <2>2, SentTurns
<1> QED
  BY <1>2, <1>3, <1>4, <1>5 DEF Write

(* A step of the client.                                                   *)
LEMMA MovesKeepRetry ==
    ASSUME Front, PastInv, FreshInv, TouchInv, Moves, TypeOK', TasksInv'
    PROVE  PastInv' /\ FreshInv' /\ TouchInv'
<1>1. TypeOK /\ Pooled /\ TasksInv /\ call.todo # <<>> /\ net \in NetType
  BY FrontFacts, MovesCalm DEF Front
<1>2. ~Cleanup /\ ~TLSHandshake
  <2>1. \E t, u, v : t = Head(call.todo) /\ Leads(call.name, t, u, v)
    BY <1>1, TaskFacts
  <2> QED
    BY <2>1 DEF Cleanup, TLSHandshake, Doing, Leads
<1>3. \/ Step \/ ReadPacket \/ Write
      \/ OutOfSync \/ ReadFails \/ ReadTimeout \/ BusyBuffer
  BY <1>2 DEF Moves
<1>4. Turns /\ call'.name = call.name /\ call'.n = call.n
  BY <1>3, StepTurns, ReadTurns, FailuresTurn, BusyTurns, WriteTurns
<1>5. server' = server
  BY <1>3 DEF Step, ReadPacket, Write, OutOfSync, ReadFails, ReadTimeout, BusyBuffer
<1>6. Among(Stream', Stream) /\ (mc'.reset => mc.reset)
  <2>1. mc'.reset => mc.reset
    BY <1>1, MovesNet
  <2>2. Among(Stream', Stream)
    <3>1. CASE net'.buf = net.buf /\ net'.wire \in {net.wire, <<>>}
      <4>1. Part(net'.wire, net.wire) /\ net'.wire \in Seq(PacketType)
        BY <1>1, <3>1, NothingIsPart DEF NetType
      <4> QED
        BY <1>1, <3>1, <4>1, DroppedIsAmong
    <3>2. CASE \E r \in Arrivals : net' = r.net \/ net' = Dropped(r.net)
      BY <3>2, ArrivalLeaves
    <3>3. CASE Doing("write") /\ Sent(Head(call.todo))
      <4>1. Stream' = Stream
        BY <3>3, SentFacts
      <4> QED
        BY <4>1 DEF Among
    <3> QED
      BY <1>1, <3>1, <3>2, <3>3, MovesNet
  <2> QED
    BY <2>1, <2>2
<1>7. PastInv' /\ TouchInv'
  BY <1>1, <1>4, <1>5, <1>6, TurnsKeepTouch
<1>8. FreshInv'
  BY <1>1, <1>4, <1>6, TurnsKeepFresh
<1> QED
  BY <1>7, <1>8

LEMMA FinishKeepsRetry ==
    ASSUME Front, PastInv, FreshInv, TouchInv, Finish
    PROVE  PastInv' /\ FreshInv' /\ TouchInv'
<1> DEFINE u == At(call.todo, 2)
           tail == Tail(call.todo)
<1>1. /\ TypeOK /\ Pooled /\ TasksInv /\ mc \in ConnType /\ call \in CallType
      /\ call.todo # <<>> /\ Head(call.todo).do = "finish"
      /\ call' = [call EXCEPT !.todo = tail] /\ net' = net /\ held' = held /\ server' = server
  BY FrontFacts DEF Finish, Doing
<1>2. /\ First = Head(call.todo) /\ Leads(call.name, First, u, At(call.todo, 3)) /\ At(tail, 1) = u
  BY <1>1, TaskFacts DEF First
<1>3. mc'.reset = mc.reset
  BY <1>1 DEF Finish, ConnType
<1>4. call'.todo = tail /\ call'.name = call.name /\ call'.n = call.n /\ call'.err = call.err
  BY <1>1 DEF CallType
<1> HIDE DEF u, tail
<1>5. First.do = "finish" /\ First' = u /\ u.do \in {"closeRows", "none", "ctx"}
  BY <1>1, <1>2, <1>4 DEF First, Leads
<1>6. ~Sends(First) /\ ~Sends(First') /\ ~IsFile(First') /\ First'.do \notin Reading
  BY <1>5 DEF Sends, IsFile, Reading
<1>7. (Running' => Running) /\ HasRows' = HasRows /\ Stream' = Stream /\ Untouched' = Untouched
  BY <1>1, <1>4 DEF Running, Runs, HasRows, Stream, Untouched
<1>8. PastInv'
  BY <1>1, <1>4, <1>7 DEF PastInv
<1>9. FreshInv'
  BY <1>3, <1>6, <1>7 DEF FreshInv
<1>10. (FileSeen' => FileSeen) /\ ~Answering'
  BY <1>4, <1>5, <1>6, <1>7 DEF FileSeen, Answering
<1>11. TouchInv'
  BY <1>1, <1>4, <1>6, <1>7, <1>10 DEF TouchInv
<1> QED
  BY <1>8, <1>9, <1>11

LEMMA InitRetry ==
    ASSUME Init
    PROVE  RetryInv
<1> SUFFICES ASSUME Pooled PROVE PastInv /\ FreshInv /\ TouchInv
  BY DEF RetryInv
<1>1. /\ call.n = 0 /\ call.todo = <<>> /\ call.err = "running" /\ net.out = <<>> /\ net.buf = <<>>
      /\ ~mc.reset /\ server.done = 0
  BY DEF Init
<1>2. Stream = <<>>
  BY <1>1 DEF Init, Pooled, Stream
<1>3. First.do = "none" /\ ~Running
  BY <1>1, TaskIs DEF First, At, None, Running, Runs
<1>4. \A i \in 1..Len(<<>>) : FALSE
  OBVIOUS
<1>5. Untouched /\ ~FileSeen /\ PastInv
  BY <1>1, <1>2, <1>3, <1>4 DEF Untouched, FileSeen, PastInv, IsFile
<1>6. ~Answering
  BY <1>3 DEF Answering, Reading
<1> QED
  BY <1>1, <1>3, <1>5, <1>6 DEF FreshInv, TouchInv, Reading

LEMMA NextRetry ==
    ASSUME TypeOK, PooledInv, RetryInv, [Next]_connVars
    PROVE  RetryInv'
<1> SUFFICES ASSUME Pooled'
             PROVE  (PastInv /\ FreshInv /\ TouchInv)'
  BY DEF RetryInv
<1>1. CASE UNCHANGED connVars
  <2>1. UNCHANGED <<mc, net, call, held, server>>
    BY <1>1 DEF connVars, connectVars, vars
  <2>2. Pooled
    BY <2>1 DEF Pooled
  <2>3. PastInv /\ FreshInv /\ TouchInv
    BY <2>2 DEF RetryInv
  <2> QED
    BY <2>1, <2>3 DEF PastInv, FreshInv, TouchInv, Stream, HasRows, Running, First, Untouched, FileSeen,
         Denied, Answering
<1>2. CASE Next
  <2>1. Pooled
    BY <1>2, PooledStays
  <2>2. Front /\ PastInv /\ FreshInv /\ TouchInv
    BY <2>1 DEF Front, PooledInv, RetryInv
  <2>3. TypeOK' /\ TasksInv'
    BY NextTypes, NextPooled DEF PooledInv
  <2> QED
    BY <1>2, <2>2, <2>3, NextCases, StartKeepsRetry, MovesKeepRetry, FinishKeepsRetry, OtherKeepRetry
       DEF Moves
<1> QED
  BY <1>1, <1>2

LEMMA RetryIsHarmless ==
    ASSUME TypeOK, SoloInv, RetryInv
    PROVE  RetryIsSafeOtherwise
<1> SUFFICES ASSUME call.err = "badconn", call.name \notin RowCalls, ~server.file, ~server.refused
             PROVE  Harmless
  BY DEF RetryIsSafeOtherwise, Repeated
<1>1. net.out \in Seq(CommandType) /\ DOMAIN net.out = 1..Len(net.out)
  BY DEF TypeOK, NetType
<1>2. CASE Pooled
  <2>1. Untouched
    BY <1>2 DEF RetryInv, TouchInv
  <2> QED
    BY <1>1, <2>1 DEF Untouched, Harmless, Harmful
<1>3. CASE ~Pooled
  <2>1. net.out = <<>> /\ server.done = 0
    BY <1>3 DEF SoloInv, NothingYet
  <2>2. DOMAIN net.out = {}
    BY <1>1, <2>1
  <2> QED
    BY <2>1, <2>2 DEF Harmless
<1> QED
  BY <1>2, <1>3

(* A call that database/sql is told to make again on another connection    *)
(* has not been executed by the server and will not be, unless the server  *)
(* has asked it for a file, or has executed one of its statements and      *)
(* refused a later one because it is read-only.  driver.ErrBadConn comes   *)
(* only from before the first write of a call (errors.go:35 and            *)
(* packets.go:105, the look at a connection that has lain in the pool) and *)
(* from a server that refuses a statement (packets.go:576).  That no call  *)
(* takes the answer of another for its own is a part of the argument,      *)
(* hence the bound on the columns.                                         *)
THEOREM RetryIsSafeOtherwiseHolds == ASSUME Columns <= 25 PROVE Spec => []RetryIsSafeOtherwise
<1>1. Init => TypeOK /\ PooledInv /\ SoloInv /\ RetryInv
  BY InitTypes, InitPooled, InitSolo, InitRetry
<1>2. TypeOK /\ PooledInv /\ SoloInv /\ RetryInv /\ [Next]_connVars
      => (TypeOK /\ PooledInv /\ SoloInv /\ RetryInv)'
  BY NextTypes, NextPooled, NextSolo, NextRetry
<1>3. TypeOK /\ SoloInv /\ RetryInv => RetryIsSafeOtherwise
  BY RetryIsHarmless
<1> QED
  BY <1>1, <1>2, <1>3, PTL DEF Spec

-----------------------------------------------------------------------------
(* The contents of a file, and the empty packet after them.                *)

LEMMA EndedIs ==
    ASSUME NEW o \in Seq(CommandType)
    PROVE  /\ Ended(<<>>)
           /\ o # <<>> /\ Ended(o) => Ended(Tail(o))
           /\ (\A i \in 1..Len(o) : o[i].cmd # "content") => Ended(o)
           /\ \A c \in CommandType : c.cmd = "empty" => Ended(Append(o, c))
           /\ \A c \in CommandType : c.cmd # "content" /\ Ended(o) => Ended(Append(o, c))
<1>1. Len(o) \in Nat
  OBVIOUS
<1>2. Ended(<<>>)
  BY DEF Ended
<1>3. ASSUME o # <<>>, Ended(o)
      PROVE  Ended(Tail(o))
  <2> DEFINE t == Tail(o)
  <2>1. Len(t) = Len(o) - 1 /\ \A i \in 1..Len(t) : t[i] = o[i + 1] /\ i + 1 \in 1..Len(o)
    BY <1>3, SeqBasics
  <2> HIDE DEF t
  <2>2. ASSUME NEW i \in 1..Len(t), t[i].cmd = "content"
        PROVE  \E j \in 1..Len(t) : i < j /\ t[j].cmd = "empty"
    <3>1. PICK j \in 1..Len(o) : i + 1 < j /\ o[j].cmd = "empty"
      BY <1>3, <2>1, <2>2 DEF Ended
    <3>2. j - 1 \in 1..Len(t) /\ i < j - 1 /\ (j - 1) + 1 = j
      BY <1>1, <2>1, <3>1
    <3>3. t[j - 1] = o[j]
      BY <2>1, <3>2
    <3> QED
      BY <3>1, <3>2, <3>3
  <2> QED
    BY <2>2 DEF Ended, t
<1>4. (\A i \in 1..Len(o) : o[i].cmd # "content") => Ended(o)
  BY DEF Ended
<1>5. ASSUME NEW c \in CommandType, c.cmd = "empty" \/ (c.cmd # "content" /\ Ended(o))
      PROVE  Ended(Append(o, c))
  <2> DEFINE a == Append(o, c)
  <2>1. /\ Len(a) = Len(o) + 1
        /\ \A i \in 1..Len(a) : \/ i \in 1..Len(o) /\ a[i] = o[i]
                                \/ i = Len(o) + 1 /\ a[i] = c
    BY Appended, Zenon
  <2> HIDE DEF a
  <2>2. ASSUME NEW i \in 1..Len(a), a[i].cmd = "content"
        PROVE  \E j \in 1..Len(a) : i < j /\ a[j].cmd = "empty"
    <3>1. i \in 1..Len(o) /\ a[i] = o[i] /\ i < Len(o) + 1 /\ Len(o) + 1 \in 1..Len(a) /\ i # Len(o) + 1
      BY <1>1, <1>5, <2>1, <2>2
    <3>2. CASE c.cmd = "empty"
      <4>1. a[Len(o) + 1] = c
        BY <1>1, <2>1, <3>1
      <4> QED
        BY <3>1, <3>2, <4>1
    <3>3. CASE Ended(o)
      <4>1. PICK j \in 1..Len(o) : i < j /\ o[j].cmd = "empty"
        BY <2>2, <3>1, <3>3 DEF Ended
      <4>2. j \in 1..Len(a) /\ j # Len(o) + 1
        BY <1>1, <2>1, <4>1
      <4>3. a[j] = o[j]
        BY <2>1, <4>2
      <4> QED
        BY <4>1, <4>2, <4>3
    <3> QED
      BY <1>5, <3>2, <3>3
  <2> QED
    BY <2>2 DEF Ended, a
<1> QED
  BY <1>2, <1>3, <1>4, <1>5

(* What counts of a call.                                                  *)
Counts(c, m) == Reports(c) /\ ~Lost(c, m)

(* A call whose answer counts after a step of it counted before it.        *)
LEMMA MovesCount ==
    ASSUME Front, Moves, Counts(call', mc')
    PROVE  Counts(call, mc)
<1>1. /\ TypeOK /\ Pooled /\ TasksInv /\ call.todo # <<>>
      /\ mc.closed => mc'.closed
      /\ mc'.canceled = mc.canceled
  BY MovesCalm, FrontFacts DEF Calm
<1>2. Returns /\ call'.name = call.name
  BY <1>1, MovesReturn, ClientStays DEF Stays
<1>3. /\ call.err # "running" => call.name = "Prepare"
  BY <1>1, MovesLate DEF Running, Runs
<1>4. ~mc.closed
  BY <1>1 DEF Counts, Lost
<1>5. CASE call.err = "running"
  <2>1. Reports(call)
    BY <1>5 DEF Reports
  <2>2. call.name # "StmtClose" \/ ~mc.canceled
    BY <1>1, <1>2 DEF Counts, Lost
  <2>3. ~(call.name = "RowsClose" /\ At(call.todo, 1).do = "finish")
    <3>1. SUFFICES ASSUME call.name = "RowsClose", At(call.todo, 1).do = "finish"
                   PROVE  FALSE
      OBVIOUS
    <3>2. Head(call.todo).do = "finish"
      BY <1>1, <3>1, AtFirst DEF TypeOK, CallType
    <3> QED
      BY <1>1, <3>1, <3>2, <1>5 DEF Moves, Step, Open, TakeBuffer, Discard, NextRow, NextResult, More, CloseRows,
         LookAtContext, ReadPacket, OutOfSync, ReadFails, ReadTimeout, BusyBuffer, Write, Cleanup, TLSHandshake,
         Doing, Reading
  <2> QED
    BY <1>4, <1>5, <2>1, <2>2, <2>3 DEF Counts, Lost
<1>6. CASE call.err # "running"
  <2>1. call.name = "Prepare"
    BY <1>3, <1>6
  <2>2. /\ Head(call.todo) = At(call.todo, 1) /\ Ready(call, held, At(call.todo, 1))
        /\ At(call.todo, 1).do \in {"finish", "ctx", "write"}
    BY <1>1, <1>6, TaskFacts
  <2>3. CASE At(call.todo, 1).do = "ctx"
    BY <1>4, <2>1, <2>2, <2>3 DEF Ready, Counts, Reports, Lost
  <2>4. CASE At(call.todo, 1).do # "ctx"
    <3>1. Write \/ BusyBuffer
      BY <2>2, <2>4 DEF Moves, Step, Open, TakeBuffer, Discard, NextRow, NextResult, More, CloseRows,
         LookAtContext, ReadPacket, OutOfSync, ReadFails, ReadTimeout, Cleanup, TLSHandshake, Doing, Reading
    <3>2. \/ \E err : Return(err)
          \/ \E todo : Go(todo) /\ todo = Tail(call.todo)
      BY <3>1 DEF Write, BusyBuffer, TooLarge, Stale, Sent, NothingWritten, PartWritten, Fails
    <3>3. ASSUME NEW todo, Go(todo)
          PROVE  call'.err = call.err
      <4>1. todo # <<>> => call'.err = call.err
        BY <1>1, <3>3, GoIs
      <4>2. todo = <<>> => Return("nil")
        BY <1>1, <3>3, GoIs
      <4> QED
        BY <1>1, <1>6, <4>1, <4>2, ReturnIs
    <3>4. call'.err = call.err
      BY <1>1, <1>6, <3>2, <3>3, ReturnIs
    <3> QED
      BY <1>1, <1>2, <1>4, <2>1, <3>4 DEF Counts, Reports, Lost
  <2> QED
    BY <2>3, <2>4
<1> QED
  BY <1>5, <1>6

LEMMA SentOut ==
    ASSUME Front, Doing("write"), Sent(Head(call.todo))
    PROVE  LET w == Head(call.todo)
           IN  \/ net'.out = net.out /\ (w.last => ~net.up)
               \/ \E c \in CommandType : c.cmd = w.cmd /\ net'.out = Append(net.out, c)
<1> DEFINE w == Head(call.todo)
           c == [cmd |-> w.cmd, arg |-> w.arg, seq |-> Numbered(w), of |-> Owner]
<1>1. TypeOK /\ w \in TaskType /\ net \in NetType
  BY FrontFacts, WriteFacts
<1>2. c \in CommandType /\ c.cmd = w.cmd
  BY <1>1, OwnerTyped, NumberedTyped DEF TaskType, CommandType
<1>3. net'.out = IF net.up /\ w.last THEN Append(net.out, c) ELSE net.out
  BY <1>1 DEF Sent, NetType
<1> HIDE DEF w, c
<1>4. \/ net'.out = net.out /\ (w.last => ~net.up)
      \/ \E d \in CommandType : d.cmd = w.cmd /\ net'.out = Append(net.out, d)
  BY <1>2, <1>3
<1> QED
  BY <1>4 DEF w

LEMMA WriteKeepsContent ==
    ASSUME Front, ContentInv, Write, Counts(call', mc'), call'.name = call.name
    PROVE  \/ Ended(net'.out)
           \/ Running' /\ IsFile(First') /\ First'.cmd = "empty"
           \/ Running' /\ First'.do \in {"ok", "any"} /\ ~net'.up /\ Idle(Stream')
<1> DEFINE w == Head(call.todo)
           u == At(call.todo, 2)
<1>1. Doing("write") /\ Moves /\ net.out \in Seq(CommandType) /\ TypeOK /\ net \in NetType
  BY FrontFacts DEF Write, Moves, TypeOK, NetType
<1>2. /\ call.todo # <<>> /\ w = First /\ w.do = "write" /\ w \in TaskType
      /\ WriteLeads(call.name, w, u)
      /\ IsFile(w) => call.err = "running" /\ Silent(net.out) /\ Idle(Stream)
      /\ call.err = "running"
         \/ (call.name = "Prepare" /\ w.cmd = "stmtClose" /\ Silent(net.out) /\ Idle(Stream))
  BY <1>1, WriteFacts DEF First
<1>3. Counts(call, mc)
  BY <1>1, MovesCount
<1> HIDE DEF w, u
<1>4. Ended(net.out) \/ (IsFile(w) /\ w.cmd = "empty")
  BY <1>2, <1>3 DEF ContentInv, Counts, Front
<1>5. CASE Sent(w)
  <2>1. \/ net'.out = net.out /\ (w.last => ~net.up)
        \/ \E c \in CommandType : c.cmd = w.cmd /\ net'.out = Append(net.out, c)
    BY <1>1, <1>5, SentOut DEF w
  <2>2. /\ Stream' = Stream /\ net'.up = net.up
        /\ u.do # "none" => call'.todo # <<>> /\ At(call'.todo, 1) = u /\ call'.err = call.err
    BY <1>1, <1>5, SentFacts, SentNext DEF w, u
  <2>3. CASE w.cmd = "content"
    <3>1. u.do = "write" /\ u.cmd = "empty" /\ IsFile(w)
      BY <1>2, <2>3 DEF WriteLeads, IsFile
    <3>2. Running' /\ IsFile(First') /\ First'.cmd = "empty"
      BY <1>2, <2>2, <3>1 DEF Running, Runs, First, IsFile
    <3> QED
      BY <3>2
  <2>4. CASE w.cmd = "empty"
    <3>1. u.do \in {"ok", "any"} /\ IsFile(w) /\ w.last
      BY <1>2, <2>4 DEF WriteLeads, IsFile
    <3>2. CASE net'.out = net.out /\ ~net.up
      BY <1>2, <2>2, <3>1, <3>2 DEF Running, Runs, First
    <3>3. CASE \E c \in CommandType : c.cmd = w.cmd /\ net'.out = Append(net.out, c)
      BY <1>1, <2>4, <3>3, EndedIs
    <3> QED
      BY <2>1, <3>1, <3>2, <3>3
  <2>5. CASE w.cmd \notin {"content", "empty"}
    BY <1>1, <1>4, <2>1, <2>5, EndedIs
  <2> QED
    BY <2>3, <2>4, <2>5
<1>6. CASE ~Sent(w)
  <2>1. TooLarge(w) \/ Stale \/ NothingWritten \/ PartWritten
    BY <1>6 DEF Write, w
  <2>2. net'.out = net.out
    BY <1>1, <2>1 DEF TooLarge, Stale, NothingWritten, PartWritten, Dropped, NetType
  <2>3. CASE w.cmd = "empty"
    <3>1. call.err = "running"
      BY <1>2, <2>3 DEF IsFile
    <3>2. ~TooLarge(w)
      BY <2>3 DEF TooLarge
    <3>3. \E err \in {"badconn", "ctx", "nowrite", "invalid"} :
             Return(err) /\ (err = "ctx" => mc.canceled)
      <4>1. CASE Stale
        BY <4>1 DEF Stale
      <4>2. CASE NothingWritten \/ PartWritten
        <5>1. \E err \in {"ctx", "nowrite", "invalid"} : Fails(err) /\ (err = "ctx" => mc.canceled)
          BY <4>2 DEF NothingWritten, PartWritten
        <5> QED
          BY <1>1, <5>1, FailsIs
      <4> QED
        BY <2>1, <3>2, <4>1, <4>2
    <3>4. call'.err \in {"badconn", "nowrite", "invalid"} \/ (call'.err = "ctx" /\ mc.canceled)
      BY <1>1, <3>1, <3>3, ReturnIs DEF MarkBadConn
    <3>5. mc'.canceled = mc.canceled
      BY <1>1, MovesCalm DEF Calm
    <3> QED
      BY <3>4, <3>5 DEF Counts, Reports, Lost
  <2> QED
    BY <1>4, <2>2, <2>3
<1> QED
  BY <1>5, <1>6

LEMMA MovesKeepContent ==
    ASSUME Front, ContentInv, Moves, Pooled'
    PROVE  ContentInv'
<1> SUFFICES ASSUME Counts(call', mc')
             PROVE  \/ Ended(net'.out)
                    \/ Running' /\ IsFile(First') /\ First'.cmd = "empty"
                    \/ Running' /\ First'.do \in {"ok", "any"} /\ ~net'.up /\ Idle(Stream')
  BY DEF ContentInv, Counts
<1>1. /\ Counts(call, mc) /\ call.todo # <<>> /\ TypeOK /\ net \in NetType
      /\ mc'.canceled = mc.canceled /\ call'.name = call.name
      /\ First = Head(call.todo)
  BY MovesCount, MovesCalm, FrontFacts, ClientStays, AtFirst DEF Calm, Stays, First, TypeOK, CallType
<1>2. CASE Write
  BY <1>1, <1>2, WriteKeepsContent
<1>3. CASE ~Write
  <2>1. net'.out = net.out
    <3>1. ASSUME Doing("write") PROVE BusyBuffer
      BY <1>3, <3>1 DEF Moves, Step, Open, TakeBuffer, Discard, NextRow, NextResult, More, CloseRows,
         LookAtContext, ReadPacket, OutOfSync, ReadFails, ReadTimeout, Cleanup, TLSHandshake, Doing, Reading
    <3>2. BusyBuffer => net'.out = net.out
      BY DEF BusyBuffer
    <3>3. \A r \in Arrivals : r.net.out = net.out /\ r.net \in NetType
      BY <1>1, ArrivalIs
    <3>4. \A r \in Arrivals : Dropped(r.net).out = net.out
      BY <3>3, DroppedTyped
    <3> QED
      BY <1>1, <3>1, <3>2, <3>3, <3>4, MovesNet
  <2>2. ~(IsFile(First) /\ First.cmd = "empty")
    BY <1>1, <1>3 DEF IsFile, Moves, Step, Open, TakeBuffer, Discard, NextRow, NextResult, More, CloseRows,
       LookAtContext, ReadPacket, OutOfSync, ReadFails, ReadTimeout, BusyBuffer, Buffered, Cleanup, TLSHandshake,
       Doing, Reading
  <2>3. ASSUME First.do \in {"ok", "any"}, Idle(Stream)
        PROVE  FALSE
    <3>1. Head(call.todo).do \in Reading
      BY <1>1, <2>3 DEF Reading
    <3>2. call.err = "running" /\ ~Doing("handshake")
      BY <1>1, <3>1, ReadingRuns
    <3>3. ~ReadPacket
      <4>1. SUFFICES ASSUME NEW r \in Arrivals, InSequence(r.pkt) PROVE FALSE
        BY DEF ReadPacket
      <4>2. Mine(r.pkt)
        BY <1>1, <3>1, <4>1, ArrivalMine
      <4> QED
        BY <2>3, <4>2 DEF Mine, Idle
    <3>4. OutOfSync \/ ReadFails \/ ReadTimeout
      BY <1>1, <1>3, <2>3, <3>3 DEF Moves, Step, Open, TakeBuffer, Discard, NextRow, NextResult, More, CloseRows,
         LookAtContext, BusyBuffer, Cleanup, TLSHandshake, Doing
    <3>5. Return("sync") \/ Return("invalid") \/ (Return("ctx") /\ mc.canceled)
      BY <3>2, <3>4 DEF OutOfSync, ReadFails, ReadTimeout, ReadError
    <3>6. call'.err \in {"sync", "invalid"} \/ (call'.err = "ctx" /\ mc.canceled)
      BY <1>1, <3>2, <3>5, ReturnIs DEF MarkBadConn
    <3> QED
      BY <1>1, <3>6 DEF Counts, Reports, Lost
  <2>4. Ended(net.out)
    BY <1>1, <2>2, <2>3 DEF ContentInv, Counts, Front
  <2> QED
    BY <2>1, <2>4
<1> QED
  BY <1>2, <1>3

LEMMA FinishKeepsContent ==
    ASSUME Front, ContentInv, Finish
    PROVE  ContentInv'
<1> SUFFICES ASSUME Counts(call', mc')
             PROVE  Ended(net'.out)
  BY DEF ContentInv, Counts
<1>1. /\ TypeOK /\ WatchInv /\ mc \in ConnType /\ call \in CallType /\ call.todo # <<>> /\ Head(call.todo).do = "finish"
      /\ call' = [call EXCEPT !.todo = Tail(@)] /\ net' = net
  BY FrontFacts DEF Finish, Doing
<1>2. mc'.closed = mc.closed /\ call'.err = call.err
  BY <1>1 DEF Finish, ConnType, CallType
<1>3. ~mc.closed
  BY <1>2 DEF Counts, Lost
<1>4. ~mc.canceled
  BY <1>1, <1>3 DEF Finish, WatchInv
<1>5. Counts(call, mc)
  BY <1>2, <1>3, <1>4 DEF Counts, Reports, Lost
<1>6. First.do = "finish"
  BY <1>1, AtFirst DEF First, CallType
<1> QED
  BY <1>1, <1>5, <1>6 DEF ContentInv, Counts, IsFile, Front

LEMMA OtherKeepContent ==
    ASSUME Front, ContentInv, OtherSteps, Pooled'
    PROVE  ContentInv'
<1> SUFFICES ASSUME Counts(call', mc')
             PROVE  \/ Ended(net'.out)
                    \/ Running' /\ IsFile(First') /\ First'.cmd = "empty"
                    \/ Running' /\ First'.do \in {"ok", "any"} /\ ~net'.up /\ Idle(Stream')
  BY DEF ContentInv, Counts
<1>1. /\ TypeOK /\ net \in NetType /\ mc \in ConnType /\ net.out \in Seq(CommandType)
      /\ net.wire \in Seq(PacketType) /\ net.buf \in Seq(PacketType) /\ Stream \in Seq(PacketType)
  BY FrontFacts DEF TypeOK, NetType
<1>2. UNCHANGED <<call, held>>
  BY OtherStepsKeep
<1>3. First' = First /\ Running' = Running
  BY <1>2 DEF First, Running
<1>4. (mc.closed => mc'.closed) /\ (mc.canceled => mc'.canceled)
  BY <1>1 DEF OtherSteps, ResetSession, Server, ServerCloses, Watcher, WatcherTakes, WatcherEnds, WatcherSees,
     WatcherCloses, CancelContext, Break, Closed, ConnType
<1>5. \/ Ended(net.out)
      \/ Running /\ IsFile(First) /\ First.cmd = "empty"
      \/ Running /\ First.do \in {"ok", "any"} /\ ~net.up /\ Idle(Stream)
  BY <1>2, <1>4 DEF ContentInv, Counts, Lost, Front
<1>6. ASSUME net'.out \in {net.out, <<>>} \/ (net.out # <<>> /\ net'.out = Tail(net.out)),
             Idle(Stream) /\ ~net.up => Idle(Stream'), net'.up => net.up
      PROVE  \/ Ended(net'.out)
             \/ Running' /\ IsFile(First') /\ First'.cmd = "empty"
             \/ Running' /\ First'.do \in {"ok", "any"} /\ ~net'.up /\ Idle(Stream')
  <2>1. Ended(net.out) => Ended(net'.out)
    <3>1. /\ Ended(<<>>)
          /\ net.out # <<>> /\ Ended(net.out) => Ended(Tail(net.out))
      BY <1>1, EndedIs
    <3> QED
      BY <1>6, <3>1
  <2> QED
    BY <1>3, <1>5, <1>6, <2>1
<1>7. CASE ResetSession
  BY <1>6, <1>7 DEF ResetSession, Stream
<1>8. CASE Server
  <2>1. /\ net.out # <<>> /\ net'.out = Tail(net.out) /\ net'.buf = net.buf /\ net'.up = net.up
        /\ ~net.up => net'.wire = net.wire
    BY <1>8, ServerFacts
  <2> QED
    BY <1>6, <2>1 DEF Stream
<1>9. CASE ServerCloses
  <2>1. net'.out = net.out /\ ~net'.up /\ call.todo = <<>>
    BY <1>1, <1>9 DEF ServerCloses, Over, NetType
  <2> QED
    BY <1>5, <2>1 DEF Running, Runs
<1>10. CASE Watcher \/ CancelContext
  <2>1. net' = net \/ net' = Dropped(net)
    BY <1>10 DEF Watcher, WatcherTakes, WatcherEnds, WatcherSees, WatcherCloses, CancelContext
  <2>2. /\ net'.out = net.out /\ net'.buf = net.buf /\ net'.up = net.up
        /\ net'.wire = net.wire \/ net'.wire = <<>>
    BY <1>1, <2>1, DroppedTyped
  <2>3. Part(net'.wire, net.wire) /\ net'.wire \in Seq(PacketType)
    BY <1>1, <2>2, NothingIsPart
  <2>4. Part(Stream', Stream) /\ Stream' \in Seq(PacketType)
    BY <1>1, <2>2, <2>3, StreamDropped
  <2>5. Idle(Stream) => Idle(Stream')
    BY <1>1, <2>4, OfMore
  <2> QED
    BY <1>6, <2>2, <2>5
<1>11. CASE Break
  <2>1. /\ net'.out \in {net.out, <<>>} /\ net'.buf = net.buf /\ ~net'.up
        /\ Len(net'.wire) <= Len(net.wire) /\ \A i \in 1..Len(net'.wire) : net'.wire[i] = net.wire[i]
        /\ net'.wire \in Seq(PacketType)
    BY <1>1, <1>11, BreakTyped DEF Break, NetType
  <2>2. Part(Stream', Stream) /\ Stream' \in Seq(PacketType)
    BY <1>1, <2>1, StreamShrinks DEF Part
  <2>3. Idle(Stream) => Idle(Stream')
    BY <1>1, <2>2, OfMore
  <2> QED
    BY <1>6, <2>1, <2>3
<1> QED
  BY <1>7, <1>8, <1>9, <1>10, <1>11 DEF OtherSteps

LEMMA StartKeepsContent ==
    ASSUME Front, ContentInv, NEW name \in Names, NEW c \in {"none", "live", "done"}, Start(name, c)
    PROVE  ContentInv'
<1> SUFFICES ASSUME ~Lost(call', mc')
             PROVE  Ended(net'.out)
  BY DEF ContentInv
<1>1. call.todo = <<>> /\ Reports(call) /\ net'.out = net.out
  BY StartHeld, StartConn DEF Reported, Reports
<1>2. ~Lost(call, mc)
  BY StartNotLost
<1> QED
  BY <1>1, <1>2 DEF ContentInv, Front, Running, Runs

LEMMA InitContent ==
    ASSUME Init
    PROVE  ContentInv
<1>1. net.out = <<>>
  BY DEF Init
<1> QED
  BY <1>1 DEF ContentInv, Ended

LEMMA NextContent ==
    ASSUME TypeOK, PooledInv, ContentInv, [Next]_connVars
    PROVE  ContentInv'
<1> SUFFICES ASSUME Pooled'
             PROVE  ContentInv'
  BY DEF ContentInv
<1>1. CASE UNCHANGED connVars
  <2>1. UNCHANGED <<mc, net, call>>
    BY <1>1 DEF connVars, connectVars, vars
  <2> QED
    BY <2>1 DEF ContentInv, Stream, Running, First, Pooled
<1>2. CASE Next
  <2>1. Front
    BY <1>2, PooledStays DEF Front, PooledInv
  <2> QED
    BY <1>2, <2>1, NextCases, StartKeepsContent, MovesKeepContent, FinishKeepsContent, OtherKeepContent
       DEF Moves
<1> QED
  BY <1>1, <1>2

(* When a call on a connection of the pool has returned.                   *)
LEMMA PooledIsInSync ==
    ASSUME TypeOK, Pooled, PooledInv, ContentInv, call.todo = <<>>, ~mc.closed, ~HasRows,
           call.err \in {"nil", "end", "mysql", "ctx", "toolarge"}
    PROVE  /\ net.buf = <<>>
           /\ \A i \in 1..Len(net.wire) : net.wire[i].of = 0
           /\ \A i \in 1..Len(net.out) : net.out[i].cmd \in {"stmtClose", "longdata"}
<1>1. /\ Front /\ Stream \in Seq(PacketType) /\ Marked(Stream, net.up) /\ BufferInv
      /\ Fits(call, held, mc, net.out, Stream)
  BY FrontFacts DEF Front, PooledInv
<1>2. ~Runs(call) /\ Reports(call) /\ ~\E i \in 1..Len(call.todo) : TRUE
  BY DEF Runs, Reports
<1>3. ~mc.canceled
  BY <1>1, <1>2 DEF Front, WatchInv, Running
<1>4. ~Lost(call, mc)
  BY <1>3 DEF Lost
<1>5. Silent(net.out) /\ Idle(Stream)
  <2>1. ~Rows(call, held)
    BY DEF Rows, HasRows
  <2> QED
    BY <1>1, <1>2, <1>4, <2>1 DEF Fits
<1>6. Ended(net.out)
  BY <1>2, <1>4 DEF ContentInv, Running
<1>7. Len(Stream) \in {0, 1} /\ \A i \in 1..Len(Stream) : Stream[i].of = 0
  BY <1>1, <1>5, IdleIsShort
<1>8. /\ net.buf \in Seq(PacketType) /\ net.wire \in Seq(PacketType)
      /\ Len(Stream) = Len(net.buf) + Len(net.wire)
      /\ Part(net.buf, Stream)
      /\ \A i \in 1..Len(net.wire) : Stream[Len(net.buf) + i] = net.wire[i]
  BY StreamTyped
<1>9. net.buf = <<>>
  <2>1. SUFFICES ASSUME net.buf # <<>> PROVE FALSE
    OBVIOUS
  <2>2. 1 \in 1..Len(net.buf) /\ Len(net.buf) \in Nat /\ Len(net.wire) \in Nat
    BY <1>8, <2>1, SeqBasics
  <2>3. 1 \in 1..Len(Stream) /\ net.buf[1] = Stream[1]
    <3>1. Len(Stream) = Len(net.buf) + Len(net.wire)
      BY <1>8
    <3>4. \A a, b \in Nat : 1 \in 1..a => 1 \in 1..(a + b)
      OBVIOUS
    <3>2. 1 \in 1..Len(Stream)
      BY <2>2, <3>1, <3>4, Zenon
    <3>3. net.buf[1] = Stream[1]
      BY <1>8, <2>2, Zenon DEF Part
    <3> QED
      BY <3>2, <3>3
  <2> QED
    BY <1>1, <1>7, <2>2, <2>3 DEF BufferInv
<1>10. ASSUME NEW i \in 1..Len(net.wire)
       PROVE  net.wire[i].of = 0
  <2>1. Len(net.buf) = 0 /\ Len(net.wire) \in Nat
    BY <1>8, <1>9
  <2>2. Stream[i] = net.wire[i] /\ i \in 1..Len(Stream)
    BY <1>8, <2>1
  <2> QED
    BY <1>7, <2>2
<1>11. ASSUME NEW i \in 1..Len(net.out)
       PROVE  net.out[i].cmd \in {"stmtClose", "longdata"}
  <2>1. net.out[i].cmd \in {"stmtClose", "longdata", "content"}
    BY <1>5 DEF Silent, Asks
  <2>2. ASSUME net.out[i].cmd = "content"
        PROVE  FALSE
    <3>1. PICK j \in 1..Len(net.out) : net.out[j].cmd = "empty"
      BY <1>6, <2>2 DEF Ended
    <3> QED
      BY <1>5, <3>1 DEF Silent, Asks
  <2> QED
    BY <2>1, <2>2
<1> QED
  BY <1>9, <1>10, <1>11

-----------------------------------------------------------------------------
(* Connect: the tasks that are left.                                       *)

LEMMA ShapeTail ==
    ASSUME NEW plugin, NEW S, NEW todo \in Seq(S), todo # <<>>, LoginShape(plugin, todo)
    PROVE  /\ LoginShape(plugin, Tail(todo)) /\ Tail(todo) \in Seq(S)
           /\ LoginLeads(plugin, At(todo, 1), At(todo, 2), At(todo, 3))
           /\ At(todo, 1) = Head(todo)
           /\ At(Tail(todo), 1) = At(todo, 2) /\ At(Tail(todo), 2) = At(todo, 3)
<1> DEFINE r == Tail(todo)
<1>1. r \in Seq(S) /\ Len(r) = Len(todo) - 1 /\ Len(todo) \in Nat /\ Len(r) \in Nat
  BY HeadTailProperties
<1>2. \A i \in 1..Len(r) : r[i] = todo[i + 1] /\ i + 1 \in 1..Len(todo)
  BY <1>1, HeadTailProperties
<1>3. \A i \in 1..Len(r) : /\ At(r, i + 1) = At(todo, i + 1 + 1)
                           /\ At(r, i + 2) = At(todo, i + 1 + 2)
  <2> TAKE i \in 1..Len(r)
  <2>1. i + 1 \in Nat /\ i + 1 >= 1 /\ i + 2 \in Nat /\ i + 2 >= 1 /\ i + 2 + 1 = i + 1 + 2
    BY <1>1
  <2> QED
    BY <2>1, AtTail
<1>4. /\ At(todo, 1) = todo[1] /\ 1 \in 1..Len(todo) /\ At(todo, 1) = Head(todo)
      /\ At(r, 1) = At(todo, 2) /\ At(r, 2) = At(todo, 3)
  BY AtFirst
<1> HIDE DEF r
<1>5. LoginShape(plugin, r)
  BY <1>1, <1>2, <1>3 DEF LoginShape
<1>6. LoginLeads(plugin, todo[1], At(todo, 1 + 1), At(todo, 1 + 2))
  BY <1>4 DEF LoginShape
<1>7. 1 + 1 = 2 /\ 1 + 2 = 3
  OBVIOUS
<1> QED
  BY <1>1, <1>4, <1>5, <1>6, <1>7 DEF r

LEMMA ShapeCons ==
    ASSUME NEW plugin, NEW S, NEW t \in S, NEW r \in Seq(S), LoginShape(plugin, r),
           LoginLeads(plugin, t, At(r, 1), At(r, 2))
    PROVE  /\ LoginShape(plugin, <<t>> \o r) /\ <<t>> \o r \in Seq(S) /\ <<t>> \o r # <<>>
           /\ At(<<t>> \o r, 1) = t /\ At(<<t>> \o r, 2) = At(r, 1)
<1> DEFINE u == <<t>> \o r
<1>1. /\ u \in Seq(S) /\ Len(u) = Len(r) + 1 /\ u[1] = t /\ Len(r) \in Nat /\ At(u, 1) = t /\ u # <<>>
      /\ \A i \in 1..Len(r) : u[i + 1] = r[i]
      /\ \A i \in Nat : i >= 1 => At(u, i + 1) = At(r, i)
  BY AtCons
<1> HIDE DEF u
<1>2. At(u, 2) = At(r, 1) /\ At(u, 1 + 1) = At(r, 1) /\ At(u, 1 + 2) = At(r, 2)
  <2>1. 1 + 2 = 2 + 1 /\ 1 \in Nat /\ 2 \in Nat /\ 1 + 1 = 2
    OBVIOUS
  <2> QED
    BY <1>1, <2>1
<1>3. ASSUME NEW i \in 1..Len(u)
      PROVE  LoginLeads(plugin, u[i], At(u, i + 1), At(u, i + 2))
  <2>1. CASE i = 1
    BY <1>1, <1>2, <2>1
  <2>2. CASE i # 1
    <3>1. i - 1 \in 1..Len(r) /\ (i - 1) + 1 = i
      BY <1>1, <2>2
    <3>2. u[i] = r[i - 1]
      BY <1>1, <3>1
    <3>3. At(u, i + 1) = At(r, (i - 1) + 1) /\ At(u, i + 2) = At(r, (i - 1) + 2)
      <4>1. i \in Nat /\ i + 1 \in Nat /\ i >= 1 /\ i + 1 >= 1 /\ (i + 1) + 1 = i + 2
            /\ (i - 1) + 1 = i /\ (i - 1) + 2 = i + 1
        BY <1>1
      <4> QED
        BY <1>1, <4>1
    <3> QED
      BY <3>1, <3>2, <3>3 DEF LoginShape
  <2> QED
    BY <2>1, <2>2
<1>4. LoginShape(plugin, u)
  BY <1>3 DEF LoginShape
<1> QED
  BY <1>1, <1>2, <1>4 DEF u

LEMMA ShapePair ==
    ASSUME NEW plugin, NEW t \in TaskType, NEW u \in TaskType, NEW r \in Seq(TaskType), LoginShape(plugin, r),
           LoginLeads(plugin, u, At(r, 1), At(r, 2)), LoginLeads(plugin, t, u, At(r, 1))
    PROVE  /\ LoginShape(plugin, <<t, u>> \o r) /\ <<t, u>> \o r \in Seq(TaskType) /\ <<t, u>> \o r # <<>>
           /\ At(<<t, u>> \o r, 1) = t /\ At(<<t, u>> \o r, 2) = u
<1>1. <<t, u>> \o r = <<t>> \o (<<u>> \o r)
  BY PairCons
<1>2. /\ LoginShape(plugin, <<u>> \o r) /\ <<u>> \o r \in Seq(TaskType)
      /\ At(<<u>> \o r, 1) = u /\ At(<<u>> \o r, 2) = At(r, 1)
  BY ShapeCons
<1> DEFINE x == <<u>> \o r
<1> HIDE DEF x
<1>3. /\ LoginShape(plugin, <<t>> \o x) /\ <<t>> \o x \in Seq(TaskType) /\ <<t>> \o x # <<>>
      /\ At(<<t>> \o x, 1) = t /\ At(<<t>> \o x, 2) = u
  <2>1. x \in Seq(TaskType) /\ LoginShape(plugin, x) /\ At(x, 1) = u /\ At(x, 2) = At(r, 1)
    BY <1>2, Zenon DEF x
  <2>2. LoginLeads(plugin, t, At(x, 1), At(x, 2))
    BY <2>1, Zenon
  <2> QED
    BY <2>1, <2>2, ShapeCons
<1> QED
  BY <1>1, <1>3, Zenon DEF x

LEMMA NothingLeft ==
    ASSUME NEW plugin
    PROVE  LoginShape(plugin, <<>>) /\ At(<<>>, 1) = None /\ At(<<>>, 2) = None /\ None.do = "none"
<1> DEFINE e == <<>>
<1>1. Len(e) = 0
  OBVIOUS
<1> HIDE DEF e
<1>2. \A i \in Nat : i >= 1 => i \notin 1..Len(e)
  BY <1>1
<1>3. 1 \notin 1..Len(e) /\ 2 \notin 1..Len(e)
  BY <1>1
<1>4. At(e, 1) = None /\ At(e, 2) = None
  BY <1>3 DEF At
<1>5. \A i \in 1..Len(e) : FALSE
  BY <1>1
<1>6. LoginShape(plugin, e)
  BY <1>5, Zenon DEF LoginShape
<1>7. None.do = "none"
  BY TaskIs, Zenon DEF None
<1> QED
  BY <1>4, <1>6, <1>7, Zenon DEF e

LEMMA ShapeTwo ==
    ASSUME NEW plugin, NEW t \in TaskType, NEW u \in TaskType,
           LoginLeads(plugin, u, None, None), LoginLeads(plugin, t, u, None)
    PROVE  /\ LoginShape(plugin, <<t, u>>) /\ <<t, u>> \in Seq(TaskType) /\ <<t, u>> # <<>>
           /\ At(<<t, u>>, 1) = t /\ At(<<t, u>>, 2) = u
<1> DEFINE e == <<>>
<1>1. e \in Seq(TaskType) /\ <<t, u>> \in Seq(TaskType)
  OBVIOUS
<1>2. <<t, u>> \o e = <<t, u>>
  BY <1>1, ConcatEmptySeq
<1>3. LoginShape(plugin, e) /\ At(e, 1) = None /\ At(e, 2) = None
  BY NothingLeft
<1> HIDE DEF e
<1>4. /\ LoginLeads(plugin, u, At(e, 1), At(e, 2)) /\ LoginLeads(plugin, t, u, At(e, 1))
  BY <1>3, Zenon
<1>5. /\ LoginShape(plugin, <<t, u>> \o e) /\ <<t, u>> \o e \in Seq(TaskType) /\ <<t, u>> \o e # <<>>
      /\ At(<<t, u>> \o e, 1) = t /\ At(<<t, u>> \o e, 2) = u
  BY <1>1, <1>3, <1>4, ShapePair
<1> QED
  BY <1>2, <1>5, Zenon

LEMMA TwoTwo ==
    ASSUME NEW S, NEW a \in S, NEW b \in S, NEW c \in S, NEW d \in S
    PROVE  <<a, b>> \o <<c, d>> = <<a, b, c, d>>
<1> DEFINE l == <<a, b>> \o <<c, d>>
           m == <<a, b, c, d>>
<1>1. <<a, b>> \in Seq(S) /\ <<c, d>> \in Seq(S) /\ m \in Seq(S)
  OBVIOUS
<1>2. l \in Seq(S) /\ Len(l) = 4 /\ l[1] = a /\ l[2] = b /\ l[3] = c /\ l[4] = d
  BY <1>1, ConcatProperties
<1>3. Len(m) = 4 /\ m[1] = a /\ m[2] = b /\ m[3] = c /\ m[4] = d
  OBVIOUS
<1> HIDE DEF l, m
<1>4. \A i \in 1..Len(l) : l[i] = m[i]
  BY <1>2, <1>3
<1>5. l = m
  BY <1>1, <1>2, <1>3, <1>4, SeqEqual
<1> QED
  BY <1>5 DEF l, m

LEMMA OneTwo ==
    ASSUME NEW S, NEW a \in S, NEW b \in S, NEW c \in S
    PROVE  <<a>> \o <<b, c>> = <<a, b, c>>
<1> DEFINE l == <<a>> \o <<b, c>>
           m == <<a, b, c>>
<1>1. <<a>> \in Seq(S) /\ <<b, c>> \in Seq(S) /\ m \in Seq(S)
  OBVIOUS
<1>2. l \in Seq(S) /\ Len(l) = 3 /\ l[1] = a /\ l[2] = b /\ l[3] = c
  BY <1>1, ConcatProperties
<1>3. Len(m) = 3 /\ m[1] = a /\ m[2] = b /\ m[3] = c
  OBVIOUS
<1> HIDE DEF l, m
<1>4. \A i \in 1..Len(l) : l[i] = m[i]
  BY <1>2, <1>3
<1>5. l = m
  BY <1>1, <1>2, <1>3, <1>4, SeqEqual
<1> QED
  BY <1>5 DEF l, m

LEMMA ThreeCons ==
    ASSUME NEW a \in TaskType, NEW b \in TaskType, NEW c \in TaskType, NEW r \in Seq(TaskType)
    PROVE  <<a, b, c>> \o r = <<a>> \o (<<b, c>> \o r)
<1>1. <<b, c>> \in Seq(TaskType) /\ <<a>> \in Seq(TaskType)
  OBVIOUS
<1>2. (<<a>> \o <<b, c>>) \o r = <<a>> \o (<<b, c>> \o r)
  BY <1>1, ThreeParts
<1>3. <<a>> \o <<b, c>> = <<a, b, c>>
  BY OneTwo
<1> QED
  BY <1>2, <1>3, Zenon

-----------------------------------------------------------------------------
(* Connect: what a step may leave of it.                                   *)
HasCleanup(todo) == \E i \in 1..Len(todo) : todo[i].do = "cleanup"

Concluded ==
    \/ call'.err = "running" /\ Succeeding'
    \/ call'.err = "nil" /\ net'.out = <<>> /\ Stream' = <<>>
    \/ /\ call'.err \notin {"running", "nil"}
       /\ call'.err # "early" => mc'.closed \/ HasCleanup(call'.todo)

LEMMA ConcludedIs ==
    ASSUME call'.name = "Connect", ~mc'.more, Flagless(Stream'), Concluded
    PROVE  SetupInv'
BY DEF SetupInv, Concluded, HasCleanup

LEMMA FlaglessAmong ==
    ASSUME NEW s, NEW t, Flagless(s), Among(t, s)
    PROVE  Flagless(t)
BY DEF Flagless, Among

LEMMA SetupConn ==
    ASSUME TypeOK, call.name = "Connect", SoloInv, SetupInv, Moves \/ Finish
    PROVE  ~mc'.more
<1>1. mc \in ConnType /\ Closed(mc) \in ConnType /\ ~mc.more /\ Flagless(Stream)
  BY ClosedTyped DEF TypeOK, SetupInv, Pooled
<1>2. Closed(mc).more = mc.more
  BY <1>1 DEF Closed, ConnType
<1>3. CASE Step \/ TLSHandshake \/ Finish
  <2>1. mc' = mc \/ mc' = [mc EXCEPT !.watching = FALSE]
    BY <1>3 DEF Step, TLSHandshake, Finish
  <2> QED
    BY <1>1, <2>1 DEF ConnType
<1>4. CASE ReadPacket
  <2>1. PICK r \in Arrivals : mc' = ConnAfter(r.pkt)
    BY <1>4 DEF ReadPacket
  <2> DEFINE p == r.pkt
             s == (mc.sequence + Span(p)) % 256
             more == IF p.kind = "ok" \/ (p.kind = "eof" /\ ~Doing("columns")) THEN p.flag ELSE mc.more
             tls == IF Doing("handshake") THEN Encrypted(p) ELSE mc.tls
             b == mc.closed \/ p.kind = "readonly"
  <2>2. mc' = [mc EXCEPT !.sequence = s, !.more = more, !.tls = tls, !.closed = b]
    BY <2>1 DEF ConnAfter
  <2>3. Stream # <<>> /\ p = Stream[1] /\ Stream \in Seq(PacketType)
    BY ArrivalIs, StreamTyped
  <2>4. p.kind \in {"ok", "eof"} => ~p.flag
    BY <1>1, <2>3, SeqBasics DEF Flagless
  <2>5. ~more
    BY <1>1, <2>4
  <2> HIDE DEF s, more, tls, b
  <2>6. mc'.more = more
    BY <1>1, <2>2 DEF ConnType
  <2> QED
    BY <2>5, <2>6
<1>5. CASE OutOfSync \/ ReadFails \/ ReadTimeout \/ Cleanup
  BY <1>1, <1>2, <1>5 DEF OutOfSync, ReadFails, ReadTimeout, Cleanup
<1>6. CASE BusyBuffer
  <2>1. mc' = [mc EXCEPT !.sequence = Numbered(Head(call.todo))]
    BY <1>6 DEF BusyBuffer
  <2> QED
    BY <1>1, <2>1 DEF ConnType
<1>7. CASE Write
  <2> DEFINE w == Head(call.todo)
  <2>1. TooLarge(w) \/ Stale \/ Sent(w) \/ NothingWritten \/ PartWritten
    BY <1>7 DEF Write
  <2>2. \/ mc' = mc \/ mc' = [mc EXCEPT !.reset = FALSE]
        \/ mc' = [Closed(mc) EXCEPT !.reset = FALSE]
        \/ mc' = [mc EXCEPT !.sequence = (Numbered(w) + 1) % 256, !.reset = FALSE]
    BY <2>1 DEF TooLarge, Stale, NothingWritten, PartWritten, Sent
  <2> QED
    BY <1>1, <1>2, <2>2 DEF ConnType
<1> QED
  BY <1>3, <1>4, <1>5, <1>6, <1>7 DEF Moves

LEMMA SetupStream ==
    ASSUME TypeOK, call.name = "Connect", SoloInv, SetupInv, Moves \/ Finish
    PROVE  /\ Flagless(Stream')
           /\ Stream = <<>> => Stream' = <<>>
<1>1. /\ net \in NetType /\ Flagless(Stream) /\ Stream \in Seq(PacketType) /\ Stream = net.buf \o net.wire
      /\ net.buf \in Seq(PacketType) /\ net.wire \in Seq(PacketType) /\ Stream' = net'.buf \o net'.wire
  BY StreamTyped DEF TypeOK, SetupInv, Pooled, Stream
<1>2. CASE net'.buf = net.buf /\ net'.wire \in {net.wire, <<>>}
  <2>1. net'.wire \in Seq(PacketType) /\ Part(net'.wire, net.wire)
    BY <1>1, <1>2, NothingIsPart
  <2>2. Part(Stream', Stream) /\ Among(Stream', Stream)
    BY <1>2, <2>1, DroppedIsAmong
  <2>3. Stream' \in Seq(PacketType)
    <3>1. Stream' = net.buf \o net'.wire
      BY <1>1, <1>2
    <3> DEFINE b == net.buf
               w == net'.wire
    <3>2. b \in Seq(PacketType) /\ w \in Seq(PacketType)
      BY <1>1, <2>1
    <3> HIDE DEF b, w
    <3>3. b \o w \in Seq(PacketType)
      BY <3>2, ConcatIs
    <3> QED
      BY <3>1, <3>3 DEF b, w
  <2>4. Flagless(Stream')
    BY <1>1, <2>2, FlaglessAmong, Zenon
  <2>5. (Stream = <<>> <=> Len(Stream) = 0) /\ (Stream' = <<>> <=> Len(Stream') = 0) /\ Len(Stream') \in Nat
    BY <1>1, <2>3, SeqBasics, Zenon
  <2>6. Len(Stream') <= Len(Stream)
    BY <2>2, Zenon DEF Part
  <2> QED
    BY <2>4, <2>5, <2>6
<1>3. CASE \E r \in Arrivals : net' = r.net \/ net' = Dropped(r.net)
  <2>1. PICK r \in Arrivals : net' = r.net \/ net' = Dropped(r.net)
    BY <1>3
  <2>2. /\ Stream # <<>> /\ r.net \in NetType
        /\ r.net.buf \in Seq(PacketType) /\ r.net.wire \in Seq(PacketType)
        /\ r.net.buf \o r.net.wire = Tail(Stream)
    BY ArrivalIs
  <2>3. net'.buf = r.net.buf /\ net'.wire \in {r.net.wire, <<>>}
    BY <2>1, <2>2, DroppedTyped
  <2>4. Among(Tail(Stream), Stream)
    BY <1>1, <2>2, SeqBasics DEF Among
  <2>5. Among(Stream', Tail(Stream))
    <3>1. CASE net'.wire = r.net.wire
      BY <1>1, <2>2, <2>3, <3>1 DEF Among
    <3>2. CASE net'.wire = <<>>
      <4> DEFINE b == r.net.buf
                 w == r.net.wire
      <4>1. Stream' = b \o <<>> /\ b \in Seq(PacketType) /\ w \in Seq(PacketType) /\ b \o w = Tail(Stream)
        BY <1>1, <2>2, <2>3, <3>2
      <4> HIDE DEF b, w
      <4>2. Stream' = b
        BY <4>1, ConcatEmptySeq
      <4> DEFINE c == b \o w
      <4>3. Len(b) <= Len(c) /\ Len(b) \in Nat /\ Len(c) \in Nat /\ \A i \in 1..Len(b) : c[i] = b[i]
        <5>1. Len(c) = Len(b) + Len(w) /\ Len(w) \in Nat /\ Len(b) \in Nat /\ \A i \in 1..Len(b) : c[i] = b[i]
          BY <4>1, ConcatIs
        <5> QED
          BY <5>1
      <4> HIDE DEF c
      <4>4. Among(b, c)
        BY <4>3 DEF Among
      <4> QED
        BY <4>1, <4>2, <4>4, Zenon DEF c
    <3> QED
      BY <2>3, <3>1, <3>2
  <2>6. Flagless(Tail(Stream))
    BY <1>1, <2>4, FlaglessAmong
  <2> QED
    BY <2>2, <2>5, <2>6, FlaglessAmong
<1>4. CASE Doing("write") /\ Sent(Head(call.todo))
  <2>1. net'.buf = net.buf /\ net'.wire = net.wire
    BY <1>1, <1>4 DEF Sent, NetType
  <2> QED
    BY <1>1, <2>1
<1> QED
  BY <1>2, <1>3, <1>4, MovesNet

Joining ==
    /\ TypeOK /\ call.name = "Connect" /\ SoloInv /\ LoginInv /\ SetupInv
    /\ call.todo # <<>> /\ call.err = "running"

LEMMA JoiningIs ==
    ASSUME Joining
    PROVE  LET t == First
               u == At(call.todo, 2)
               v == At(call.todo, 3)
               r == Tail(call.todo)
           IN  /\ t = Head(call.todo) /\ t \in TaskType /\ call.todo \in Seq(TaskType)
               /\ LoginLeads(call.plugin, t, u, v)
               /\ LoginShape(call.plugin, r) /\ r \in Seq(TaskType) /\ At(r, 1) = u /\ At(r, 2) = v
               /\ u.do = "none" <=> r = <<>>
               /\ LoginShape(call.plugin, call.todo)
               /\ ~mc.more /\ ~mc.reset
               /\ ~server.accepted => Attempt /\ (t.do = "key" => AsksKey(net.out))
               /\ server.accepted => Reached(call.plugin, t, u, mc.sequence, net.out, Stream)
<1>1. call.todo \in Seq(TaskType) /\ call.todo # <<>> /\ ~Pooled /\ call.err = "running"
  BY DEF Joining, TypeOK, CallType, Pooled
<1>2. Succeeding /\ ~mc.more /\ ~mc.reset
  BY <1>1 DEF SetupInv, SoloInv, Joining
<1>3. LoginShape(call.plugin, call.todo)
  BY <1>2 DEF Succeeding
<1>4. /\ LoginShape(call.plugin, Tail(call.todo)) /\ Tail(call.todo) \in Seq(TaskType)
      /\ LoginLeads(call.plugin, At(call.todo, 1), At(call.todo, 2), At(call.todo, 3))
      /\ At(call.todo, 1) = Head(call.todo)
      /\ At(Tail(call.todo), 1) = At(call.todo, 2) /\ At(Tail(call.todo), 2) = At(call.todo, 3)
  BY <1>1, <1>3, ShapeTail
<1>5. Head(call.todo) \in TaskType /\ (Tail(call.todo) = <<>> => At(call.todo, 2) = None)
  BY <1>1, AtFirst
<1>6. Tail(call.todo) # <<>> => At(Tail(call.todo), 1) \in TaskType
  BY <1>4, AtFirst
<1>7. \A t \in TaskType : t.do # "none"
  BY DEF TaskType, Tasks, Reading
<1>8. At(call.todo, 2).do = "none" <=> Tail(call.todo) = <<>>
  BY <1>4, <1>5, <1>6, <1>7, NothingLeft
<1>9. ~server.accepted => Attempt
  BY <1>1, LoginCases DEF Joining, Failed
<1>10. /\ ~server.accepted /\ First.do = "key" => AsksKey(net.out)
       /\ server.accepted => Reached(call.plugin, First, At(call.todo, 2), mc.sequence, net.out, Stream)
  BY <1>2 DEF Succeeding
<1> QED
  BY <1>2, <1>3, <1>4, <1>5, <1>8, <1>9, <1>10, <1>1 DEF First

LEMMA SetupFails ==
    ASSUME Joining, NEW err \in Errors \ {"running", "nil"}, Return(err)
    PROVE  Concluded
<1>1. /\ call'.err = IF call.err = "running" THEN MarkBadConn(call.name, err) ELSE call.err
      /\ call'.todo = AtReturn(call.name, call'.err)
  BY ReturnIs DEF Joining
<1>2. call'.err = err /\ err \notin {"running", "nil"}
  BY <1>1 DEF Joining, MarkBadConn, Marking
<1>3. AtReturn("Connect", err) = <<Task("cleanup"), Task("finish")>>
  BY <1>2 DEF AtReturn
<1>4. HasCleanup(<<Task("cleanup"), Task("finish")>>)
  <2> DEFINE l == <<Task("cleanup"), Task("finish")>>
  <2>1. Len(l) = 2 /\ l[1] = Task("cleanup")
    OBVIOUS
  <2>2. l[1].do = "cleanup"
    BY <2>1, TaskIs
  <2> HIDE DEF l
  <2>3. 1 \in 1..Len(l)
    BY <2>1
  <2>4. HasCleanup(l)
    BY <2>2, <2>3 DEF HasCleanup
  <2> QED
    BY <2>4 DEF l
<1>5. call'.todo = <<Task("cleanup"), Task("finish")>>
  BY <1>1, <1>2, <1>3 DEF Joining
<1> QED
  BY <1>2, <1>4, <1>5, Zenon DEF Concluded

LEMMA SetupContinues ==
    ASSUME NEW plugin, NEW todo, todo # <<>>, server' = server,
           call'.todo = todo, call'.err = "running", call'.plugin = plugin,
           LoginShape(plugin, todo),
           ~server.accepted /\ At(todo, 1).do = "key" => AsksKey(net'.out),
           server.accepted => Reached(plugin, At(todo, 1), At(todo, 2), mc'.sequence, net'.out, Stream')
    PROVE  Concluded
BY Zenon DEF Concluded, Succeeding, First

LEMMA SetupGoes ==
    ASSUME Joining, NEW todo, Go(todo), server' = server, LoginShape(call.plugin, todo),
           todo # <<>> =>
              /\ ~server.accepted /\ At(todo, 1).do = "key" => AsksKey(net'.out)
              /\ server.accepted =>
                    Reached(call.plugin, At(todo, 1), At(todo, 2), mc'.sequence, net'.out, Stream'),
           todo = <<>> => net'.out = <<>> /\ Stream' = <<>>
    PROVE  Concluded
<1>1. call \in CallType /\ TypeOK /\ call.err = "running" /\ call.name = "Connect"
  BY DEF Joining, TypeOK
<1>2. CASE todo # <<>>
  <2>1. call' = [call EXCEPT !.todo = todo]
    BY <1>2 DEF Go
  <2>2. call'.todo = todo /\ call'.err = "running" /\ call'.plugin = call.plugin
    BY <1>1, <2>1 DEF CallType
  <2> QED
    BY <1>2, <2>2, SetupContinues
<1>3. CASE todo = <<>>
  <2>1. Return("nil")
    BY <1>3 DEF Go
  <2>2. call'.err = "nil"
    BY <1>1, <2>1, ReturnIs DEF MarkBadConn
  <2> QED
    BY <1>3, <2>2, Zenon DEF Concluded
<1> QED
  BY <1>2, <1>3

-----------------------------------------------------------------------------
LEMMA FailuresJoin ==
    ASSUME Joining, OutOfSync \/ ReadFails \/ ReadTimeout \/ BusyBuffer
    PROVE  Concluded
<1>1. {"sync", "nowrite", "ctx", "badconn", "invalid"} \subseteq Errors \ {"running", "nil"}
  BY DEF Errors
<1>2. ReadError \in {"ctx", "badconn", "invalid"}
  BY DEF ReadError
<1>3. Return("sync") \/ Return(ReadError) \/ Return("nowrite")
  BY DEF OutOfSync, ReadFails, ReadTimeout, BusyBuffer
<1> QED
  BY <1>1, <1>2, <1>3, SetupFails

LEMMA TLSJoins ==
    ASSUME Joining, TLSHandshake
    PROVE  Concluded
<1> DEFINE u == At(call.todo, 2)
           r == Tail(call.todo)
<1>1. First.do = "tls" /\ server' = server /\ (Return("tls") \/ Go(r))
  BY JoiningIs DEF TLSHandshake, Doing
<1>2. u.do = "write" /\ r # <<>> /\ At(r, 1) = u /\ LoginShape(call.plugin, r)
  <2>1. u.do = "write"
    BY <1>1, JoiningIs DEF LoginLeads
  <2> QED
    BY <2>1, JoiningIs
<1>3. ~server.accepted
  BY <1>1, JoiningIs DEF Reached, IsQuery
<1>4. CASE Return("tls")
  BY <1>4, SetupFails DEF Errors
<1>5. CASE Go(r)
  <2> HIDE DEF r, u
  <2> QED
    BY <1>1, <1>2, <1>3, <1>5, SetupGoes
<1> QED
  BY <1>1, <1>4, <1>5

LEMMA StepJoins ==
    ASSUME Joining, Step
    PROVE  Concluded
<1> DEFINE r == Tail(call.todo)
<1>1. TypeOK /\ call.name = "Connect" /\ SoloInv /\ SetupInv /\ call.todo # <<>>
  BY DEF Joining
<1>2. Doing("handshake") \/ OfLogin(Head(call.todo))
  BY <1>1, ConnectMoves
<1>3. Discard /\ server' = server /\ net' = net
  BY <1>2 DEF Step, Open, TakeBuffer, NextRow, NextResult, More, CloseRows, LookAtContext, Doing, OfLogin, LoginTasks
<1>4. First.do = "discard"
  BY <1>3, JoiningIs DEF Discard, Doing
<1>5. r = <<>> /\ ~mc.more
  BY <1>4, JoiningIs DEF LoginLeads
<1>6. server.accepted
  <2>1. ~server.accepted => Attempt
    BY JoiningIs
  <2>2. Attempt => Head(call.todo).do # "discard"
    BY <1>1, AttemptCases DEF Gates, LoginReads
  <2> QED
    BY <1>4, <2>1, <2>2, JoiningIs
<1>7. net.out = <<>> /\ Stream = <<>>
  BY <1>4, <1>6, JoiningIs DEF Reached
<1>8. Go(<<>>)
  BY <1>3, <1>5 DEF Discard
<1>9. net'.out = <<>> /\ Stream' = <<>>
  BY <1>3, <1>7 DEF Stream
<1>10. LoginShape(call.plugin, <<>>)
  BY NothingLeft
<1> DEFINE e == <<>>
<1>11. e = <<>>
  OBVIOUS
<1> HIDE DEF e
<1>12. Go(e) /\ LoginShape(call.plugin, e)
  BY <1>8, <1>10, <1>11
<1> QED
  BY <1>3, <1>9, <1>11, <1>12, SetupGoes

(* A call that has its result only cleans up.                              *)
LEMMA OnlyEnds ==
    ASSUME TypeOK, call.name = "Connect", SoloInv, LoginInv, SetupInv, Moves \/ Finish
    PROVE  /\ call.todo # <<>>
           /\ call.err # "running" <=> Cleanup \/ Finish
<1>1. call.todo # <<>>
  <2>1. Finish => call.todo # <<>>
    BY DEF Finish, Doing
  <2> QED
    BY <2>1, MovesCalm
<1>2. Cleanup \/ Finish => Head(call.todo).do \in {"cleanup", "finish"}
  BY DEF Cleanup, Finish, Doing
<1>3. Moves /\ ~Cleanup => Head(call.todo).do \notin {"cleanup", "finish"}
  BY DEF Moves, Step, Open, TakeBuffer, Discard, NextRow, NextResult, More, CloseRows, LookAtContext, Doing,
         ReadPacket, OutOfSync, ReadFails, ReadTimeout, BusyBuffer, Write, TLSHandshake, Reading
<1>4. Head(call.todo).do \notin {"cleanup", "finish"} => call.err = "running"
  BY <1>1, ConnectMoves
<1>5. ASSUME call.err = "running"
      PROVE  Head(call.todo).do \notin {"cleanup", "finish"}
  <2>1. Joining
    BY <1>1, <1>5 DEF Joining
  <2>2. server.accepted => First.do \notin {"cleanup", "finish"}
    BY <2>1, JoiningIs DEF Reached, IsQuery
  <2>3. Attempt => Head(call.todo).do \notin {"cleanup", "finish"}
    BY AttemptCases DEF Gates, LoginReads
  <2> QED
    BY <2>1, <2>2, <2>3, JoiningIs
<1> QED
  BY <1>1, <1>2, <1>3, <1>4, <1>5

LEMMA EndingJoins ==
    ASSUME TypeOK, call.name = "Connect", SoloInv, SetupInv, call.todo # <<>>, call.err # "running",
           Cleanup \/ Finish
    PROVE  Concluded
<1>1. call \in CallType /\ mc \in ConnType /\ net \in NetType /\ ~Pooled
  BY DEF TypeOK, Pooled
<1>2. call' = [call EXCEPT !.todo = Tail(call.todo)]
  BY DEF Cleanup, Finish
<1>3. call'.err = call.err /\ call'.todo = Tail(call.todo)
  BY <1>1, <1>2 DEF CallType
<1>4. CASE call.err = "nil"
  <2>1. net.out = <<>> /\ Stream = <<>>
    BY <1>1, <1>4 DEF SetupInv
  <2>2. net'.out = net.out
    BY <1>1 DEF Cleanup, Finish, Dropped, NetType
  <2>3. Stream' = <<>>
    BY <2>1, SetupStream DEF Moves
  <2> QED
    BY <1>3, <1>4, <2>1, <2>2, <2>3, Zenon DEF Concluded
<1>5. CASE call.err # "nil"
  <2>1. ASSUME call.err # "early"
        PROVE  mc'.closed \/ HasCleanup(Tail(call.todo))
    <3>1. mc.closed \/ \E i \in 1..Len(call.todo) : call.todo[i].do = "cleanup"
      BY <1>1, <1>5, <2>1 DEF SetupInv
    <3>2. Cleanup => mc'.closed
      BY <1>1, ClosedTyped DEF Cleanup
    <3>3. CASE Finish
      <4>1. mc.closed => mc'.closed
        BY <1>1, <3>3 DEF Finish, ConnType
      <4>2. ASSUME NEW i \in 1..Len(call.todo), call.todo[i].do = "cleanup"
            PROVE  HasCleanup(Tail(call.todo))
        <5> DEFINE l == call.todo
                   r == Tail(l)
        <5>1. l \in Seq(TaskType) /\ l # <<>> /\ l[i].do = "cleanup" /\ Head(l).do = "finish"
          BY <1>1, <3>3, <4>2 DEF CallType, Finish, Doing
        <5> HIDE DEF l
        <5>2. /\ Len(l) \in Nat /\ Head(l) = l[1] /\ Len(r) = Len(l) - 1
              /\ \A j \in 1..Len(r) : r[j] = l[j + 1]
          BY <5>1, SeqBasics
        <5>3. i \in 1..Len(l)
          BY DEF l
        <5> HIDE DEF r
        <5>4. i # 1
          BY <5>1, <5>2
        <5>5. i - 1 \in 1..Len(r) /\ (i - 1) + 1 = i
          BY <5>2, <5>3, <5>4
        <5>6. r[i - 1] = l[i]
          BY <5>2, <5>5
        <5>7. HasCleanup(r)
          BY <5>1, <5>5, <5>6 DEF HasCleanup
        <5> QED
          BY <5>7 DEF r, l
      <4> QED
        BY <3>1, <4>1, <4>2
    <3> QED
      BY <3>2, <3>3
  <2> QED
    BY <1>3, <1>5, <2>1, Zenon DEF Concluded
<1> QED
  BY <1>4, <1>5

(* The lists of tasks.                                                     *)
LEMMA TaskOf ==
    ASSUME NEW do \in Tasks
    PROVE  Task(do) \in TaskType /\ Task(do).do = do
BY TaskTyped, TaskIs

LEMMA SecretOf ==
    ASSUME NEW cmd \in Commands, NEW arg \in Forms
    PROVE  LET w == Writing(cmd, arg)
           IN  w \in TaskType /\ w.do = "write" /\ w.cmd = cmd /\ w.arg = arg
<1>1. Writing(cmd, arg).arg = arg
  BY DEF Writing, Task
<1> QED
  BY <1>1, WritingTyped

LEMMA SetupShape ==
    ASSUME TypeOK, NEW plugin
    PROVE  /\ Setup \in Seq(TaskType) /\ LoginShape(plugin, Setup)
           /\ \/ Setup = <<>> /\ At(Setup, 1).do = "none"
              \/ Setup # <<>> /\ IsQuery(At(Setup, 1)) /\ At(Setup, 2).do = "sysheader"
<1>1. Setup \in Seq(TaskType) /\ conf \in Configs
  BY SetupTyped DEF TypeOK
<1>2. conf.max = (conf.params = 0) /\ conf.params \in 0..1
  BY <1>1 DEF Configs
<1>3. CASE conf.params = 0
  <2>1. Setup = <<>> \o <<>>
    BY <1>2, <1>3 DEF Setup
  <2>2. <<>> \in Seq(TaskType)
    OBVIOUS
  <2>3. Setup = <<>>
    BY <2>1, <2>2, ConcatEmptySeq
  <2> QED
    BY <1>1, <2>3, NothingLeft
<1>4. CASE conf.params # 0
  <2> DEFINE q == Writing("query", "none")
             s == Task("sysheader")
             h == Task("header")
             d == Task("discard")
             r == <<h, d>>
             x == <<q>> \o r
             y == <<s>> \o x
             z == <<q>> \o y
  <2>1. q \in TaskType /\ IsQuery(q) /\ q.do = "write" /\ q.cmd = "query"
    BY WritingTyped, WritingIs DEF Commands, Forms, IsQuery
  <2>2. /\ s \in TaskType /\ s.do = "sysheader" /\ h \in TaskType /\ h.do = "header"
        /\ d \in TaskType /\ d.do = "discard"
    BY TaskOf DEF Tasks, Reading
  <2>3. Setup = (<<q>> \o <<s>>) \o (<<q>> \o <<h, d>>)
    <3>1. ~conf.max
      BY <1>2, <1>4
    <3> QED
      BY <1>4, <3>1 DEF Setup, Small
  <2> HIDE DEF q, s, h, d
  <2>4. LoginLeads(plugin, d, None, None) /\ LoginLeads(plugin, h, d, None)
    BY <2>2, NothingLeft DEF LoginLeads
  <2>5. LoginShape(plugin, r) /\ r \in Seq(TaskType) /\ At(r, 1) = h /\ At(r, 2) = d
    BY <2>2, <2>4, ShapeTwo
  <2>6. <<q>> \in Seq(TaskType) /\ <<s>> \in Seq(TaskType)
    BY <2>1, <2>2
  <2> HIDE DEF r
  <2>7. LoginLeads(plugin, q, h, d)
    BY <2>1, <2>2 DEF LoginLeads
  <2>8. LoginShape(plugin, x) /\ x \in Seq(TaskType) /\ At(x, 1) = q /\ At(x, 2) = h
    BY <2>1, <2>5, <2>7, ShapeCons
  <2> HIDE DEF x
  <2>9. LoginLeads(plugin, s, q, h)
    BY <2>1, <2>2 DEF LoginLeads
  <2>10. LoginShape(plugin, y) /\ y \in Seq(TaskType) /\ At(y, 1) = s /\ At(y, 2) = q
    BY <2>2, <2>8, <2>9, ShapeCons
  <2>11. (<<q>> \o <<s>>) \o x = z
    BY <2>6, <2>8, ThreeParts
  <2> HIDE DEF y
  <2>12. LoginLeads(plugin, q, s, q)
    BY <2>1, <2>2 DEF LoginLeads
  <2>13. LoginShape(plugin, z) /\ At(z, 1) = q /\ At(z, 2) = s /\ z # <<>>
    BY <2>1, <2>10, <2>12, ShapeCons
  <2>14. Setup = z
    BY <2>3, <2>11, Zenon DEF x, r
  <2> QED
    BY <1>1, <2>1, <2>2, <2>13, <2>14
<1> QED
  BY <1>3, <1>4

LEMMA AnswerShapes ==
    ASSUME TypeOK, NEW plugin, NEW f \in Forms
    PROVE  LET k == Task("ok")
               w == Writing("secret", f)
           IN  /\ k.do = "ok" /\ w.do = "write"
               /\ LoginShape(plugin, <<k>> \o Setup) /\ <<k>> \o Setup # <<>>
               /\ At(<<k>> \o Setup, 1) = k
               /\ LoginShape(plugin, <<w, k>> \o Setup) /\ <<w, k>> \o Setup # <<>>
               /\ <<w, k>> \o Setup \in Seq(TaskType)
               /\ At(<<w, k>> \o Setup, 1) = w /\ At(<<w, k>> \o Setup, 2) = k
<1> DEFINE k == Task("ok")
           w == Writing("secret", f)
           r == Setup
<1>1. k \in TaskType /\ k.do = "ok" /\ w \in TaskType /\ w.do = "write" /\ w.cmd = "secret"
  BY TaskOf, SecretOf DEF Tasks, Reading, Commands
<1>2. /\ r \in Seq(TaskType) /\ LoginShape(plugin, r)
      /\ At(r, 1).do = "none" \/ (IsQuery(At(r, 1)) /\ At(r, 2).do = "sysheader")
  BY SetupShape
<1> HIDE DEF k, w, r
<1>3. LoginLeads(plugin, k, At(r, 1), At(r, 2)) /\ LoginLeads(plugin, w, k, At(r, 1))
  BY <1>1, <1>2 DEF LoginLeads
<1>4. LoginShape(plugin, <<k>> \o r) /\ <<k>> \o r # <<>> /\ At(<<k>> \o r, 1) = k
  BY <1>1, <1>2, <1>3, ShapeCons
<1>5. /\ LoginShape(plugin, <<w, k>> \o r) /\ <<w, k>> \o r # <<>> /\ <<w, k>> \o r \in Seq(TaskType)
      /\ At(<<w, k>> \o r, 1) = w /\ At(<<w, k>> \o r, 2) = k
  BY <1>1, <1>2, <1>3, ShapePair
<1> QED
  BY <1>1, <1>4, <1>5, Zenon DEF k, w, r

LEMMA KeyShape ==
    ASSUME TypeOK
    PROVE  LET s == Writing("secret", "requestKey")
               l == <<s, Task("key"), Writing("secret", "encrypted"), Task("ok")>> \o Setup
           IN  LoginShape("caching", l) /\ At(l, 1) = s /\ s.do = "write" /\ l # <<>>
<1> DEFINE s == Writing("secret", "requestKey")
           k == Task("key")
           e == Writing("secret", "encrypted")
           o == Task("ok")
           r == Setup
           x == <<e, o>> \o r
           y == <<s, k>> \o x
<1>1. "requestKey" \in Forms /\ "encrypted" \in Forms /\ "secret" \in Commands /\ "key" \in Tasks /\ "ok" \in Tasks
  BY DEF Forms, Commands, Tasks, Reading
<1>2. /\ s \in TaskType /\ s.do = "write" /\ s.cmd = "secret" /\ s.arg = "requestKey"
      /\ e \in TaskType /\ e.do = "write" /\ e.cmd = "secret"
  BY <1>1, SecretOf
<1>3. k \in TaskType /\ k.do = "key" /\ o \in TaskType /\ o.do = "ok" /\ r \in Seq(TaskType)
  BY <1>1, TaskOf, SetupShape
<1>4. LoginShape("caching", x) /\ x \in Seq(TaskType) /\ At(x, 1) = e /\ At(x, 2) = o
  BY <1>1, AnswerShapes
<1> HIDE DEF s, k, e, o, r
<1>5. <<s, k, e, o>> \o r = y
  <2>1. <<s, k>> \in Seq(TaskType) /\ <<e, o>> \in Seq(TaskType)
    BY <1>2, <1>3
  <2>2. <<s, k>> \o <<e, o>> = <<s, k, e, o>>
    BY <1>2, <1>3, TwoTwo
  <2>3. (<<s, k>> \o <<e, o>>) \o r = <<s, k>> \o (<<e, o>> \o r)
    BY <1>3, <2>1, ThreeParts
  <2> QED
    BY <2>2, <2>3, Zenon
<1> HIDE DEF x
<1>6. LoginLeads("caching", k, e, o) /\ LoginLeads("caching", s, k, e)
  BY <1>2, <1>3 DEF LoginLeads
<1>7. LoginShape("caching", y) /\ At(y, 1) = s /\ y # <<>>
  BY <1>2, <1>3, <1>4, <1>6, ShapePair
<1> QED
  BY <1>2, <1>5, <1>7, Zenon DEF s, k, e, o, r

LEMMA LoginShapes ==
    ASSUME NEW plugin, NEW f \in Forms, NEW tls,
           NEW l, l = (IF tls THEN <<Writing("ssl", "none"), Task("tls")>> ELSE <<>>)
                      \o <<Writing("response", f), Task("authResult")>>
    PROVE  /\ LoginShape(plugin, l) /\ l # <<>> /\ At(l, 1).do = "write"
<1> DEFINE s == Writing("ssl", "none")
           t == Task("tls")
           w == Writing("response", f)
           g == Task("authResult")
           r == <<w, g>>
<1>1. /\ s \in TaskType /\ s.do = "write" /\ s.cmd = "ssl" /\ w \in TaskType /\ w.do = "write" /\ w.cmd = "response"
  BY SecretOf DEF Commands, Forms
<1>2. t \in TaskType /\ t.do = "tls" /\ g \in TaskType /\ g.do = "authResult"
  BY TaskOf DEF Tasks, Reading
<1>3. l = (IF tls THEN <<s, t>> ELSE <<>>) \o <<w, g>>
  OBVIOUS
<1> HIDE DEF s, t, w, g
<1>4. LoginLeads(plugin, g, None, None) /\ LoginLeads(plugin, w, g, None)
  BY <1>1, <1>2, NothingLeft DEF LoginLeads
<1>5. LoginShape(plugin, r) /\ r \in Seq(TaskType) /\ r # <<>> /\ At(r, 1) = w /\ At(r, 2) = g
  BY <1>1, <1>2, <1>4, ShapeTwo
<1>6. CASE tls
  <2>1. l = <<s, t>> \o r
    BY <1>3, <1>6
  <2> HIDE DEF r
  <2>2. LoginLeads(plugin, t, w, g) /\ LoginLeads(plugin, s, t, w)
    BY <1>1, <1>2 DEF LoginLeads
  <2>3. LoginShape(plugin, <<s, t>> \o r) /\ <<s, t>> \o r # <<>> /\ At(<<s, t>> \o r, 1) = s
    BY <1>1, <1>2, <1>5, <2>2, ShapePair
  <2> QED
    BY <1>1, <2>1, <2>3
<1>7. CASE ~tls
  <2>1. l = <<>> \o r
    BY <1>3, <1>7
  <2>2. l = r
    BY <1>5, <2>1, ConcatEmptySeq
  <2> QED
    BY <1>1, <1>5, <2>2
<1> QED
  BY <1>6, <1>7

LEMMA SwitchShape ==
    ASSUME NEW plugin, NEW f \in Forms
    PROVE  LET l == <<Writing("secret", f), Task("authResult2")>>
           IN  LoginShape(plugin, l) /\ l # <<>> /\ At(l, 1).do = "write"
<1> DEFINE w == Writing("secret", f)
           g == Task("authResult2")
<1>1. w \in TaskType /\ w.do = "write" /\ w.cmd = "secret" /\ g \in TaskType /\ g.do = "authResult2"
  BY SecretOf, TaskOf DEF Commands, Tasks, Reading
<1> HIDE DEF w, g
<1>2. LoginLeads(plugin, g, None, None) /\ LoginLeads(plugin, w, g, None)
  BY <1>1, NothingLeft DEF LoginLeads
<1>3. LoginShape(plugin, <<w, g>>) /\ <<w, g>> # <<>> /\ At(<<w, g>>, 1) = w
  BY <1>1, <1>2, ShapeTwo
<1> QED
  BY <1>1, <1>3, Zenon DEF w, g

LEMMA RowShapes ==
    ASSUME NEW plugin, NEW r \in Seq(TaskType), LoginShape(plugin, r)
    PROVE  LET e == Task("eof")
               s == Task("sysrow")
           IN  /\ e.do = "eof" /\ s.do = "sysrow"
               /\ IsQuery(At(r, 1)) /\ At(r, 2).do = "header" =>
                     /\ LoginShape(plugin, <<e, s, e>> \o r) /\ <<e, s, e>> \o r # <<>>
                     /\ At(<<e, s, e>> \o r, 1) = e /\ At(<<e, s, e>> \o r, 2) = s
               /\ At(r, 1).do = "discard" =>
                     /\ LoginShape(plugin, <<e, e>> \o r) /\ <<e, e>> \o r # <<>>
                     /\ At(<<e, e>> \o r, 1) = e /\ At(<<e, e>> \o r, 2) = e
<1> DEFINE e == Task("eof")
           s == Task("sysrow")
<1>1. e \in TaskType /\ e.do = "eof" /\ s \in TaskType /\ s.do = "sysrow"
  BY TaskOf DEF Tasks, Reading
<1> HIDE DEF e, s
<1>2. ASSUME IsQuery(At(r, 1)), At(r, 2).do = "header"
      PROVE  /\ LoginShape(plugin, <<e, s, e>> \o r) /\ <<e, s, e>> \o r # <<>>
             /\ At(<<e, s, e>> \o r, 1) = e /\ At(<<e, s, e>> \o r, 2) = s
  <2> DEFINE x == <<s, e>> \o r
  <2>1. LoginLeads(plugin, e, At(r, 1), At(r, 2)) /\ LoginLeads(plugin, s, e, At(r, 1))
    BY <1>1, <1>2 DEF LoginLeads
  <2>2. LoginShape(plugin, x) /\ x \in Seq(TaskType) /\ At(x, 1) = s /\ At(x, 2) = e
    BY <1>1, <2>1, ShapePair
  <2>3. <<e, s, e>> \o r = <<e>> \o x
    BY <1>1, ThreeCons, Zenon
  <2> HIDE DEF x
  <2>4. LoginLeads(plugin, e, s, e)
    BY <1>1 DEF LoginLeads
  <2>5. LoginShape(plugin, <<e>> \o x) /\ <<e>> \o x # <<>> /\ At(<<e>> \o x, 1) = e /\ At(<<e>> \o x, 2) = s
    BY <1>1, <2>2, <2>4, ShapeCons
  <2> QED
    BY <2>3, <2>5, Zenon
<1>3. ASSUME At(r, 1).do = "discard"
      PROVE  /\ LoginShape(plugin, <<e, e>> \o r) /\ <<e, e>> \o r # <<>>
             /\ At(<<e, e>> \o r, 1) = e /\ At(<<e, e>> \o r, 2) = e
  <2>1. LoginLeads(plugin, e, At(r, 1), At(r, 2)) /\ LoginLeads(plugin, e, e, At(r, 1))
    BY <1>1, <1>3 DEF LoginLeads
  <2> QED
    BY <1>1, <2>1, ShapePair
<1> QED
  BY <1>1, <1>2, <1>3, Zenon DEF e, s

-----------------------------------------------------------------------------
(* Connect reads a packet.                                                 *)
Receives(p) ==
    /\ Joining /\ p \in PacketType /\ CallReads(p)
    /\ Stream \in Seq(PacketType) /\ Stream # <<>> /\ p = Stream[1] /\ p.seq = mc.sequence
    /\ p.kind \notin {"readonly", "file", "field"}
    /\ Stream' = Tail(Stream) /\ net'.out = net.out /\ server' = server
    /\ mc'.sequence = (mc.sequence + 1) % 256
    /\ ~server.accepted => NotAccepting(p)
    /\ First.do \in Reading

LEMMA ConnectReceives ==
    ASSUME Joining, ReadPacket
    PROVE  \E p : Receives(p)
<1>1. PICK r \in Arrivals :
         /\ InSequence(r.pkt)
         /\ net' = IF r.pkt.kind = "readonly" THEN Dropped(r.net) ELSE r.net
         /\ mc' = ConnAfter(r.pkt) /\ CallReads(r.pkt)
         /\ server' = server /\ call.todo # <<>> /\ Head(call.todo).do \in Reading
  BY DEF ReadPacket
<1> DEFINE p == r.pkt
<1>2. TypeOK /\ call.name = "Connect" /\ SoloInv /\ ~Pooled
  BY DEF Joining, Pooled
<1>3. OfConnect(net.buf) /\ OfConnect(net.wire)
  BY <1>2 DEF SoloInv
<1>4. p.kind \notin {"readonly", "file", "field"} /\ r.net.out = net.out
  BY <1>2, <1>3, ArrivalOfConnect
<1>5. net' = r.net
  BY <1>1, <1>4
<1>6. Stream # <<>> /\ p = Stream[1] /\ r.net.buf \o r.net.wire = Tail(Stream) /\ Stream \in Seq(PacketType)
  BY <1>2, ArrivalIs, StreamTyped
<1>7. p \in PacketType
  BY <1>2, ArrivalTyped
<1>8. Stream' = Tail(Stream)
  BY <1>5, <1>6 DEF Stream
<1>9. mc'.sequence = (mc.sequence + 1) % 256
  <2> DEFINE s == (mc.sequence + Span(p)) % 256
             more == IF p.kind = "ok" \/ (p.kind = "eof" /\ ~Doing("columns")) THEN p.flag ELSE mc.more
             tls == IF Doing("handshake") THEN Encrypted(p) ELSE mc.tls
             b == mc.closed \/ p.kind = "readonly"
  <2>1. mc' = [mc EXCEPT !.sequence = s, !.more = more, !.tls = tls, !.closed = b] /\ mc \in ConnType
    BY <1>1, <1>2 DEF ConnAfter, TypeOK
  <2> HIDE DEF s, more, tls, b
  <2>2. mc'.sequence = s
    BY <2>1 DEF ConnType
  <2>3. Span(p) = 1
    BY <1>4 DEF Span
  <2> QED
    BY <2>2, <2>3 DEF s
<1>10. ~server.accepted => NotAccepting(p)
  <2>1. ASSUME Attempt
        PROVE  NotAccepting(p)
    <3>1. net.buf = <<>> /\ Len(net.wire) <= 1 /\ \A i \in 1..Len(net.wire) : NotAccepting(net.wire[i])
      BY <2>1 DEF Attempt, OneExchange
    <3>2. net.wire # <<>> /\ p = net.wire[1] /\ net.wire \in Seq(PacketType)
      BY <1>2, <3>1, ArrivalTyped, StreamTyped
    <3>3. 1 \in 1..Len(net.wire)
      BY <3>2, SeqBasics
    <3> QED
      BY <3>1, <3>2, <3>3
  <2> QED
    BY <2>1, JoiningIs
<1>11. First.do \in Reading
  BY <1>1, JoiningIs
<1> HIDE DEF p
<1>12. InSequence(p) /\ CallReads(p) /\ server' = server /\ net'.out = net.out
  BY <1>1, <1>4, <1>5 DEF p
<1>13. Receives(p)
  BY <1>4, <1>6, <1>7, <1>8, <1>9, <1>10, <1>11, <1>12 DEF Receives, InSequence, p
<1> QED
  BY <1>13

LEMMA LoginJoins ==
    ASSUME Joining, ~server.accepted, server' = server, NEW plugin \in Subjects, NEW tls, Login(plugin, tls)
    PROVE  Concluded
<1> DEFINE l == (IF tls THEN <<Writing("ssl", "none"), Task("tls")>> ELSE <<>>)
                \o <<Writing("response", Auth(plugin, tls)), Task("authResult")>>
<1>1. call' = [call EXCEPT !.plugin = plugin, !.todo = l] /\ call \in CallType /\ call.err = "running"
  BY DEF Login, Joining, TypeOK
<1>2. Auth(plugin, tls) \in Forms
  BY AuthTyped
<1>3. LoginShape(plugin, l) /\ l # <<>> /\ At(l, 1).do = "write"
  BY <1>2, LoginShapes
<1> HIDE DEF l
<1>4. call'.todo = l /\ call'.plugin = plugin /\ call'.err = "running"
  BY <1>1 DEF CallType
<1> QED
  BY <1>3, <1>4, SetupContinues

LEMMA HandshakeJoins ==
    ASSUME Joining, ~server.accepted, server' = server, NEW p \in PacketType, Handshake(p)
    PROVE  Concluded
<1> DEFINE wanted == IF p.arg = "none" THEN "native" ELSE p.arg
<1>1. \/ Return("mysql") \/ Return("notls") \/ Return("plugin")
      \/ Login(wanted, Encrypted(p)) \/ Login("native", Encrypted(p))
  BY DEF Handshake
<1>2. wanted \in Subjects /\ "native" \in Subjects
  BY DEF Subjects, Plugins, PacketType
<1>3. {"mysql", "notls", "plugin"} \subseteq Errors \ {"running", "nil"}
  BY DEF Errors
<1> HIDE DEF wanted
<1> QED
  BY <1>1, <1>2, <1>3, LoginJoins, SetupFails

LEMMA SecretJoins ==
    ASSUME Joining, ~server.accepted, server' = server, NEW f \in Forms,
           Go(<<Writing("secret", f), Task("ok")>> \o Setup)
    PROVE  Concluded
<1> DEFINE l == <<Writing("secret", f), Task("ok")>> \o Setup
<1>1. LoginShape(call.plugin, l) /\ l # <<>> /\ At(l, 1).do = "write"
  BY AnswerShapes DEF Joining
<1> HIDE DEF l
<1>2. Go(l)
  BY DEF l
<1> QED
  BY <1>1, <1>2, SetupGoes

LEMMA KeyJoins ==
    ASSUME Joining, ~server.accepted, server' = server, call.plugin = "caching",
           Go(<<Writing("secret", "requestKey"), Task("key"), Writing("secret", "encrypted"), Task("ok")>>
              \o Setup)
    PROVE  Concluded
<1> DEFINE l == <<Writing("secret", "requestKey"), Task("key"), Writing("secret", "encrypted"), Task("ok")>>
                \o Setup
<1>1. LoginShape("caching", l) /\ l # <<>> /\ At(l, 1).do = "write"
  BY KeyShape DEF Joining
<1> HIDE DEF l
<1>2. Go(l)
  BY DEF l
<1> QED
  BY <1>1, <1>2, SetupGoes

LEMMA RefusedJoins ==
    ASSUME Receives(Stream[1]), ~server.accepted, NEW first, AuthResult(Stream[1], first)
    PROVE  Concluded
<1> DEFINE p == Stream[1]
<1>1. /\ Joining /\ p \in PacketType /\ NotAccepting(p) /\ server' = server /\ TypeOK
      /\ call \in CallType /\ call.err = "running"
  BY DEF Receives, Joining, TypeOK
<1>2. {"mysql", "plugin"} \subseteq Errors \ {"running", "nil"} /\ {"clear", "encrypted"} \subseteq Forms
  BY DEF Errors, Forms
<1> HIDE DEF p
<1>3. /\ p.kind # "ok"
      /\ p.kind = "more" => \/ p.arg = "key" /\ call.plugin = "sha256"
                            \/ p.arg = "full" /\ call.plugin = "caching"
  BY <1>1 DEF NotAccepting
<1>4. AuthResult(p, first)
  BY DEF p
<1>5. CASE p.kind = "more"
  <2>1. Authenticated(call.plugin, p.arg)
    BY <1>4, <1>5 DEF AuthResult
  <2>2. CASE p.arg = "key" /\ call.plugin = "sha256"
    <3>1. Go(<<Writing("secret", "encrypted"), Task("ok")>> \o Setup)
      BY <2>1, <2>2 DEF Authenticated
    <3> QED
      BY <1>1, <1>2, <3>1, SecretJoins
  <2>3. CASE p.arg = "full" /\ call.plugin = "caching"
    <3>1. Go(CachingSha2("full"))
      BY <2>1, <2>3 DEF Authenticated
    <3>2. CachingSha2("full") \in
             {<<Writing("secret", "clear"), Task("ok")>> \o Setup,
              <<Writing("secret", "encrypted"), Task("ok")>> \o Setup,
              <<Writing("secret", "requestKey"), Task("key"), Writing("secret", "encrypted"), Task("ok")>>
                \o Setup}
      BY DEF CachingSha2
    <3> QED
      BY <1>1, <1>2, <2>3, <3>1, <3>2, SecretJoins, KeyJoins
  <2> QED
    BY <1>3, <1>5, <2>2, <2>3
<1>6. CASE p.kind = "switch" /\ MaySwitch(p, first)
  <2> DEFINE l == <<Writing("secret", Auth(p.arg, mc.tls)), Task("authResult2")>>
  <2>1. call' = [call EXCEPT !.plugin = p.arg, !.todo = l]
    BY <1>4, <1>6 DEF AuthResult
  <2>2. LoginShape(p.arg, l) /\ l # <<>> /\ At(l, 1).do = "write"
    BY AuthTyped, SwitchShape
  <2> HIDE DEF l
  <2>3. call'.todo = l /\ call'.plugin = p.arg /\ call'.err = "running"
    BY <1>1, <2>1 DEF CallType
  <2> QED
    BY <1>1, <2>2, <2>3, SetupContinues
<1>7. CASE p.kind # "more" /\ ~(p.kind = "switch" /\ MaySwitch(p, first))
  <2>1. Return("plugin") \/ Return("mysql")
    BY <1>3, <1>4, <1>7 DEF AuthResult
  <2> QED
    BY <1>1, <1>2, <2>1, SetupFails
<1> QED
  BY <1>5, <1>6, <1>7

LEMMA TriesJoin ==
    ASSUME NEW p, Receives(p), ~server.accepted
    PROVE  Concluded
<1>1. /\ Joining /\ p \in PacketType /\ NotAccepting(p) /\ server' = server /\ TypeOK /\ p = Stream[1]
      /\ CallReads(p) /\ p.kind # "readonly" /\ First.do \in Reading /\ call.todo # <<>>
  BY DEF Receives, Joining
<1>2. First = Head(call.todo) /\ Attempt
  BY <1>1, JoiningIs
<1>3. First.do \in Gates \cup {"key"}
  BY <1>1, <1>2, AttemptCases DEF Reading
<1>4. CASE First.do = "handshake"
  <2>1. Handshake(p)
    BY <1>1, <1>2, <1>4 DEF CallReads, ConnectReads, Doing
  <2> QED
    BY <1>1, <2>1, HandshakeJoins
<1>5. CASE First.do \in {"authResult", "authResult2"}
  <2>1. AuthResult(p, TRUE) \/ AuthResult(p, FALSE)
    BY <1>1, <1>2, <1>5 DEF CallReads, ConnectReads, Doing
  <2> QED
    BY <1>1, <2>1, RefusedJoins
<1>6. CASE First.do = "ok"
  <2>1. Return("mysql")
    BY <1>1, <1>2, <1>6 DEF CallReads, Doing, NotAccepting, ErrorOf
  <2> QED
    BY <1>1, <2>1, SetupFails DEF Errors
<1>7. CASE First.do = "key"
  <2> DEFINE r == Tail(call.todo)
  <2>1. Go(r)
    BY <1>1, <1>2, <1>7 DEF CallReads, ConnectReads, Doing
  <2>2. At(call.todo, 2).do = "write"
    BY <1>1, <1>7, JoiningIs DEF LoginLeads
  <2>3. LoginShape(call.plugin, r) /\ r # <<>> /\ At(r, 1).do = "write"
    BY <1>1, <2>2, JoiningIs
  <2> HIDE DEF r
  <2> QED
    BY <1>1, <2>1, <2>3, SetupGoes
<1> QED
  BY <1>3, <1>4, <1>5, <1>6, <1>7 DEF Gates

-----------------------------------------------------------------------------
(* Once the server has accepted, what is read is the end of the login and  *)
(* the answers to the statements.                                          *)
LEMMA AnsweredTail ==
    ASSUME NEW s \in Seq(PacketType), s # <<>>, NEW k \in 1..5, Answered(s, k)
    PROVE  /\ AnswerAt(s[1], k, Len(s) = 1) /\ (k + 1) % 256 = k + 1
           /\ Answered(Tail(s), k + 1)
           /\ Len(s) = 1 => Tail(s) = <<>>
           /\ k = 5 => Tail(s) = <<>>
           /\ Tail(s) \in Seq(PacketType)
<1> DEFINE r == Tail(s)
<1>1. /\ 1 \in 1..Len(s) /\ r \in Seq(PacketType) /\ Len(r) = Len(s) - 1 /\ Len(s) \in Nat
      /\ \A i \in 1..Len(r) : r[i] = s[i + 1] /\ i + 1 \in 1..Len(s)
  BY SeqBasics
<1>2. Len(r) \in Nat /\ (r = <<>> <=> Len(r) = 0)
  BY <1>1, SeqBasics
<1> HIDE DEF r
<1>3. (k + 1) % 256 = k + 1
  <2>1. k + 1 \in 0..255
    OBVIOUS
  <2> QED
    BY <2>1
<1>4. \A i \in 1..Len(s) : AnswerAt(s[i], k + i - 1, Len(s) = 1)
  BY DEF Answered
<1>5. AnswerAt(s[1], k, Len(s) = 1)
  <2>1. k + 1 - 1 = k
    OBVIOUS
  <2> QED
    BY <1>1, <1>4, <2>1
<1>6. ASSUME NEW i \in 1..Len(r)
      PROVE  AnswerAt(r[i], (k + 1) + i - 1, Len(r) = 1) /\ k + i <= 5
  <2>1. r[i] = s[i + 1] /\ i + 1 \in 1..Len(s) /\ k + (i + 1) - 1 = k + i /\ (k + 1) + i - 1 = k + i
        /\ k + i # 1 /\ k + i \in Nat
    BY <1>1, <1>2
  <2>2. AnswerAt(r[i], k + i, Len(s) = 1)
    BY <1>4, <2>1
  <2>3. AnswerAt(r[i], k + i, Len(r) = 1)
    BY <2>1, <2>2 DEF AnswerAt
  <2> QED
    BY <2>1, <2>2, <2>3 DEF AnswerAt
<1>7. Answered(r, k + 1)
  BY <1>6 DEF Answered
<1>8. k = 5 => Len(r) = 0
  <2>1. ASSUME k = 5, Len(r) # 0
        PROVE  FALSE
    <3>1. 1 \in 1..Len(r)
      BY <1>2, <2>1
    <3>2. k + 1 <= 5
      BY <1>6, <3>1
    <3> QED
      BY <2>1, <3>2
  <2> QED
    BY <2>1
<1>9. Len(s) = 1 => Len(r) = 0
  BY <1>1
<1> QED
  BY <1>1, <1>2, <1>3, <1>5, <1>7, <1>8, <1>9 DEF r

LEMMA AcceptedIs ==
    ASSUME NEW p, Receives(p), server.accepted
    PROVE  LET t == First
               u == At(call.todo, 2)
               s == Stream
           IN  /\ net.out = <<>> /\ net'.out = <<>>
               /\ \/ /\ t.do \in {"authResult", "authResult2", "ok"} /\ Accepting(call.plugin, s)
                  \/ /\ t.do \in {"sysheader", "header", "eof", "sysrow"}
                     /\ Place(t, u, mc.sequence) /\ Answered(s, mc.sequence) /\ mc.sequence \in 1..5
<1>1. Joining /\ Stream # <<>> /\ net'.out = net.out
  BY DEF Receives
<1>2. Reached(call.plugin, First, At(call.todo, 2), mc.sequence, net.out, Stream)
  BY <1>1, JoiningIs
<1>3. LoginLeads(call.plugin, First, At(call.todo, 2), At(call.todo, 3))
  BY <1>1, JoiningIs
<1>4. net.out = <<>>
  BY <1>1, <1>2 DEF Reached, Asked
<1>5. ASSUME First.do \in {"sysheader", "header", "eof", "sysrow"}, Place(First, At(call.todo, 2), mc.sequence)
      PROVE  mc.sequence \in 1..5
  BY <1>3, <1>5 DEF Place, LoginLeads
<1> QED
  BY <1>1, <1>2, <1>4, <1>5 DEF Reached

LEMMA GoesOn ==
    ASSUME NEW p, Receives(p), server.accepted, NEW todo, Go(todo), LoginShape(call.plugin, todo),
           todo # <<>> => Reached(call.plugin, At(todo, 1), At(todo, 2), (mc.sequence + 1) % 256, <<>>,
                                  Tail(Stream)),
           todo = <<>> => Tail(Stream) = <<>>
    PROVE  Concluded
<1>1. Joining /\ server' = server /\ Stream' = Tail(Stream) /\ mc'.sequence = (mc.sequence + 1) % 256
  BY DEF Receives
<1>2. net'.out = <<>>
  BY AcceptedIs
<1>3. todo # <<>> => Reached(call.plugin, At(todo, 1), At(todo, 2), mc'.sequence, net'.out, Stream')
  BY <1>1, <1>2, Zenon
<1>4. todo = <<>> => net'.out = <<>> /\ Stream' = <<>>
  BY <1>1, <1>2, Zenon
<1> QED
  BY <1>1, <1>3, <1>4, SetupGoes

LEMMA AcceptedLogin ==
    ASSUME NEW p, Receives(p), server.accepted, First.do \in {"authResult", "authResult2", "ok"},
           Accepting(call.plugin, Stream)
    PROVE  Concluded
<1> DEFINE s == Stream
           rest == Tail(Stream)
           r == Tail(call.todo)
<1>1. /\ Joining /\ TypeOK /\ CallReads(p) /\ p = s[1] /\ s \in Seq(PacketType) /\ s # <<>>
      /\ p.kind # "readonly" /\ call.todo # <<>>
  BY DEF Receives, Joining
<1>2. First = Head(call.todo)
  BY <1>1, JoiningIs
<1>3. /\ Len(rest) = Len(s) - 1 /\ Len(s) \in Nat /\ rest \in Seq(PacketType)
      /\ \A i \in 1..Len(rest) : rest[i] = s[i + 1]
      /\ (rest = <<>> <=> Len(rest) = 0)
  <2>1. rest \in Seq(PacketType)
    BY <1>1, SeqBasics
  <2> QED
    BY <1>1, <2>1, SeqBasics
<1>4. First.do \in {"authResult", "authResult2"} => AuthResult(p, TRUE) \/ AuthResult(p, FALSE)
  BY <1>1, <1>2 DEF CallReads, ConnectReads, Doing
<1>5. First.do = "ok" => IF p.kind = "ok" THEN Go(r) ELSE Return(ErrorOf(p))
  BY <1>1, <1>2 DEF CallReads, Doing
<1> HIDE DEF s, rest
<1>6. CASE p.kind = "ok" /\ Len(s) = 1
  <2>1. rest = <<>>
    BY <1>3, <1>6
  <2>2. \A t, u : IsQuery(t) => Reached(call.plugin, t, u, (mc.sequence + 1) % 256, <<>>, rest)
    BY <2>1 DEF Reached
  <2>3. CASE First.do \in {"authResult", "authResult2"}
    <3> DEFINE l == Setup
    <3>1. Go(l)
      BY <1>4, <1>6, <2>3 DEF AuthResult, Authenticated, CachingSha2
    <3>2. LoginShape(call.plugin, l) /\ (l # <<>> => IsQuery(At(l, 1)))
      BY <1>1, SetupShape
    <3> HIDE DEF l
    <3>3. l # <<>> => Reached(call.plugin, At(l, 1), At(l, 2), (mc.sequence + 1) % 256, <<>>, rest)
      BY <2>2, <3>2
    <3> QED
      BY <2>1, <3>1, <3>2, <3>3, GoesOn DEF rest
  <2>4. CASE First.do = "ok"
    <3>1. Go(r)
      BY <1>5, <1>6, <2>4
    <3>2. LoginShape(call.plugin, r) /\ (r # <<>> => IsQuery(At(r, 1)))
      BY <1>1, <2>4, JoiningIs DEF LoginLeads
    <3> HIDE DEF r
    <3>3. r # <<>> => Reached(call.plugin, At(r, 1), At(r, 2), (mc.sequence + 1) % 256, <<>>, rest)
      BY <2>2, <3>2
    <3> QED
      BY <2>1, <3>1, <3>2, <3>3, GoesOn DEF rest
  <2> QED
    BY <2>3, <2>4
<1>7. CASE p.kind = "more" /\ p.arg = "fast" /\ call.plugin = "caching" /\ (Len(s) = 1 \/ (Len(s) = 2 /\ s[2].kind = "ok"))
  <2>1. CASE First.do \in {"authResult", "authResult2"}
    <3> DEFINE l == <<Task("ok")>> \o Setup
    <3>1. Go(l)
      BY <1>4, <1>7, <2>1 DEF AuthResult, Authenticated, CachingSha2
    <3>2. LoginShape(call.plugin, l) /\ l # <<>> /\ At(l, 1).do = "ok"
      BY <1>1, AnswerShapes DEF Forms
    <3> HIDE DEF l
    <3>3. Accepting(call.plugin, rest)
      <4>1. Len(s) = 1 => rest = <<>>
        BY <1>3
      <4>2. Len(s) = 2 => Len(rest) = 1 /\ 1 \in 1..Len(rest)
        BY <1>3
      <4>3. Len(s) = 2 => rest[1] = s[2]
        <5>1. 1 + 1 = 2
          OBVIOUS
        <5> QED
          BY <1>3, <4>2, <5>1
      <4> QED
        BY <1>7, <4>1, <4>2, <4>3 DEF Accepting
    <3>4. Reached(call.plugin, At(l, 1), At(l, 2), (mc.sequence + 1) % 256, <<>>, rest)
      BY <3>2, <3>3 DEF Reached
    <3> QED
      BY <3>1, <3>2, <3>4, GoesOn DEF rest
  <2>2. CASE First.do = "ok"
    <3>1. Return("mysql")
      BY <1>5, <1>7, <2>2 DEF ErrorOf
    <3> QED
      BY <1>1, <3>1, SetupFails DEF Errors
  <2> QED
    BY <2>1, <2>2
<1> QED
  BY <1>1, <1>6, <1>7 DEF Accepting, s

LEMMA AcceptedRows ==
    ASSUME NEW p, Receives(p), server.accepted, First.do \in {"sysheader", "header", "eof", "sysrow"},
           Place(First, At(call.todo, 2), mc.sequence), Answered(Stream, mc.sequence), mc.sequence \in 1..5
    PROVE  Concluded
<1> DEFINE s == Stream
           rest == Tail(Stream)
           k == mc.sequence
           t == First
           u == At(call.todo, 2)
           v == At(call.todo, 3)
           r == Tail(call.todo)
           n == (k + 1) % 256
<1>1. /\ Joining /\ TypeOK /\ CallReads(p) /\ p = s[1] /\ s \in Seq(PacketType) /\ s # <<>>
      /\ p.kind # "readonly" /\ p.kind # "file" /\ call.todo # <<>> /\ call.name = "Connect"
  BY DEF Receives, Joining
<1>2. /\ t = Head(call.todo) /\ LoginLeads(call.plugin, t, u, v)
      /\ LoginShape(call.plugin, r) /\ r \in Seq(TaskType) /\ At(r, 1) = u /\ At(r, 2) = v
      /\ u.do = "none" <=> r = <<>>
      /\ LoginShape(call.plugin, call.todo) /\ At(call.todo, 1) = t
  BY <1>1, JoiningIs DEF First
<1>3. /\ AnswerAt(p, k, Len(s) = 1) /\ n = k + 1 /\ Answered(rest, n) /\ (Len(s) = 1 => rest = <<>>)
      /\ k = 5 => rest = <<>>
  BY <1>1, AnsweredTail
<1>4. t.do = "header" => Header(p)
  BY <1>1, <1>2 DEF CallReads, Doing
<1>5. t.do = "eof" => UntilEOF(p)
  BY <1>1, <1>2 DEF CallReads, Doing
<1>6. t.do = "sysheader" => IF p.kind = "result" THEN Go(<<Task("eof"), Task("sysrow"), Task("eof")>> \o r)
                            ELSE Return("mysql")
  BY <1>1, <1>2 DEF CallReads, ConnectReads, SystemVar, Doing
<1>7. t.do = "sysrow" => IF p.kind = "row" THEN Go(r) ELSE Return("mysql")
  BY <1>1, <1>2 DEF CallReads, ConnectReads, SystemVar, Doing
<1>8. ErrorOf(p) = "mysql" /\ "mysql" \in Errors \ {"running", "nil"}
  BY <1>1 DEF ErrorOf, Errors
<1>9. k \in 1..5
  OBVIOUS
<1>10. Place(t, u, k)
  OBVIOUS
<1> HIDE DEF s, rest, n, t, u, v, r, k
<1>11. ASSUME rest = <<>>, r # <<>> => IsQuery(u) \/ u.do = "discard", Go(r)
       PROVE  Concluded
  <2>1. r # <<>> => Reached(call.plugin, u, v, n, <<>>, rest)
    BY <1>11 DEF Reached
  <2>2. r # <<>> => Reached(call.plugin, At(r, 1), At(r, 2), n, <<>>, rest)
    BY <1>2, <2>1
  <2> QED
    BY <1>2, <1>11, <2>2, GoesOn DEF rest, n, k
<1>12. CASE t.do = "sysheader"
  <2>1. k = 1 /\ IsQuery(u) /\ v.do = "header"
    BY <1>2, <1>10, <1>12 DEF Place, LoginLeads
  <2> DEFINE e == Task("eof")
             y == Task("sysrow")
             l == <<e, y, e>> \o r
  <2>2. /\ LoginShape(call.plugin, l) /\ l # <<>> /\ At(l, 1) = e /\ At(l, 2) = y
        /\ e.do = "eof" /\ y.do = "sysrow"
    BY <1>2, <2>1, RowShapes
  <2>3. p.kind = "result" => Go(l)
    BY <1>6, <1>12
  <2> HIDE DEF l, e, y
  <2>4. Place(e, y, n)
    BY <1>3, <2>1, <2>2 DEF Place, IsQuery
  <2>5. Reached(call.plugin, At(l, 1), At(l, 2), n, <<>>, rest)
    BY <1>3, <2>2, <2>4 DEF Reached
  <2>6. CASE p.kind = "result"
    BY <2>2, <2>3, <2>5, <2>6, GoesOn DEF rest, n, k
  <2>7. CASE p.kind # "result"
    BY <1>1, <1>6, <1>8, <1>12, <2>7, SetupFails
  <2> QED
    BY <2>6, <2>7
<1>13. CASE t.do = "header"
  <2>1. k = 1 /\ u.do = "discard"
    BY <1>2, <1>10, <1>13 DEF Place, LoginLeads
  <2>2. p.kind = "result" \/ (p.kind \in {"ok", "err"} /\ rest = <<>>)
    BY <1>3, <2>1 DEF AnswerAt
  <2> DEFINE e == Task("eof")
             l == <<e, e>> \o r
  <2>3. LoginShape(call.plugin, l) /\ l # <<>> /\ At(l, 1) = e /\ At(l, 2) = e /\ e.do = "eof"
    BY <1>2, <2>1, RowShapes
  <2>4. CASE p.kind = "result"
    <3>1. Go(l)
      BY <1>1, <1>4, <1>13, <2>4 DEF Header, QueryLike, r
    <3> HIDE DEF l, e
    <3>2. Place(e, e, n)
      BY <1>3, <2>1, <2>3 DEF Place, IsQuery
    <3>3. Reached(call.plugin, At(l, 1), At(l, 2), n, <<>>, rest)
      BY <1>3, <2>3, <3>2 DEF Reached
    <3> QED
      BY <2>3, <3>1, <3>3, GoesOn DEF rest, n, k
  <2>5. CASE p.kind = "ok"
    <3>1. Go(r)
      BY <1>1, <1>4, <1>13, <2>5 DEF Header, QueryLike, r
    <3> QED
      BY <1>11, <2>1, <2>2, <2>5, <3>1
  <2>6. CASE p.kind = "err"
    <3>1. Return("mysql")
      BY <1>4, <1>8, <1>13, <2>6 DEF Header
    <3> QED
      BY <1>1, <1>8, <3>1, SetupFails
  <2> QED
    BY <2>2, <2>4, <2>5, <2>6
<1>14. CASE t.do = "sysrow"
  <2>1. k = 4 /\ u.do = "eof" /\ IsQuery(v)
    BY <1>2, <1>10, <1>14 DEF Place, LoginLeads
  <2>2. p.kind = "row"
    BY <1>3, <2>1 DEF AnswerAt
  <2>3. Go(r) /\ r # <<>>
    <3>1. u.do # "none"
      BY <2>1
    <3> QED
      BY <1>2, <1>7, <1>14, <2>2, <3>1
  <2>4. Place(u, v, n)
    BY <1>3, <2>1 DEF Place, IsQuery
  <2>5. Reached(call.plugin, At(r, 1), At(r, 2), n, <<>>, rest)
    BY <1>2, <1>3, <2>1, <2>4 DEF Reached
  <2> QED
    BY <1>2, <2>3, <2>5, GoesOn DEF rest, n, k
<1>15. CASE t.do = "eof"
  <2>1. \/ u.do = "eof" /\ v.do = "discard" /\ k \in {2, 3}
        \/ u.do = "sysrow" /\ k \in {2, 3}
        \/ u.do = "discard" /\ k \in {4, 5}
        \/ IsQuery(u) /\ k = 5
    BY <1>2, <1>10, <1>15 DEF Place, LoginLeads
  <2>2. /\ k = 2 => p.kind = "column"
        /\ k \in {3, 5} => p.kind = "eof"
        /\ k = 4 => p.kind = "row"
    BY <1>3, <2>1 DEF AnswerAt
  <2>3. IF p.kind = "eof" THEN Go(r) ELSE p.kind \in {"column", "row"} => Go(call.todo)
    BY <1>5, <1>15 DEF UntilEOF, IsError, r
  <2>4. CASE k \in {2, 4}
    <3> DEFINE l == call.todo
    <3>1. Go(l) /\ LoginShape(call.plugin, l) /\ l # <<>> /\ At(l, 1) = t /\ At(l, 2) = u
      BY <1>1, <1>2, <2>2, <2>3, <2>4 DEF u
    <3> HIDE DEF l
    <3>2. Place(t, u, n)
      BY <1>3, <1>15, <2>1, <2>4 DEF Place, IsQuery
    <3>3. Reached(call.plugin, At(l, 1), At(l, 2), n, <<>>, rest)
      BY <1>3, <1>15, <3>1, <3>2 DEF Reached
    <3> QED
      BY <3>1, <3>3, GoesOn DEF rest, n, k
  <2>5. CASE k = 3
    <3>1. Go(r) /\ r # <<>> /\ (u.do = "sysrow" \/ (u.do = "eof" /\ v.do = "discard"))
      <4>1. u.do # "none"
        BY <2>1, <2>5
      <4> QED
        BY <1>2, <2>1, <2>2, <2>3, <2>5, <4>1
    <3>2. Place(u, v, n)
      BY <1>3, <2>5, <3>1 DEF Place, IsQuery
    <3>3. Reached(call.plugin, At(r, 1), At(r, 2), n, <<>>, rest)
      BY <1>2, <1>3, <3>1, <3>2 DEF Reached
    <3> QED
      BY <1>2, <3>1, <3>3, GoesOn DEF rest, n, k
  <2>6. CASE k = 5
    <3>1. Go(r) /\ (IsQuery(u) \/ u.do = "discard")
      BY <2>1, <2>2, <2>3, <2>6
    <3> QED
      BY <1>3, <1>11, <2>6, <3>1
  <2> QED
    BY <2>1, <2>4, <2>5, <2>6
<1>16. t.do \in {"sysheader", "header", "eof", "sysrow"}
  BY DEF t
<1> QED
  BY <1>12, <1>13, <1>14, <1>15, <1>16

LEMMA GoesJoin ==
    ASSUME NEW p, Receives(p), server.accepted
    PROVE  Concluded
BY AcceptedIs, AcceptedLogin, AcceptedRows

-----------------------------------------------------------------------------
(* Connect writes a packet.                                                *)
LEMMA KeyAsked ==
    ASSUME Joining, First.do = "write", ~server.accepted, At(call.todo, 2).do = "key",
           NEW o, o = net.out \/ \E c : c.arg = "requestKey" /\ o = Append(net.out, c)
    PROVE  AsksKey(o)
<1>1. Attempt /\ First = Head(call.todo) /\ net.out \in Seq(CommandType)
  BY JoiningIs DEF Joining, TypeOK, NetType
<1>2. \A i \in 1..Len(net.out) : net.out[i].cmd = "ssl"
  BY <1>1 DEF Attempt, OneExchange, LoginReads, Gates
<1>3. AsksKey(net.out)
  BY <1>2 DEF AsksKey
<1>4. ASSUME NEW c, c.arg = "requestKey", o = Append(net.out, c)
      PROVE  AsksKey(o)
  <2> DEFINE m == net.out
  <2>1. m \in Seq(CommandType \cup {c}) /\ c \in CommandType \cup {c}
    BY <1>1
  <2> HIDE DEF m
  <2>2. \A i \in 1..Len(Append(m, c)) :
           \/ i \in 1..Len(m) /\ Append(m, c)[i] = m[i]
           \/ Append(m, c)[i] = c
    BY <2>1, Appended
  <2>3. o = Append(m, c) /\ AsksKey(m)
    BY <1>3, <1>4 DEF m
  <2> QED
    BY <1>4, <2>2, <2>3 DEF AsksKey
<1> QED
  BY <1>3, <1>4

LEMMA WriteLooksAt ==
    ASSUME Joining, First.do = "write"
    PROVE  LET t == First
               u == At(call.todo, 2)
               r == Tail(call.todo)
           IN  /\ u.do # "none" /\ r # <<>> /\ At(r, 1) = u /\ At(r, 2) = At(call.todo, 3)
               /\ LoginShape(call.plugin, r)
               /\ u.do = "key" => ~server.accepted /\ t.arg = "requestKey"
               /\ server.accepted =>
                     /\ IsQuery(t) /\ u.do \in {"sysheader", "header"}
                     /\ net.out = <<>> /\ Stream = <<>>
<1> DEFINE t == First
           u == At(call.todo, 2)
<1>1. LoginLeads(call.plugin, t, u, At(call.todo, 3))
  BY JoiningIs
<1>2. \/ t.cmd = "ssl" /\ u.do = "tls"
      \/ t.cmd = "response" /\ u.do = "authResult"
      \/ t.cmd = "secret" /\ u.do \in {"authResult2", "ok"}
      \/ t.cmd = "secret" /\ u.do = "key" /\ t.arg = "requestKey"
      \/ IsQuery(t) /\ u.do \in {"sysheader", "header"}
  BY <1>1 DEF LoginLeads
<1>3. server.accepted => IsQuery(t) /\ net.out = <<>> /\ Stream = <<>>
  BY JoiningIs DEF Reached
<1>4. /\ u.do # "none"
      /\ u.do = "key" => ~server.accepted /\ t.arg = "requestKey"
      /\ server.accepted => u.do \in {"sysheader", "header"}
  BY <1>2, <1>3 DEF IsQuery
<1> HIDE DEF t, u
<1>5. /\ LoginShape(call.plugin, Tail(call.todo)) /\ At(Tail(call.todo), 1) = u
      /\ At(Tail(call.todo), 2) = At(call.todo, 3) /\ (u.do = "none" <=> Tail(call.todo) = <<>>)
  BY JoiningIs DEF u
<1> QED
  BY <1>3, <1>4, <1>5 DEF t, u

LEMMA SentJoins ==
    ASSUME Joining, Doing("write"), Sent(Head(call.todo)), server' = server
    PROVE  Concluded
<1> DEFINE w == Head(call.todo)
           u == At(call.todo, 2)
           v == At(call.todo, 3)
           r == Tail(call.todo)
           seq == Numbered(w)
           c == [cmd |-> w.cmd, arg |-> w.arg, seq |-> seq, of |-> Owner]
           o == IF net.up /\ w.last THEN Append(net.out, c) ELSE net.out
<1>1. /\ First = w /\ w.do = "write" /\ call.todo # <<>> /\ Go(r)
      /\ net \in NetType /\ mc \in ConnType /\ Joining
  BY JoiningIs DEF Doing, Sent, Joining, TypeOK
<1>2. /\ u.do # "none" /\ r # <<>> /\ At(r, 1) = u /\ At(r, 2) = v /\ LoginShape(call.plugin, r)
      /\ u.do = "key" => ~server.accepted /\ w.arg = "requestKey"
      /\ server.accepted =>
            /\ IsQuery(w) /\ u.do \in {"sysheader", "header"} /\ net.out = <<>> /\ Stream = <<>>
  BY <1>1, WriteLooksAt
<1>3. net' = [net EXCEPT !.out = o] /\ mc' = [mc EXCEPT !.sequence = (seq + 1) % 256, !.reset = FALSE]
  BY DEF Sent
<1>4. c.arg = w.arg /\ c.cmd = w.cmd /\ c.seq = seq
  OBVIOUS
<1>5. o = Append(net.out, c) \/ o = net.out
  OBVIOUS
<1> HIDE DEF o, c
<1>6. net'.out = o /\ net'.buf = net.buf /\ net'.wire = net.wire
  BY <1>1, <1>3 DEF NetType
<1>7. Stream' = Stream
  BY <1>6 DEF Stream
<1>8. server.accepted => seq = 0
  BY <1>2 DEF Numbered, IsQuery
<1>9. server.accepted => mc'.sequence = 1
  <2> DEFINE q == (seq + 1) % 256
  <2>1. server.accepted => q = 1
    <3>1. (0 + 1) % 256 = 1
      OBVIOUS
    <3> QED
      BY <1>8, <3>1
  <2>2. mc' = [mc EXCEPT !.sequence = q, !.reset = FALSE]
    BY <1>3
  <2> HIDE DEF q
  <2>3. mc'.sequence = q
    BY <1>1, <2>2 DEF ConnType
  <2> QED
    BY <2>1, <2>3
<1> HIDE DEF w, seq, u, v, r
<1>10. ~server.accepted /\ u.do = "key" => AsksKey(o)
  BY <1>1, <1>2, <1>4, <1>5, KeyAsked DEF u
<1>11. ASSUME server.accepted
       PROVE  Reached(call.plugin, u, v, 1, o, Stream)
  <2>1. Stream = <<>> /\ u.do \in {"sysheader", "header"} /\ net.out = <<>> /\ w.cmd = "query" /\ seq = 0
    BY <1>2, <1>8, <1>11 DEF IsQuery
  <2>2. Answered(<<>>, 1)
    BY DEF Answered
  <2>3. Place(u, v, 1)
    BY <2>1 DEF Place
  <2>4. o = <<>> \/ Asked(o, <<>>)
    <3>1. CASE o = Append(net.out, c)
      <4>1. o = <<c>>
        BY <2>1, <3>1
      <4>2. Len(o) = 1 /\ o[1] = c
        BY <4>1
      <4> QED
        BY <1>4, <2>1, <4>2 DEF Asked
    <3> QED
      BY <1>5, <2>1, <3>1
  <2> QED
    BY <2>1, <2>2, <2>3, <2>4 DEF Reached
<1>12. ~server.accepted /\ At(r, 1).do = "key" => AsksKey(net'.out)
  BY <1>2, <1>6, <1>10
<1>13. server.accepted => Reached(call.plugin, At(r, 1), At(r, 2), mc'.sequence, net'.out, Stream')
  BY <1>2, <1>6, <1>7, <1>9, <1>11
<1> QED
  BY <1>1, <1>2, <1>12, <1>13, SetupGoes DEF r

LEMMA UnsentJoins ==
    ASSUME Joining, Doing("write"), NothingWritten \/ PartWritten, server' = server
    PROVE  Concluded
<1> DEFINE u == At(call.todo, 2)
           r == Tail(call.todo)
<1>1. /\ First = Head(call.todo) /\ First.do = "write" /\ Joining /\ call.todo \in Seq(TaskType)
      /\ net \in NetType
  BY JoiningIs DEF Doing, Joining, TypeOK
<1>2. \E err \in {"ctx", "nowrite", "invalid"} : Fails(err)
  BY DEF NothingWritten, PartWritten
<1>3. net'.out = net.out
  BY <1>1 DEF NothingWritten, PartWritten, Dropped, NetType
<1>4. Len(call.todo) > 1 => call.todo[2] = u
  <2>1. Len(call.todo) \in Nat
    BY <1>1
  <2> QED
    BY <2>1 DEF At
<1>5. {"ctx", "nowrite", "invalid"} \subseteq Errors \ {"running", "nil"}
  BY DEF Errors
<1>6. CASE Len(call.todo) > 1 /\ call.todo[2].do = "key"
  <2>1. Go(r) /\ u.do = "key"
    BY <1>2, <1>4, <1>6 DEF Fails
  <2>2. r # <<>> /\ At(r, 1) = u /\ LoginShape(call.plugin, r) /\ ~server.accepted
    BY <1>1, <2>1, WriteLooksAt
  <2>3. AsksKey(net'.out)
    BY <1>1, <1>3, <2>1, <2>2, KeyAsked
  <2> HIDE DEF r, u
  <2> QED
    BY <1>1, <2>1, <2>2, <2>3, SetupGoes
<1>7. CASE ~(Len(call.todo) > 1 /\ call.todo[2].do = "key")
  <2>1. \E err \in {"ctx", "nowrite", "invalid"} : Return(err)
    BY <1>2, <1>7 DEF Fails
  <2> QED
    BY <1>1, <1>5, <2>1, SetupFails
<1> QED
  BY <1>6, <1>7

LEMMA WriteJoins ==
    ASSUME Joining, Write
    PROVE  Concluded
<1>1. ~mc.reset /\ call.name = "Connect"
  BY JoiningIs DEF Joining
<1>2. Doing("write") /\ server' = server /\ (Sent(Head(call.todo)) \/ NothingWritten \/ PartWritten)
  BY <1>1 DEF Write, TooLarge, Stale
<1> QED
  BY <1>2, SentJoins, UnsentJoins

LEMMA MovesJoin ==
    ASSUME TypeOK, call.name = "Connect", SoloInv, LoginInv, SetupInv, Moves \/ Finish
    PROVE  SetupInv'
<1>1. ~mc'.more /\ Flagless(Stream')
  BY SetupConn, SetupStream
<1>2. call'.name = "Connect"
  BY ClientStays DEF Stays
<1>3. call.todo # <<>> /\ (call.err # "running" <=> Cleanup \/ Finish)
  BY OnlyEnds
<1>4. CASE call.err # "running"
  BY <1>1, <1>2, <1>3, <1>4, EndingJoins, ConcludedIs
<1>5. CASE call.err = "running"
  <2>1. Joining
    BY <1>3, <1>5 DEF Joining
  <2>2. ReadPacket => Concluded
    <3>1. ReadPacket => \E p : Receives(p)
      BY <2>1, ConnectReceives
    <3> QED
      BY <3>1, TriesJoin, GoesJoin
  <2>3. Concluded
    BY <1>3, <1>5, <2>1, <2>2, FailuresJoin, TLSJoins, StepJoins, WriteJoins DEF Moves
  <2> QED
    BY <1>1, <1>2, <2>3, ConcludedIs
<1> QED
  BY <1>4, <1>5

-----------------------------------------------------------------------------
(* The server answers Connect.                                             *)
LEMMA StatementAnswer ==
    ASSUME NEW a \in {Error, Ok(FALSE), Variable}
    PROVE  /\ a \in Seq(PacketType) /\ Len(a) \in {1, 5} /\ Flagless(a)
           /\ Len(a) = 1 => a[1].kind \in {"ok", "err"}
           /\ Len(a) = 5 => /\ a[1].kind = "result" /\ a[2].kind = "column" /\ a[3].kind = "eof"
                            /\ a[4].kind = "row" /\ a[5].kind = "eof"
<1>1. /\ Error \in Seq(PacketType) /\ Len(Error) = 1 /\ Error[1].kind = "err"
      /\ Ok(FALSE) \in Seq(PacketType) /\ Len(Ok(FALSE)) = 1 /\ Ok(FALSE)[1].kind = "ok" /\ ~Ok(FALSE)[1].flag
  BY PlainOnes, OkIs DEF Chain
<1> DEFINE r == Variable
<1>2. /\ r \in Seq(PacketType) /\ Len(r) = 5
      /\ r[1].kind = "result" /\ r[2].kind = "column" /\ r[3].kind = "eof" /\ ~r[3].flag /\ r[4].kind = "row"
      /\ r[5].kind = "eof" /\ ~r[5].flag
  BY VariableOfOne
<1>3. a = Error \/ a = Ok(FALSE) \/ a = r
  OBVIOUS
<1> HIDE DEF r
<1>5. CASE a = r
  <2>1. \A i \in 1..5 : i = 1 \/ i = 2 \/ i = 3 \/ i = 4 \/ i = 5
    OBVIOUS
  <2>2. Flagless(a)
    BY <1>2, <1>5, <2>1 DEF Flagless
  <2> QED
    BY <1>2, <1>5, <2>2
<1>6. CASE a = Error \/ a = Ok(FALSE)
  <2>1. a \in Seq(PacketType) /\ Len(a) = 1 /\ a[1].kind \in {"ok", "err"} /\ (a[1].kind = "ok" => ~a[1].flag)
    BY <1>1, <1>6
  <2>2. Flagless(a)
    BY <2>1 DEF Flagless
  <2> QED
    BY <2>1, <2>2
<1> QED
  BY <1>3, <1>5, <1>6

LEMMA LoginAnswer ==
    ASSUME NEW seen, NEW p, NEW f, NEW a \in AuthAnswers(p, f) \cup Switches(seen)
    PROVE  /\ a \in Seq(PacketType) /\ a # <<>> /\ Flagless(a)
           /\ a[Len(a)].kind = "ok" =>
                 /\ ~(f = "requestKey" /\ p = "caching")
                 /\ \/ Len(a) = 1 /\ a[1].kind = "ok"
                    \/ /\ Len(a) = 2 /\ a[1].kind = "more" /\ a[1].arg = "fast" /\ a[2].kind = "ok"
                       /\ p = "caching"
<1>1. AuthAnswer(a, p, f)
  BY AuthAnswerIs, Zenon
<1>2. /\ a \in Seq(PacketType) /\ a # <<>>
      /\ \/ Len(a) = 1 /\ ~a[1].flag
         \/ Len(a) = 2 /\ ~a[1].flag /\ ~a[2].flag
      /\ a[Len(a)].kind = "ok" =>
            \/ Len(a) = 1 /\ a[1].kind = "ok"
            \/ /\ Len(a) = 2 /\ a[1].kind = "more" /\ a[1].arg = "fast" /\ a[2].kind = "ok"
               /\ p = "caching"
  BY <1>1 DEF AuthAnswer
<1>3. Flagless(a)
  <2>1. \A i \in 1..2 : i = 1 \/ i = 2
    OBVIOUS
  <2> QED
    BY <1>2, <2>1 DEF Flagless
<1>4. ASSUME f = "requestKey", p = "caching"
      PROVE  a[Len(a)].kind # "ok"
  <2>1. a \in {<<Packet("key", "none")>>} \cup {<<Packet("switch", q)>> : q \in Plugins}
    BY <1>4 DEF AuthAnswers, Switches
  <2>2. ASSUME NEW q, NEW kind \in {"key", "switch"}, a = <<Packet(kind, q)>>
        PROVE  a[Len(a)].kind # "ok"
    <3>1. Packet(kind, q).kind = kind
      BY DEF Packet
    <3>2. Len(a) = 1 /\ a[1] = Packet(kind, q)
      BY <2>2
    <3> QED
      BY <3>1, <3>2
  <2> QED
    BY <2>1, <2>2
<1> QED
  BY <1>2, <1>3, <1>4

LEMMA NumberedAnswer ==
    ASSUME NEW a \in {Error, Ok(FALSE), Variable}, NEW c \in CommandType, c.seq = 0
    PROVE  Answered(Numbering(a, c), 1)
<1> DEFINE s == Numbering(a, c)
<1>1. /\ a \in Seq(PacketType) /\ Len(a) \in {1, 5}
      /\ Len(a) = 1 => a[1].kind \in {"ok", "err"}
      /\ Len(a) = 5 => /\ a[1].kind = "result" /\ a[2].kind = "column" /\ a[3].kind = "eof"
                       /\ a[4].kind = "row" /\ a[5].kind = "eof"
  BY StatementAnswer
<1>2. Len(s) = Len(a) /\ \A i \in 1..Len(a) : s[i].kind = a[i].kind /\ s[i].seq = i
  <2>1. Len(s) = Len(a) /\ \A i \in 1..Len(a) : s[i].kind = a[i].kind
    BY <1>1, NumberingIs
  <2>2. \A i \in 1..5 : i = 1 \/ i = 2 \/ i = 3 \/ i = 4 \/ i = 5
    OBVIOUS
  <2>3. \A i \in 1..Len(a) : a[i].kind # "field"
    BY <1>1, <2>2
  <2>4. \A i \in 1..Len(a) : s[i].seq = (c.seq + i) % 256
    BY <1>1, <2>3, PlainNumbers
  <2>5. ASSUME NEW i \in 1..Len(a)
        PROVE  (c.seq + i) % 256 = i
    <3>1. i \in 1..5
      <4> DEFINE m == Len(a)
      <4>1. m \in {1, 5} /\ i \in 1..m
        BY <1>1
      <4> HIDE DEF m
      <4> QED
        BY <4>1
    <3>2. c.seq + i = i /\ i % 256 = i
      BY <3>1
    <3> QED
      BY <3>2
  <2> QED
    BY <2>1, <2>4, <2>5
<1> HIDE DEF s
<1>3. SUFFICES ASSUME NEW i \in 1..Len(s)
               PROVE  AnswerAt(s[i], 1 + i - 1, Len(s) = 1)
  BY DEF Answered, s
<1>4. i \in Nat /\ 1 + i - 1 = i /\ s[i].seq = i /\ s[i].kind = a[i].kind /\ i <= 5
  <2>1. i \in 1..Len(a) /\ Len(a) \in {1, 5}
    BY <1>1, <1>2
  <2> QED
    BY <1>2, <2>1
<1>5. CASE Len(a) = 1
  <2>1. i = 1
    BY <1>2, <1>5
  <2> QED
    BY <1>1, <1>2, <1>4, <1>5, <2>1 DEF AnswerAt
<1>6. CASE Len(a) = 5
  <2>1. i = 1 \/ i = 2 \/ i = 3 \/ i = 4 \/ i = 5
    BY <1>2, <1>6
  <2> QED
    BY <1>1, <1>2, <1>4, <1>6, <2>1 DEF AnswerAt
<1> QED
  BY <1>1, <1>5, <1>6

LEMMA FlaglessConcat ==
    ASSUME NEW s \in Seq(PacketType), NEW t \in Seq(PacketType), Flagless(s), Flagless(t)
    PROVE  Flagless(s \o t)
<1> DEFINE x == s \o t
           n == Len(s)
           m == Len(t)
<1>1. /\ Len(x) = n + m /\ n \in Nat /\ m \in Nat
      /\ \A i \in 1..n : x[i] = s[i]
      /\ \A i \in 1..m : x[n + i] = t[i]
  BY ConcatIs
<1>2. (\A i \in 1..n : s[i].kind \in {"ok", "eof"} => ~s[i].flag)
      /\ \A i \in 1..m : t[i].kind \in {"ok", "eof"} => ~t[i].flag
  BY DEF Flagless
<1> HIDE DEF x, n, m
<1>3. ASSUME NEW i \in 1..Len(x)
      PROVE  x[i].kind \in {"ok", "eof"} => ~x[i].flag
  <2>1. i \in 1..n \/ (i - n \in 1..m /\ n + (i - n) = i)
    BY <1>1
  <2> QED
    BY <1>1, <1>2, <2>1
<1> QED
  BY <1>3 DEF Flagless, x

LEMMA NothingThen ==
    ASSUME NEW s \in Seq(PacketType), s = <<>>, NEW b \in Seq(PacketType)
    PROVE  s \o b = b
<1>1. <<>> \o b = b
  BY ConcatEmptySeq
<1> QED
  BY <1>1

LEMMA ServerSetup ==
    ASSUME TypeOK, ~Pooled, SoloInv, LoginInv, SetupInv, Server
    PROVE  SetupInv'
<1> DEFINE c == Head(net.out)
           o == net.out
<1>1. o # <<>> /\ o \in Seq(CommandType) /\ c = o[1] /\ c \in CommandType /\ 1 \in 1..Len(o)
  BY SeqBasics DEF Server, TypeOK, NetType
<1>2. call.name = "Connect" /\ AllLogin(call.todo)
  BY <1>1 DEF SoloInv, NothingYet
<1>3. c.cmd \in LoginCommands
  BY <1>1 DEF SoloInv
<1>4. PICK a \in Seq(PacketType) :
         /\ net'.wire = IF net.up /\ ~mc.closed THEN net.wire \o Numbering(a, c) ELSE net.wire
         /\ IF c.cmd \in {"response", "secret"}
            THEN a \in AuthAnswers(call.plugin, c.arg) \cup Switches(c.cmd)
            ELSE IF c.cmd = "query" THEN a \in {Error, Ok(FALSE), Variable} ELSE a = <<>>
         /\ server'.accepted => \/ server.accepted
                                \/ c.cmd \in {"response", "secret"} /\ a[Len(a)].kind = "ok"
         /\ server.accepted => server'.accepted
  BY <1>1, <1>2, <1>3, AnswerOfConnect
<1>5. net'.out = Tail(o) /\ net'.buf = net.buf /\ UNCHANGED <<mc, call, held>>
  BY <1>1, <1>2, <1>3, AnswerOfConnect
<1> DEFINE b == Numbering(a, c)
<1>6. b \in Seq(PacketType) /\ Flagless(b)
  <2>1. Flagless(a)
    <3>1. CASE c.cmd \in {"response", "secret"}
      <4>1. a \in AuthAnswers(call.plugin, c.arg) \cup Switches(c.cmd)
        BY <1>4, <3>1
      <4> HIDE DEF c
      <4> QED
        BY <4>1, LoginAnswer, Zenon
    <3>2. CASE c.cmd = "query"
      <4>1. a \in {Error, Ok(FALSE), Variable}
        BY <1>4, <3>2
      <4> QED
        BY <4>1, StatementAnswer, Zenon
    <3>3. CASE c.cmd \notin {"response", "secret", "query"}
      <4>1. a = <<>>
        BY <1>4, <3>3
      <4> QED
        BY <4>1 DEF Flagless
    <3> QED
      BY <3>1, <3>2, <3>3
  <2> HIDE DEF c
  <2>2. Len(b) = Len(a) /\ b \in Seq(PacketType) /\ \A i \in 1..Len(a) : b[i].kind = a[i].kind /\ b[i].flag = a[i].flag
    BY <1>1, NumberingIs
  <2> QED
    BY <2>1, <2>2 DEF Flagless
<1>7. Stream \in Seq(PacketType) /\ net.buf \in Seq(PacketType) /\ net.wire \in Seq(PacketType)
      /\ Stream = net.buf \o net.wire /\ Stream' = net'.buf \o net'.wire
  BY StreamTyped DEF Stream
<1> HIDE DEF b, o
<1>8. Stream' = Stream \o b \/ Stream' = Stream
  <2> DEFINE f == net.buf
             w == net.wire
  <2>1. net'.wire = w \o b \/ net'.wire = w
    BY <1>4 DEF b
  <2>2. f \in Seq(PacketType) /\ w \in Seq(PacketType) /\ Stream = f \o w /\ Stream' = f \o net'.wire
    BY <1>5, <1>7
  <2> HIDE DEF f, w
  <2>3. (f \o w) \o b = f \o (w \o b)
    BY <1>6, <2>2, ThreeParts, SMTT(30)
  <2> QED
    BY <2>1, <2>2, <2>3
<1>9. ~mc.more /\ Flagless(Stream)
  BY DEF SetupInv
<1>10. ~mc'.more /\ Flagless(Stream')
  <2> DEFINE s == Stream
  <2>1. s \in Seq(PacketType) /\ Flagless(s)
    BY <1>7, <1>9
  <2> HIDE DEF s
  <2>2. Flagless(s \o b)
    BY <1>6, <2>1, FlaglessConcat
  <2> QED
    BY <1>5, <1>8, <1>9, <2>2 DEF s
<1>11. ASSUME call.err = "running"
       PROVE  Succeeding'
  <2> DEFINE t == First
             u == At(call.todo, 2)
  <2>1. Succeeding
    BY <1>2, <1>11 DEF SetupInv, Pooled
  <2>2. call.todo # <<>> /\ LoginShape(call.plugin, call.todo)
    BY <2>1 DEF Succeeding
  <2>3. Joining
    BY <1>2, <1>11, <2>2 DEF Joining
  <2>4. /\ t = Head(call.todo) /\ t \in TaskType
        /\ LoginLeads(call.plugin, t, u, At(call.todo, 3))
        /\ ~server.accepted => Attempt /\ (t.do = "key" => AsksKey(net.out))
        /\ server.accepted => Reached(call.plugin, t, u, mc.sequence, net.out, Stream)
    BY <2>3, JoiningIs
  <2>5. UNCHANGED call /\ t' = t /\ u' = u /\ mc' = mc
    BY <1>5 DEF First
  <2> HIDE DEF t, u
  <2>6. ASSUME ~server'.accepted, t.do = "key"
        PROVE  AsksKey(net'.out)
    <3>1. AsksKey(o)
      BY <1>4, <2>4, <2>6 DEF o
    <3>2. \A i \in 1..Len(Tail(o)) : Tail(o)[i] = o[i + 1] /\ i + 1 \in 1..Len(o)
      BY <1>1, SeqBasics
    <3> QED
      BY <1>5, <3>1, <3>2 DEF AsksKey
  <2>7. ASSUME server.accepted
        PROVE  Reached(call.plugin, t, u, mc.sequence, net'.out, Stream')
    <3>1. /\ t.do \in {"sysheader", "header"} /\ Asked(o, Stream)
          /\ Place(t, u, mc.sequence)
      BY <1>1, <2>4, <2>7 DEF Reached, o
    <3>2. Stream = <<>> /\ Len(o) = 1 /\ c.cmd = "query" /\ c.seq = 0 /\ mc.sequence = 1
      BY <1>1, <3>1 DEF Asked, Place
    <3>3. Tail(o) = <<>>
      <4>1. Len(Tail(o)) = 0 /\ Tail(o) \in Seq(CommandType)
        BY <1>1, <3>2, SeqBasics
      <4> QED
        BY <4>1, SeqBasics
    <3>4. Answered(b, 1)
      <4>1. a \in {Error, Ok(FALSE), Variable}
        BY <1>4, <3>2
      <4> HIDE DEF c
      <4> QED
        BY <1>1, <3>2, <4>1, NumberedAnswer DEF b
    <3>5. Answered(<<>>, 1)
      BY DEF Answered
    <3>6. Stream' = b \/ Stream' = <<>>
      BY <1>6, <1>7, <1>8, <3>2, NothingThen
    <3>7. Answered(Stream', 1)
      BY <3>4, <3>5, <3>6
    <3> QED
      BY <1>5, <3>1, <3>2, <3>3, <3>7 DEF Reached
  <2>8. ASSUME ~server.accepted, server'.accepted
        PROVE  Reached(call.plugin, t, u, mc.sequence, net'.out, Stream')
    <3>1. c.cmd \in {"response", "secret"} /\ a[Len(a)].kind = "ok"
          /\ a \in AuthAnswers(call.plugin, c.arg) \cup Switches(c.cmd)
      BY <1>4, <2>8
    <3>2. /\ ~(c.arg = "requestKey" /\ call.plugin = "caching")
          /\ \/ Len(a) = 1 /\ a[1].kind = "ok"
             \/ /\ Len(a) = 2 /\ a[1].kind = "more" /\ a[1].arg = "fast" /\ a[2].kind = "ok"
                /\ call.plugin = "caching"
      <4> HIDE DEF c
      <4>1. /\ ~(c.arg = "requestKey" /\ call.plugin = "caching")
            /\ \/ Len(a) = 1 /\ a[1].kind = "ok"
               \/ /\ Len(a) = 2 /\ a[1].kind = "more" /\ a[1].arg = "fast" /\ a[2].kind = "ok"
                  /\ call.plugin = "caching"
        BY <3>1, LoginAnswer, SMTT(30)
      <4> QED
        BY <4>1
    <3>3. OneExchange
      BY <2>4, <2>8 DEF Attempt
    <3>4. /\ net.buf = <<>> /\ net.wire = <<>>
          /\ 1 # Len(o) => o[1].cmd = "ssl"
          /\ t.do \in LoginReads
      <4>1. net.wire # <<>> => net.out = <<>>
        BY <3>3 DEF OneExchange
      <4>2. \A i \in 1..Len(net.out) : i # Len(net.out) => net.out[i].cmd = "ssl"
        BY <3>3 DEF OneExchange
      <4>3. Head(call.todo).do \notin LoginReads => \A i \in 1..Len(net.out) : net.out[i].cmd = "ssl"
        BY <3>3 DEF OneExchange
      <4> QED
        BY <1>1, <2>4, <3>1, <3>3, <4>1, <4>2, <4>3 DEF OneExchange, o
    <3>5. Len(o) = 1
      BY <1>1, <3>1, <3>4
    <3>6. Tail(o) = <<>>
      <4>1. Len(Tail(o)) = 0 /\ Tail(o) \in Seq(CommandType)
        BY <1>1, <3>5, SeqBasics
      <4> QED
        BY <4>1, SeqBasics
    <3>7. Stream = <<>>
      <4>1. Len(net.buf) = 0 /\ Len(net.wire) = 0
        BY <3>4
      <4>2. Len(Stream) = 0
        BY <4>1, StreamTyped
      <4> QED
        BY <1>7, <4>2, SeqBasics
    <3>8. Stream' = b \/ Stream' = <<>>
      BY <1>6, <1>7, <1>8, <3>7, NothingThen
    <3>9. t.do # "handshake"
      <4>1. OfLogin(t)
        BY <1>2, <2>2, <2>4 DEF AllLogin, Joining, TypeOK, CallType, t, First, At
      <4> QED
        BY <4>1 DEF OfLogin, LoginTasks
    <3>10. t.do # "key"
      <4>1. ASSUME t.do = "key"
            PROVE  FALSE
        <5>1. AsksKey(o) /\ call.plugin = "caching"
          BY <2>4, <2>8, <4>1 DEF o, LoginLeads
        <5>2. c.arg = "requestKey"
          BY <1>1, <3>1, <5>1 DEF AsksKey
        <5> QED
          BY <3>2, <5>1, <5>2
      <4> QED
        BY <4>1
    <3>11. t.do \in {"authResult", "authResult2", "ok"}
      BY <3>4, <3>9, <3>10 DEF LoginReads, Gates
    <3>12. Accepting(call.plugin, b)
      <4> HIDE DEF c
      <4>1. /\ Len(b) = Len(a) /\ Len(a) \in Nat
            /\ \A i \in 1..Len(a) : b[i].kind = a[i].kind /\ b[i].arg = a[i].arg
        BY <1>1, NumberingIs, NumberingTyped DEF b
      <4>2. CASE Len(a) = 1 /\ a[1].kind = "ok"
        <5>1. 1 \in 1..Len(a)
          BY <4>2
        <5> QED
          BY <4>1, <4>2, <5>1 DEF Accepting
      <4>3. CASE /\ Len(a) = 2 /\ a[1].kind = "more" /\ a[1].arg = "fast" /\ a[2].kind = "ok"
                 /\ call.plugin = "caching"
        <5>1. 1 \in 1..Len(a) /\ 2 \in 1..Len(a)
          BY <4>3
        <5> QED
          BY <4>1, <4>3, <5>1 DEF Accepting
      <4> QED
        BY <3>2, <4>2, <4>3
    <3>13. Accepting(call.plugin, Stream')
      BY <3>8, <3>12 DEF Accepting
    <3> QED
      BY <1>5, <3>6, <3>11, <3>13 DEF Reached
  <2>9. server'.accepted => Reached(call.plugin, t, u, mc.sequence, net'.out, Stream')
    BY <2>7, <2>8
  <2>10. /\ ~server'.accepted /\ t'.do = "key" => AsksKey(net'.out)
         /\ server'.accepted => Reached(call'.plugin, t', u', mc'.sequence, net'.out, Stream')
    BY <2>5, <2>6, <2>9
  <2>11. call'.todo # <<>> /\ LoginShape(call'.plugin, call'.todo)
    BY <2>2, <2>5
  <2> QED
    BY <2>10, <2>11 DEF Succeeding, t, u
<1>12. call.err # "nil"
  BY <1>1, <1>2 DEF SetupInv, Pooled, o
<1>13. call.err \notin {"running", "nil", "early"} =>
          mc.closed \/ \E i \in 1..Len(call.todo) : call.todo[i].do = "cleanup"
  BY <1>2 DEF SetupInv, Pooled
<1>14. /\ call'.name = "Connect" /\ (call'.err = "running" => Succeeding') /\ call'.err # "nil"
       /\ call'.err \notin {"running", "nil", "early"} =>
             mc'.closed \/ \E i \in 1..Len(call'.todo) : call'.todo[i].do = "cleanup"
  BY <1>2, <1>5, <1>11, <1>12, <1>13
<1> QED
  BY <1>10, <1>14 DEF SetupInv

-----------------------------------------------------------------------------
LEMMA ReachedShrinks ==
    ASSUME NEW plugin, NEW t, NEW u, NEW k \in Nat, NEW o, NEW p, p = o \/ p = <<>>,
           NEW s \in Seq(PacketType), NEW r \in Seq(PacketType), Part(r, s),
           Reached(plugin, t, u, k, o, s)
    PROVE  Reached(plugin, t, u, k, p, r)
<1>1. /\ Len(r) \in Nat /\ Len(s) \in Nat /\ Len(r) <= Len(s)
      /\ (r = <<>> <=> Len(r) = 0) /\ (s = <<>> <=> Len(s) = 0)
      /\ \A i \in 1..Len(r) : r[i] = s[i] /\ i \in 1..Len(s)
  BY SeqBasics DEF Part
<1>2. Len(r) > 0 => r[1] = s[1]
  BY <1>1
<1>3. Len(r) > 1 => r[2] = s[2]
  BY <1>1
<1>4. Accepting(plugin, s) => Accepting(plugin, r)
  <2>1. CASE Len(r) = 0
    BY <1>1, <2>1 DEF Accepting
  <2>2. CASE Len(r) > 0
    <3>1. s # <<>> /\ r[1] = s[1]
      BY <1>1, <1>2, <2>2
    <3>2. Len(s) = 1 => Len(r) = 1
      BY <1>1, <2>2
    <3>3. Len(s) = 2 => Len(r) = 1 \/ (Len(r) = 2 /\ r[2] = s[2])
      <4> DEFINE m == Len(r)
                 n == Len(s)
      <4>0. m \in Nat /\ n \in Nat /\ m <= n /\ m > 0
        BY <1>1, <2>2
      <4>1. n = 2 => m = 1 \/ m = 2
        <5> HIDE DEF m, n
        <5> QED
          BY <4>0
      <4>2. Len(r) = 2 => r[2] = s[2]
        BY <1>1, <1>3
      <4> QED
        BY <4>1, <4>2
    <3>4. CASE s[1].kind = "ok" /\ Len(s) = 1
      <4>1. r[1].kind = "ok" /\ Len(r) = 1
        BY <3>1, <3>2, <3>4, Zenon
      <4> QED
        BY <4>1, Zenon DEF Accepting
    <3>5. CASE /\ s[1].kind = "more" /\ s[1].arg = "fast" /\ plugin = "caching"
               /\ Len(s) = 1 \/ (Len(s) = 2 /\ s[2].kind = "ok")
      <4>1. r[1].kind = "more" /\ r[1].arg = "fast" /\ plugin = "caching"
        BY <3>1, <3>5, Zenon
      <4>2. CASE Len(s) = 1
        BY <3>2, <4>1, <4>2, Zenon DEF Accepting
      <4>3. CASE Len(s) = 2 /\ s[2].kind = "ok"
        <5>1. Len(r) = 1 \/ (Len(r) = 2 /\ r[2].kind = "ok")
          BY <3>3, <4>3, Zenon
        <5> QED
          BY <4>1, <5>1, Zenon DEF Accepting
      <4> QED
        BY <3>5, <4>2, <4>3, Zenon
    <3> QED
      BY <3>1, <3>4, <3>5, Zenon DEF Accepting
  <2> QED
    BY <1>1, <2>1, <2>2
<1>5. Answered(s, k) => Answered(r, k)
  <2>1. SUFFICES ASSUME Answered(s, k), NEW i \in 1..Len(r)
                 PROVE  AnswerAt(r[i], k + i - 1, Len(r) = 1)
    BY DEF Answered
  <2>2. AnswerAt(r[i], k + i - 1, Len(s) = 1)
    BY <1>1, <2>1 DEF Answered
  <2>3. Len(s) = 1 => Len(r) = 1
    BY <1>1
  <2> QED
    BY <2>2, <2>3 DEF AnswerAt
<1>6. Asked(o, s) => p = <<>> \/ Asked(p, r)
  BY <1>1 DEF Asked
<1>7. s = <<>> => r = <<>>
  BY <1>1
<1> QED
  BY <1>4, <1>5, <1>6, <1>7 DEF Reached

LEMMA LosingKeepsSetup ==
    ASSUME TypeOK, ~Pooled, SetupInv, call' = call, server' = server,
           Part(Stream', Stream), Among(Stream', Stream), Stream' \in Seq(PacketType),
           net'.out = net.out \/ net'.out = <<>>,
           mc'.more = mc.more, mc'.sequence = mc.sequence, mc.closed => mc'.closed
    PROVE  SetupInv'
<1>1. /\ ~mc.more /\ Flagless(Stream) /\ (call.name = "new" => ~server.accepted)
      /\ call.name = "Connect" =>
            /\ call.err = "running" => Succeeding
            /\ call.err = "nil" => net.out = <<>> /\ Stream = <<>>
            /\ call.err \notin {"running", "nil", "early"} =>
                  mc.closed \/ \E i \in 1..Len(call.todo) : call.todo[i].do = "cleanup"
  BY DEF SetupInv
<1>2. Flagless(Stream')
  BY <1>1, FlaglessAmong
<1>3. Stream \in Seq(PacketType) /\ mc.sequence \in Nat
  BY StreamTyped DEF TypeOK, ConnType
<1>4. Stream = <<>> => Stream' = <<>>
  <2>1. Len(Stream) \in Nat /\ Len(Stream') \in Nat /\ Len(Stream') <= Len(Stream)
        /\ (Stream = <<>> <=> Len(Stream) = 0) /\ (Stream' = <<>> <=> Len(Stream') = 0)
    BY <1>3, SeqBasics, Zenon DEF Part
  <2> QED
    BY <2>1
<1>5. AsksKey(<<>>)
  BY DEF AsksKey
<1>6. ASSUME Succeeding
      PROVE  Succeeding'
  <2> DEFINE t == First
             u == At(call.todo, 2)
  <2>1. /\ call.todo # <<>> /\ LoginShape(call.plugin, call.todo)
        /\ ~server.accepted /\ t.do = "key" => AsksKey(net.out)
        /\ server.accepted => Reached(call.plugin, t, u, mc.sequence, net.out, Stream)
    BY <1>6 DEF Succeeding
  <2>2. t' = t /\ u' = u
    BY DEF First
  <2> HIDE DEF t, u
  <2>3. server.accepted => Reached(call.plugin, t, u, mc.sequence, net'.out, Stream')
    <3> DEFINE r == Stream'
               p == net'.out
    <3>1. r \in Seq(PacketType) /\ Part(r, Stream) /\ (p = net.out \/ p = <<>>)
      OBVIOUS
    <3> HIDE DEF r, p
    <3>2. server.accepted => Reached(call.plugin, t, u, mc.sequence, p, r)
      BY <1>3, <2>1, <3>1, ReachedShrinks
    <3> QED
      BY <3>2 DEF r, p
  <2>4. ~server.accepted /\ t.do = "key" => AsksKey(net'.out)
    BY <1>5, <2>1
  <2>5. /\ call'.todo # <<>> /\ LoginShape(call'.plugin, call'.todo)
        /\ ~server'.accepted /\ t'.do = "key" => AsksKey(net'.out)
        /\ server'.accepted => Reached(call'.plugin, t', u', mc'.sequence, net'.out, Stream')
    BY <2>1, <2>2, <2>3, <2>4
  <2> QED
    BY <2>5 DEF Succeeding, t, u
<1>7. /\ ~mc'.more /\ (call'.name = "new" => ~server'.accepted)
      /\ call'.name = "Connect" =>
            /\ call'.err = "running" => Succeeding'
            /\ call'.err = "nil" => net'.out = <<>> /\ Stream' = <<>>
            /\ call'.err \notin {"running", "nil", "early"} =>
                  mc'.closed \/ \E i \in 1..Len(call'.todo) : call'.todo[i].do = "cleanup"
  BY <1>1, <1>4, <1>6
<1> QED
  BY <1>2, <1>7 DEF SetupInv

LEMMA OtherSetup ==
    ASSUME TypeOK, ~Pooled, SoloInv, LoginInv, SetupInv, OtherSteps, TypeOK'
    PROVE  SetupInv'
<1>1. /\ net \in NetType /\ mc \in ConnType /\ Stream \in Seq(PacketType)
      /\ net.wire \in Seq(PacketType) /\ net.buf \in Seq(PacketType)
  BY StreamTyped DEF TypeOK
<1>2. Stream' \in Seq(PacketType)
  BY NextStreamTyped
<1>3. CASE Server
  BY <1>3, ServerSetup
<1>4. ~ResetSession /\ ~ServerCloses
  BY DEF ResetSession, ServerCloses, Pooled
<1>5. CASE Watcher \/ CancelContext
  <2>1. UNCHANGED <<call, server>>
    BY <1>5 DEF Watcher, CancelContext, WatcherTakes, WatcherEnds, WatcherSees, WatcherCloses
  <2>2. mc' \in {mc, Closed(mc), [mc EXCEPT !.canceled = TRUE]} /\ net' \in {net, Dropped(net)}
    BY <1>5 DEF Watcher, CancelContext, WatcherTakes, WatcherEnds, WatcherSees, WatcherCloses
  <2>3. mc'.more = mc.more /\ mc'.sequence = mc.sequence /\ (mc.closed => mc'.closed)
    BY <1>1, <2>2 DEF Closed, ConnType
  <2>4. net'.out = net.out /\ net'.buf = net.buf /\ net'.wire \in {net.wire, <<>>}
    BY <1>1, <2>2, DroppedTyped
  <2>5. net'.wire \in Seq(PacketType) /\ Part(net'.wire, net.wire)
    BY <1>1, <2>4, NothingIsPart
  <2>6. Part(Stream', Stream) /\ Among(Stream', Stream)
    BY <2>4, <2>5, DroppedIsAmong
  <2> QED
    BY <1>2, <2>1, <2>3, <2>4, <2>6, LosingKeepsSetup
<1>6. CASE Break
  <2>1. /\ net'.buf = net.buf /\ (net'.out = net.out \/ net'.out = <<>>)
        /\ Len(net'.wire) <= Len(net.wire)
        /\ \A i \in 1..Len(net'.wire) : net'.wire[i] = net.wire[i]
        /\ UNCHANGED <<mc, call, server>> /\ net' \in NetType
    BY <1>6, BreakTyped DEF Break
  <2>2. net'.wire \in Seq(PacketType) /\ Part(net'.wire, net.wire)
    BY <2>1 DEF NetType, Part
  <2>3. Part(Stream', Stream) /\ Among(Stream', Stream)
    BY <2>1, <2>2, DroppedIsAmong
  <2> QED
    BY <1>2, <2>1, <2>3, LosingKeepsSetup
<1> QED
  BY <1>3, <1>4, <1>5, <1>6 DEF OtherSteps

LEMMA StartSetup ==
    ASSUME TypeOK, ~Pooled, SoloInv, SetupInv, NEW name \in Names, NEW c \in {"none", "live", "done"},
           Start(name, c), TypeOK'
    PROVE  SetupInv'
<1>1. /\ Legal(name) /\ call.name # "Connect" /\ (name = "Connect") = (call.name = "new")
      /\ server' = [server EXCEPT !.done = 0, !.file = FALSE, !.refused = FALSE]
  BY DEF Start, Legal
<1>2. call.name = "new" /\ name = "Connect"
  BY <1>1 DEF Pooled
<1>3. server \in ServerType /\ mc \in ConnType /\ net \in NetType /\ net.wire \in Seq(PacketType)
  BY DEF TypeOK, NetType
<1>4. ~server.accepted /\ ~mc.more /\ Flagless(Stream)
  BY <1>2 DEF SetupInv
<1>5. ~server'.accepted
  BY <1>1, <1>3, <1>4 DEF ServerType
<1>6. CASE /\ call' = NewCall(name, <<>>, "early") /\ UNCHANGED <<mc, net, watcher>>
  <2>1. call'.name = "Connect" /\ call'.err = "early"
    BY <1>2, <1>6 DEF NewCall
  <2>2. Stream' = Stream /\ mc' = mc
    BY <1>6 DEF Stream
  <2> QED
    BY <1>4, <2>1, <2>2 DEF SetupInv
<1> DEFINE w == IF name \in Watched THEN WatchCancel(c)
                ELSE [mc |-> mc, net |-> net, watcher |-> watcher]
<1>7. CASE /\ \E todo \in Program(name) : call' = NewCall(name, todo, "running")
           /\ mc' = [w.mc EXCEPT !.sequence = IF HasRows THEN @ ELSE 0]
           /\ net' = w.net
  <2>1. Program("Connect") = {<<Task("handshake")>>}
    BY DEF Program
  <2>2. /\ call'.name = "Connect" /\ call'.err = "running"
        /\ call'.todo = <<Task("handshake")>>
    BY <1>2, <1>7, <2>1 DEF NewCall
  <2>3. w.mc \in ConnType /\ w.net \in {net, Dropped(net)} /\ w.mc.more = mc.more
    <3>1. WatchCancel(c).mc \in ConnType /\ WatchCancel(c).net \in {net, Dropped(net)}
      BY WatchCancelTyped
    <3>2. WatchCancel(c).mc \in {mc, Closed(mc), [mc EXCEPT !.watching = TRUE]}
      BY DEF WatchCancel
    <3>3. WatchCancel(c).mc.more = mc.more
      BY <1>3, <3>2 DEF Closed, ConnType
    <3> QED
      BY <1>2, <3>1, <3>3 DEF Watched
  <2> DEFINE q == IF HasRows THEN w.mc.sequence ELSE 0
  <2>4. mc' = [w.mc EXCEPT !.sequence = q]
    BY <1>7
  <2>5. net' \in {net, Dropped(net)}
    BY <1>7, <2>3
  <2> HIDE DEF w, q
  <2>6. ~mc'.more
    BY <1>4, <2>3, <2>4 DEF ConnType
  <2>7. net'.buf = net.buf /\ net'.wire \in {net.wire, <<>>}
    BY <1>3, <2>5, DroppedTyped
  <2>8. net'.wire \in Seq(PacketType) /\ Part(net'.wire, net.wire)
    BY <1>3, <2>7, NothingIsPart
  <2>9. Among(Stream', Stream)
    BY <2>7, <2>8, DroppedIsAmong
  <2>10. Flagless(Stream')
    BY <1>4, <2>9, FlaglessAmong
  <2>11. Succeeding'
    <3> DEFINE h == Task("handshake")
               l == <<h>>
               plugin == call'.plugin
    <3>1. h.do = "handshake" /\ call'.todo = l
      BY <2>2, TaskIs
    <3> HIDE DEF h
    <3>2. Len(l) = 1 /\ l[1] = h /\ l # <<>>
      OBVIOUS
    <3>3. At(l, 1) = h /\ At(l, 2) = None /\ At(l, 3) = None
      BY <3>2 DEF At
    <3> HIDE DEF l
    <3>4. None.do = "none"
      BY NothingLeft
    <3>5. LoginLeads(plugin, h, None, None)
      BY <3>1, <3>4 DEF LoginLeads
    <3> HIDE DEF plugin
    <3>6. LoginShape(plugin, l)
      <4>1. SUFFICES ASSUME NEW i \in 1..Len(l)
                     PROVE  LoginLeads(plugin, l[i], At(l, i + 1), At(l, i + 2))
        BY DEF LoginShape
      <4>2. i = 1 /\ 1 + 1 = 2 /\ 1 + 2 = 3
        BY <3>2
      <4> QED
        BY <3>2, <3>3, <3>5, <4>2
    <3>7. At(call'.todo, 1).do # "key"
      BY <3>1, <3>3
    <3> QED
      BY <1>5, <3>1, <3>2, <3>6, <3>7 DEF Succeeding, First, plugin
  <2> QED
    BY <2>2, <2>6, <2>10, <2>11 DEF SetupInv
<1> QED
  BY <1>2, <1>6, <1>7 DEF Start, NewCall

LEMMA InitSetup ==
    ASSUME Init
    PROVE  SetupInv
<1>1. SUFFICES ASSUME ~Pooled
               PROVE  SetupInv
  BY DEF SetupInv
<1>2. call.name = "new" /\ net.wire \in Greetings \cup {<<>>} /\ net.wire # <<>> /\ net.buf = <<>>
  BY <1>1 DEF Init, Pooled
<1>3. ~mc.more
  BY DEF Init
<1>4. ~server.accepted
  BY <1>2 DEF Init
<1>5. net.wire \in Seq(PacketType) /\ Len(net.wire) = 1 /\ net.wire[1].kind \in {"handshake", "err"}
  BY <1>2, GreetingTyped
<1>6. Stream = net.wire
  BY <1>2, <1>5, ConcatEmptySeq DEF Stream
<1>7. Flagless(Stream)
  BY <1>5, <1>6 DEF Flagless
<1> QED
  BY <1>2, <1>3, <1>4, <1>7 DEF SetupInv

LEMMA NextSetup ==
    ASSUME TypeOK, SoloInv, LoginInv, SetupInv, [Next]_connVars
    PROVE  SetupInv'
<1>1. CASE UNCHANGED connVars
  <2>1. UNCHANGED <<mc, net, call, server>>
    BY <1>1 DEF connVars, connectVars, vars
  <2> QED
    BY <2>1 DEF SetupInv, Stream, First, Pooled, Succeeding
<1>2. CASE Next /\ Pooled
  <2>1. Pooled'
    BY <1>2, PooledStays
  <2> QED
    BY <2>1 DEF SetupInv
<1>3. CASE Next /\ ~Pooled
  <2>1. TypeOK'
    BY NextTypes
  <2>2. ASSUME Moves \/ Finish
        PROVE  SetupInv'
    <3>1. call.name = "Connect"
      <4>1. call.todo # <<>>
        BY <2>2, MovesCalm DEF Finish, Doing
      <4> QED
        BY <1>3, <4>1 DEF SoloInv, Pooled
    <3> QED
      BY <2>2, <3>1, MovesJoin
  <2> QED
    BY <1>3, <2>1, <2>2, NextCases, StartSetup, OtherSetup DEF Moves
<1> QED
  BY <1>1, <1>2, <1>3

LEMMA FrontInSync ==
    ASSUME TypeOK, PooledInv, SoloInv, ContentInv, SetupInv
    PROVE  InSync
<1> SUFFICES ASSUME call.todo = <<>>, ~mc.closed, ~HasRows,
                    call.err \in {"nil", "end", "mysql", "ctx", "toolarge"}
             PROVE  /\ net.buf = <<>>
                    /\ \A i \in DOMAIN net.wire : net.wire[i].of = 0
                    /\ \A i \in DOMAIN net.out : net.out[i].cmd \in {"stmtClose", "longdata"}
  BY DEF InSync, Over
<1>1. /\ DOMAIN net.wire = 1..Len(net.wire) /\ DOMAIN net.out = 1..Len(net.out)
      /\ net.wire \in Seq(PacketType) /\ net.buf \in Seq(PacketType)
  BY DEF TypeOK, NetType
<1>2. CASE Pooled
  BY <1>1, <1>2, PooledIsInSync
<1>3. CASE ~Pooled
  <2>1. call.name = "Connect"
    BY <1>3 DEF SoloInv, Pooled
  <2>2. Len(call.todo) = 0
    OBVIOUS
  <2>3. net.out = <<>> /\ Stream = <<>>
    BY <1>3, <2>1, <2>2 DEF SetupInv
  <2>4. Len(net.buf) = 0 /\ Len(net.wire) = 0
    <3>1. Len(Stream) = Len(net.buf) + Len(net.wire) /\ Len(Stream) = 0
      BY <2>3, StreamTyped
    <3>2. \A m, n \in Nat : m + n = 0 => m = 0 /\ n = 0
      OBVIOUS
    <3>3. Len(net.buf) \in Nat /\ Len(net.wire) \in Nat
      BY <1>1
    <3> QED
      BY <3>1, <3>2, <3>3
  <2>5. net.buf = <<>> /\ net.wire = <<>>
    BY <1>1, <2>4, SeqBasics
  <2> QED
    BY <2>3, <2>5
<1> QED
  BY <1>2, <1>3

(* When a call has returned and the connection may be used for another,    *)
(* every packet of its answer has been read and nothing more will come     *)
(* but the error of a server that closes: each call reads to the last      *)
(* packet, discards what it does not want (discardResults, rows.Close) or  *)
(* closes the connection, and so does Connect through the handshake, the   *)
(* plugins of auth.go and the statements of its configuration.  The call   *)
(* whose file could not be read (infile.go) returns an error of its own    *)
(* and is not among them.                                                  *)
THEOREM InSyncHolds == ASSUME Columns <= 25 PROVE Spec => []InSync
<1> DEFINE Inv == TypeOK /\ PooledInv /\ SoloInv /\ LoginInv /\ ContentInv /\ SetupInv
<1>1. Init => Inv
  BY InitTypes, InitPooled, InitSolo, InitLogin, InitContent, InitSetup
<1>2. Inv /\ [Next]_connVars => Inv'
  BY NextTypes, NextPooled, NextSolo, NextLogin, NextContent, NextSetup
<1>3. Inv => InSync
  BY FrontInSync
<1> QED
  BY <1>1, <1>2, <1>3, PTL DEF Spec
==============================================================================
