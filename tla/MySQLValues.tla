------------------------------ MODULE MySQLValues ------------------------------
(***************************************************************************)
(* How the MySQL driver writes arguments and reads rows: length-encoded    *)
(* numbers, escaping, dates (utils.go), the interpolation of arguments     *)
(* (connection.go), the packet that executes a statement and the rows of   *)
(* both protocols (packets.go), and the types of columns (fields.go).      *)
(*                                                                         *)
(* A value is a record with its Go type in k.  Numbers are TLC's; in a     *)
(* packet they have their eight bytes.  A character of a text is a string, *)
(* in a packet it is a byte and its own value.  What the server does is    *)
(* marked so.                                                              *)
(***************************************************************************)
EXTENDS Integers, Sequences, SequencesExt

Null == [k |-> "nil"]

Int64(v) == [k |-> "int64", value |-> v]

Bytes(v) == [k |-> "bytes", value |-> v]

Time(t) == [k |-> "time", value |-> t]

(* The zero time.Time. *)
NoTime == Time(<<>>)

(* NULL and a value, as the server has them. *)
Absent == [null |-> TRUE]

Held(v) == [held |-> v]

Past(b, n) == SubSeq(b, n + 1, Len(b))

(* A number in n bytes, the lowest first, and back. *)
LittleEndian(v, n) == [i \in 1..n |-> IF i <= 3 THEN (v \div 256 ^ (i - 1)) % 256 ELSE IF v < 0 THEN 255 ELSE 0]

Unsigned(b) == FoldRight(LAMBDA d, n : 256 * n + d, SubSeq(b, 1, IF Len(b) < 3 THEN Len(b) ELSE 3), 0)

SignedOf(b) ==
    LET n == IF Len(b) < 3 THEN Len(b) ELSE 3
    IN  IF b[Len(b)] >= 128 THEN Unsigned(b) - 256 ^ n ELSE Unsigned(b)

-----------------------------------------------------------------------------
(* utils.go: length-encoded numbers and strings. *)

AppendLengthEncodedInteger(n) ==
    CASE n <= 250 -> <<n>>
      [] n > 250 /\ n < 65536 -> <<252>> \o LittleEndian(n, 2)
      [] n >= 65536 /\ n < 16777216 -> <<253>> \o LittleEndian(n, 3)
      [] OTHER -> <<254>> \o LittleEndian(n, 8)

ReadLengthEncodedInteger(b) ==
    LET number(n) == [num |-> Unsigned(SubSeq(b, 2, n + 1)), null |-> FALSE, n |-> n + 1]
    IN  CASE b = <<>> -> [num |-> 0, null |-> TRUE, n |-> 1]
          [] b # <<>> /\ b[1] = 251 -> [num |-> 0, null |-> TRUE, n |-> 1]
          [] b # <<>> /\ b[1] = 252 -> number(2)
          [] b # <<>> /\ b[1] = 253 -> number(3)
          [] b # <<>> /\ b[1] = 254 -> number(8)
          [] OTHER -> [num |-> b[1], null |-> FALSE, n |-> 1]

ReadLengthEncodedString(b) ==
    LET l == ReadLengthEncodedInteger(b)
    IN  CASE l.num < 1 -> [v |-> <<>>, null |-> l.null, n |-> l.n, err |-> ""]
          [] l.num >= 1 /\ Len(b) >= l.n + l.num ->
                [v |-> SubSeq(b, l.n + 1, l.n + l.num), null |-> FALSE, n |-> l.n + l.num, err |-> ""]
          [] OTHER -> [v |-> <<>>, null |-> FALSE, n |-> l.n + l.num, err |-> "EOF"]

LengthEncoded(v) == AppendLengthEncodedInteger(Len(v)) \o v

-----------------------------------------------------------------------------
(* utils.go: escaping.  The letters after a backslash are their own        *)
(* characters; nul, nl, cr, z (0x1a), apostrophe, quote and backslash have *)
(* names.                                                                  *)

Escapes == [nul |-> "0", nl |-> "n", cr |-> "r", z |-> "Z", apostrophe |-> "apostrophe", quote |-> "quote",
            backslash |-> "backslash"]

(* escapeBytesBackslash, escapeStringBackslash *)
EscapeBackslash(v) ==
    FlattenSeq([i \in DOMAIN v |-> IF v[i] \in DOMAIN Escapes THEN <<"backslash", Escapes[v[i]]>> ELSE <<v[i]>>])

(* escapeBytesQuotes, escapeStringQuotes *)
EscapeQuotes(v) ==
    FlattenSeq([i \in DOMAIN v |-> IF v[i] = "apostrophe" THEN <<"apostrophe", "apostrophe">> ELSE <<v[i]>>])

-----------------------------------------------------------------------------
(* Dates and times: <<year, month, day, hour, minute, second, microsecond>>*)

TwoDigits(n) == <<ToString(n \div 10), ToString(n % 10)>>

DateText(t) == TwoDigits(t[1] \div 100) \o TwoDigits(t[1] % 100) \o <<"-">> \o TwoDigits(t[2]) \o <<"-">> \o TwoDigits(t[3])

ClockText(h, m, s) == TwoDigits(h) \o <<":">> \o TwoDigits(m) \o <<":">> \o TwoDigits(s)

MicroText(us) == TwoDigits(us \div 10000) \o TwoDigits((us \div 100) % 100) \o TwoDigits(us % 100)

ZeroDateTime ==
    DateText(<<0, 0, 0>>) \o <<" ">> \o ClockText(0, 0, 0) \o <<".">> \o MicroText(0)

(* appendMicrosecs, of the four bytes of src if there are any. *)
Microsecs(src, decimals) ==
    IF decimals <= 0 THEN <<>>
    ELSE <<".">> \o SubSeq(MicroText(IF src = <<>> THEN 0 ELSE Unsigned(SubSeq(src, 1, 3))), 1, IF decimals > 6 THEN 6 ELSE decimals)

Year(src) == Unsigned(SubSeq(src, 1, 2))

DateTimeLengths == {10, 19} \cup 21..26

(* formatBinaryDateTime: the text of a given length for a packet of 0, 4,  *)
(* 7 or 11 bytes.                                                          *)
FormatBinaryDateTime(src, length) ==
    LET date == DateText(<<Year(src), src[3], src[4]>>)
    IN  CASE src = <<>> -> Bytes(SubSeq(ZeroDateTime, 1, length))
          [] src # <<>> /\ (length \notin DateTimeLengths \/ Len(src) \notin {4, 7, 11}) -> [k |-> "error"]
          [] src # <<>> /\ length = 10 /\ Len(src) \in {4, 7, 11} -> Bytes(date)
          [] src # <<>> /\ length \in DateTimeLengths \ {10} /\ Len(src) = 4 ->
                Bytes(date \o SubSeq(ZeroDateTime, 11, length))
          [] OTHER -> Bytes(date \o <<" ">> \o ClockText(src[5], src[6], src[7]) \o Microsecs(Past(src, 7), length - 20))

(* formatBinaryTime, of 0, 8 or 12 bytes: sign, days, clock, microseconds. *)
HoursText(h) == IF h >= 100 THEN <<ToString(h \div 100)>> \o TwoDigits(h % 100) ELSE TwoDigits(h)

FormatBinaryTime(src, length) ==
    LET hours == 24 * Unsigned(SubSeq(src, 2, 4)) + src[6]
    IN  CASE src = <<>> -> Bytes(SubSeq(ZeroDateTime, 12, 11 + length))
          [] src # <<>> /\ (length \notin {8} \cup 10..15 \/ Len(src) \notin {8, 12}) -> [k |-> "error"]
          [] OTHER ->
                Bytes((IF src[1] = 1 THEN <<"-">> ELSE <<>>) \o HoursText(hours) \o SubSeq(ClockText(0, src[7], src[8]), 3, 8)
                      \o Microsecs(Past(src, 8), length - 9))

(* parseBinaryDateTime; time.Date carries over what is out of range, which *)
(* the months and days of the server's dates here are not.                 *)
ParseBinaryDateTime(src) ==
    CASE Len(src) = 0 -> NoTime
      [] Len(src) = 4 -> Time(<<Year(src), src[3], src[4], 0, 0, 0, 0>>)
      [] Len(src) = 7 -> Time(<<Year(src), src[3], src[4], src[5], src[6], src[7], 0>>)
      [] Len(src) = 11 -> Time(<<Year(src), src[3], src[4], src[5], src[6], src[7], Unsigned(SubSeq(src, 8, 10))>>)
      [] OTHER -> [k |-> "error"]

DigitsOf(s) == FoldLeft(LAMBDA n, c : 10 * n + (CHOOSE d \in 0..9 : ToString(d) = c), 0, s)

(* parseDateTime; time.Parse with the layout cut to the length refuses a   *)
(* month or a day that does not exist.                                     *)
ParseDateTime(s) ==
    LET at(a, b) == DigitsOf(SubSeq(s, a, b))
        clock == IF Len(s) > 10 THEN <<at(12, 13), at(15, 16), at(18, 19)>> ELSE <<0, 0, 0>>
        us == IF Len(s) > 19 THEN DigitsOf(SubSeq(SubSeq(s, 21, Len(s)) \o <<"0", "0", "0", "0", "0">>, 1, 6)) ELSE 0
    IN  CASE Len(s) \notin DateTimeLengths -> [k |-> "error"]
          [] Len(s) \in DateTimeLengths /\ s = SubSeq(ZeroDateTime, 1, Len(s)) -> NoTime
          [] OTHER -> IF at(6, 7) \in 1..12 /\ at(9, 10) \in 1..31
                      THEN Time(<<at(1, 4), at(6, 7), at(9, 10)>> \o clock \o <<us>>) ELSE [k |-> "error"]

(* NullTime.Scan, of what a row gives, and Value. *)
ScanNullTime(v) ==
    LET t == CASE v.k = "time" -> v [] v.k = "bytes" -> ParseDateTime(v.value) [] OTHER -> [k |-> "error"]
    IN  IF v = Null \/ t.k = "error" THEN [time |-> NoTime, valid |-> FALSE] ELSE [time |-> t, valid |-> TRUE]

NullTimeValue(nt) == IF nt.valid THEN nt.time ELSE Null

-----------------------------------------------------------------------------
(* connection.go: interpolateParams.  A query is a sequence of words, "?"  *)
(* one of them; the text has the literals in their place.                  *)

Quoted(v, noBackslash) ==
    <<"apostrophe">> \o (IF noBackslash THEN EscapeQuotes(v) ELSE EscapeBackslash(v)) \o <<"apostrophe">>

IntText(n) == (IF n < 0 THEN <<"-">> ELSE <<>>) \o <<ToString(IF n < 0 THEN -n ELSE n)>>

(* The time is rounded to a microsecond (v.Add of 500 ns). *)
TimeLiteral(t) ==
    <<"apostrophe">>
    \o (IF t = <<>> THEN SubSeq(ZeroDateTime, 1, 10)
        ELSE DateText(t) \o <<" ">> \o ClockText(t[4], t[5], t[6])
             \o (IF t[7] # 0 THEN <<".">> \o MicroText(t[7]) ELSE <<>>))
    \o <<"apostrophe">>

Literal(a, noBackslash) ==
    CASE a = Null -> <<"NULL">>
      [] a.k \in {"int64", "uint64"} -> IntText(a.value)
      [] a.k = "bool" -> <<IF a.value THEN "1" ELSE "0">>
      [] a.k = "time" -> TimeLiteral(a.value)
      [] a.k = "bytes" -> <<"_binary">> \o Quoted(a.value, noBackslash)
      [] a.k = "string" -> Quoted(a.value, noBackslash)

Placeholders(query) == Len(SelectSeq(query, LAMBDA w : w = "?"))

(* What has been written after i words; it is measured after each          *)
(* argument, NULLs apart.                                                  *)
Interpolated(query, args, noBackslash, maxAllowedPacket) ==
    LET step(s, w) ==
            LET arg == args[s.arg]
                text == s.text \o (IF w = "?" THEN Literal(arg, noBackslash) ELSE <<w>>)
            IN  [text |-> text, arg |-> s.arg + (IF w = "?" THEN 1 ELSE 0),
                 skip |-> s.skip \/ (w = "?" /\ arg # Null /\ Len(text) + 4 > maxAllowedPacket)]
        r == FoldLeft(step, [text |-> <<>>, arg |-> 1, skip |-> FALSE], query)
    IN  IF Placeholders(query) # Len(args) \/ r.skip THEN [err |-> "skip", text |-> <<>>]
        ELSE [err |-> "", text |-> r.text]

(* The server's lexer (external): what a text says, one token after the    *)
(* other; a literal is what is between its apostrophes, with escapes or,   *)
(* if it is told so, without.                                              *)
Unescape(c) == IF \E e \in DOMAIN Escapes : Escapes[e] = c THEN CHOOSE e \in DOMAIN Escapes : Escapes[e] = c ELSE c

RECURSIVE LexLiteral(_, _, _)
LexLiteral(text, noBackslash, got) ==
    CASE text = <<>> -> [ok |-> FALSE, v |-> got, rest |-> <<>>]
      [] text # <<>> /\ text[1] = "apostrophe" ->
            IF Len(text) > 1 /\ text[2] = "apostrophe" THEN LexLiteral(Past(text, 2), noBackslash, Append(got, "apostrophe"))
            ELSE [ok |-> TRUE, v |-> got, rest |-> Tail(text)]
      [] text # <<>> /\ text[1] = "backslash" /\ ~noBackslash /\ Len(text) > 1 ->
            LexLiteral(Past(text, 2), noBackslash, Append(got, Unescape(text[2])))
      [] OTHER -> LexLiteral(Tail(text), noBackslash, Append(got, text[1]))

RECURSIVE Lex(_, _)
Lex(text, noBackslash) ==
    IF text = <<>> THEN <<>>
    ELSE IF text[1] # "apostrophe" THEN <<[word |-> text[1]]>> \o Lex(Tail(text), noBackslash)
    ELSE LET l == LexLiteral(Tail(text), noBackslash, <<>>)
         IN  IF l.ok THEN <<[literal |-> l.v]>> \o Lex(l.rest, noBackslash) ELSE <<[broken |-> l.v]>>

(* The tokens that an argument is meant to be. *)
Meant(a) ==
    LET words(s) == [i \in DOMAIN s |-> [word |-> s[i]]]
    IN  CASE a.k = "string" -> <<[literal |-> a.value]>>
          [] a.k = "bytes" -> <<[word |-> "_binary"], [literal |-> a.value]>>
          [] a.k = "time" -> <<[literal |-> SubSeq(TimeLiteral(a.value), 2, Len(TimeLiteral(a.value)) - 1)]>>
          [] OTHER -> words(Literal(a, FALSE))

RECURSIVE MeantQuery(_, _)
MeantQuery(query, args) ==
    CASE query = <<>> -> <<>>
      [] query # <<>> /\ query[1] = "?" -> Meant(args[1]) \o MeantQuery(Tail(query), Tail(args))
      [] OTHER -> <<[word |-> query[1]]>> \o MeantQuery(Tail(query), args)

-----------------------------------------------------------------------------
(* packets.go: writeExecutePacket and writeCommandLongData. *)

(* The pieces of a long argument, each as long as a packet allows.         *)
RECURSIVE Chunks(_, _)
Chunks(arg, maxLen) ==
    LET dataOffset == 7
        pktLen == IF dataOffset + Len(arg) < maxLen THEN dataOffset + Len(arg) ELSE maxLen
    IN  IF arg = <<>> THEN <<>>
        ELSE <<SubSeq(arg, 1, pktLen - dataOffset)>> \o Chunks(Past(arg, pktLen - dataOffset), maxLen)

LongDataSize(maxAllowedPacket, n) ==
    LET size == maxAllowedPacket \div (n + 1) IN IF size < 64 THEN 64 ELSE size

(* A time as text (timeFormat): trailing zeros of the fraction are left    *)
(* out, and all of it if there is none.                                    *)
Shortened(digits) == SubSeq(digits, 1, CHOOSE n \in 1..6 : digits[n] # "0" /\ \A i \in n + 1..6 : digits[i] = "0")

FormattedTime(t) ==
    IF t = <<>> THEN SubSeq(ZeroDateTime, 1, 10)
    ELSE DateText(t) \o <<" ">> \o ClockText(t[4], t[5], t[6])
         \o (IF t[7] # 0 THEN <<".">> \o Shortened(MicroText(t[7])) ELSE <<>>)

(* The type and the bytes of an argument; one that goes ahead in packets   *)
(* of its own (long) has none here.                                        *)
Param(a, longDataSize) ==
    LET string(v) == [type |-> "string", unsigned |-> FALSE, null |-> FALSE,
                      long |-> IF Len(v) < longDataSize THEN <<>> ELSE v,
                      bytes |-> IF Len(v) < longDataSize THEN LengthEncoded(v) ELSE <<>>]
        fixed(type, unsigned, b) == [type |-> type, unsigned |-> unsigned, null |-> FALSE, long |-> <<>>, bytes |-> b]
    IN  CASE a = Null -> [type |-> "null", unsigned |-> FALSE, null |-> TRUE, long |-> <<>>, bytes |-> <<>>]
          [] a.k = "int64" -> fixed("longlong", FALSE, LittleEndian(a.value, 8))
          [] a.k = "uint64" -> fixed("longlong", TRUE, LittleEndian(a.value, 8))
          [] a.k = "float64" -> fixed("double", FALSE, a.value)
          [] a.k = "bool" -> fixed("tiny", FALSE, <<IF a.value THEN 1 ELSE 0>>)
          [] a.k \in {"string", "bytes"} -> string(a.value)
          [] a.k = "time" -> fixed("string", FALSE, LengthEncoded(FormattedTime(a.value)))

(* The bits of the mask of NULLs, a set of bits for each byte. *)
NullMask(params) ==
    [i \in 1..(Len(params) + 7) \div 8 |->
        {b \in 0..7 : 8 * (i - 1) + b + 1 <= Len(params) /\ params[8 * (i - 1) + b + 1].null}]

(* The packet, and the pieces sent ahead of it. *)
WriteExecute(args, paramCount, maxAllowedPacket) ==
    LET params == [i \in DOMAIN args |-> Param(args[i], LongDataSize(maxAllowedPacket, paramCount))]
    IN  IF Len(args) # paramCount THEN [err |-> "argument count mismatch"]
        ELSE [err |-> "",
              ahead |-> FlattenSeq([i \in DOMAIN args |->
                  LET c == Chunks(params[i].long, maxAllowedPacket - 1) IN [j \in DOMAIN c |-> [param |-> i, data |-> c[j]]]]),
              mask |-> NullMask(params),
              types |-> [i \in DOMAIN args |-> <<params[i].type, params[i].unsigned>>],
              values |-> FlattenSeq([i \in DOMAIN args |-> params[i].bytes])]

(* How the server reads it (external). *)
ServerValue(type, unsigned, b) ==
    CASE type = "longlong" -> [v |-> IF unsigned THEN Unsigned(SubSeq(b, 1, 8)) ELSE SignedOf(SubSeq(b, 1, 8)), n |-> 8]
      [] type = "double" -> [v |-> SubSeq(b, 1, 8), n |-> 8]
      [] type = "tiny" -> [v |-> b[1] = 1, n |-> 1]
      [] type = "string" -> LET s == ReadLengthEncodedString(b) IN [v |-> s.v, n |-> s.n]

RECURSIVE ServerReads(_, _, _)
ServerReads(packet, i, b) ==
    IF i > Len(packet.types) THEN IF b = <<>> THEN <<>> ELSE <<[trailing |-> b]>>
    ELSE LET ahead == SelectSeq(packet.ahead, LAMBDA c : c.param = i)
             long == FlattenSeq([j \in DOMAIN ahead |-> ahead[j].data])
             r == ServerValue(packet.types[i][1], packet.types[i][2], b)
         IN  CASE (i - 1) % 8 \in packet.mask[1 + ((i - 1) \div 8)] -> <<Absent>> \o ServerReads(packet, i + 1, b)
               [] (i - 1) % 8 \notin packet.mask[1 + ((i - 1) \div 8)] /\ ahead # <<>> -> <<Held(long)>> \o ServerReads(packet, i + 1, b)
               [] OTHER -> <<Held(r.v)>> \o ServerReads(packet, i + 1, Past(b, r.n))

(* An argument has arrived; a time is one that its text says. *)
Received(a, v) ==
    CASE a = Null -> v = Absent
      [] a.k = "time" -> ParseDateTime(v.held) = a
      [] OTHER -> v = Held(a.value)

-----------------------------------------------------------------------------
(* packets.go: the rows. *)

TypeSize == [tiny |-> 1, short |-> 2, year |-> 2, int24 |-> 4, long |-> 4, longlong |-> 8, float |-> 4, double |-> 8]

IsTime(type) == type \in {"date", "datetime", "timestamp"}

(* The length of the text of a date or a time; 31 decimals are none.       *)
TextLength(c, base) == IF c.decimals \in {0, 31} THEN base ELSE base + 1 + c.decimals

TextOfTime(c, src, parseTime) ==
    CASE c.type = "time" -> FormatBinaryTime(src, TextLength(c, 8))
      [] IsTime(c.type) /\ parseTime -> ParseBinaryDateTime(src)
      [] OTHER -> FormatBinaryDateTime(src, IF c.type = "date" THEN 10 ELSE TextLength(c, 19))

(* A column of a row in the binary protocol that is not NULL: its value    *)
(* and how many bytes it has.  A number that has no int64 becomes a text.  *)
BinaryColumn(c, b, parseTime) ==
    LET s == ReadLengthEncodedString(b)
        fixed == SubSeq(b, 1, TypeSize[c.type])
    IN  CASE c.type \in {"float", "double"} -> [v |-> [k |-> "float", value |-> fixed], n |-> Len(fixed)]
          [] c.type \in DOMAIN TypeSize \ {"float", "double"} ->
                [v |-> CASE c.unsigned /\ c.type = "longlong" /\ fixed[8] >= 128 -> [k |-> "bytes", value |-> fixed]
                         [] c.unsigned /\ ~(c.type = "longlong" /\ fixed[8] >= 128) -> Int64(Unsigned(fixed))
                         [] OTHER -> Int64(SignedOf(fixed)),
                 n |-> Len(fixed)]
          [] c.type = "string" -> [v |-> IF s.null THEN Null ELSE Bytes(s.v), n |-> s.n]
          [] OTHER -> [v |-> IF s.null THEN Null ELSE TextOfTime(c, s.v, parseTime), n |-> s.n]

LeftByOneBug(data, i) == i - 1 \in data.mask

(* The bit of a column in the mask of a row, which begins at 2. *)
IsNull(data, i) == i + 1 \in data.mask

(* binaryRows.readRow; the packet has its mask, as a set of bits, and its  *)
(* values.                                                                 *)
RECURSIVE BinaryRow(_, _, _, _, _)
BinaryRow(data, columns, i, b, parseTime) ==
    IF i > Len(columns) THEN <<>>
    ELSE IF IsNull(data, i) THEN <<Null>> \o BinaryRow(data, columns, i + 1, b, parseTime)
    ELSE LET Rest(r) == <<r.v>> \o BinaryRow(data, columns, i + 1, Past(b, r.n), parseTime)
         IN  Rest(BinaryColumn(columns[i], b, parseTime))

(* textRows.readRow *)
RECURSIVE TextRow(_, _, _)
TextRow(columns, b, parseTime) ==
    IF columns = <<>> THEN <<>>
    ELSE LET Column(s) == CASE s.null -> Null
                            [] ~s.null /\ parseTime /\ IsTime(columns[1].type) -> ParseDateTime(s.v)
                            [] OTHER -> Bytes(s.v)
             Rest(s) == <<Column(s)>> \o TextRow(Tail(columns), Past(b, s.n), parseTime)
         IN  Rest(ReadLengthEncodedString(b))

(* How the server writes a row (external): a value is Null or what the     *)
(* column holds, a date as short as it can be.                             *)
TimePacket(t) ==
    LET date == LittleEndian(t[1], 2) \o <<t[2], t[3]>>
    IN  CASE t = <<>> -> <<>>
          [] t # <<>> /\ SubSeq(t, 4, 7) = <<0, 0, 0, 0>> -> date
          [] t # <<>> /\ SubSeq(t, 4, 6) # <<0, 0, 0>> /\ t[7] = 0 -> date \o SubSeq(t, 4, 6)
          [] OTHER -> date \o SubSeq(t, 4, 6) \o LittleEndian(t[7], 4)

TimeText(c, t) == SubSeq(IF t = <<>> THEN ZeroDateTime ELSE DateText(t) \o <<" ">> \o ClockText(t[4], t[5], t[6]) \o <<".">> \o MicroText(t[7]),
                         1, IF c.type = "date" THEN 10 ELSE TextLength(c, 19))

(* A TIME is <<sign, days, hour, minute, second, microsecond>>. *)
ClockPacket(t) ==
    LET clock == <<t[1]>> \o LittleEndian(t[2], 4) \o SubSeq(t, 3, 5)
    IN  CASE Tail(t) = <<0, 0, 0, 0, 0>> -> <<>>
          [] Tail(t) # <<0, 0, 0, 0, 0>> /\ t[6] = 0 -> clock
          [] OTHER -> clock \o LittleEndian(t[6], 4)

LongClockText(c, t) ==
    LET hours == 24 * t[2] + t[3]
        clock == <<":">> \o TwoDigits(t[4]) \o <<":">> \o TwoDigits(t[5]) \o <<".">> \o MicroText(t[6])
    IN  (IF t[1] = 1 THEN <<"-">> ELSE <<>>)
        \o (IF hours < 100 THEN TwoDigits(hours) ELSE <<ToString(hours \div 100)>> \o TwoDigits(hours % 100))
        \o SubSeq(clock, 1, TextLength(c, 8) - 2)

ServerBinary(c, v) ==
    CASE c.type \in DOMAIN TypeSize -> LittleEndian(v, TypeSize[c.type])
      [] c.type = "string" -> LengthEncoded(v)
      [] c.type = "time" -> LengthEncoded(ClockPacket(v))
      [] OTHER -> LengthEncoded(TimePacket(v))

ServerBinaryRow(columns, values) ==
    [mask |-> {i + 1 : i \in {j \in DOMAIN values : values[j] = Absent}},
     values |-> FlattenSeq([i \in DOMAIN values |-> IF values[i] = Absent THEN <<>> ELSE ServerBinary(columns[i], values[i].held)])]

ServerText(c, v) ==
    CASE IsTime(c.type) -> TimeText(c, v) [] c.type = "time" -> LongClockText(c, v) [] OTHER -> v

ServerTextRow(columns, values) ==
    FlattenSeq([i \in DOMAIN values |-> IF values[i] = Absent THEN <<251>> ELSE LengthEncoded(ServerText(columns[i], values[i].held))])

(* What is delivered for a column. *)
Delivered(c, v, parseTime) ==
    CASE v = Absent -> Null
      [] v # Absent /\ c.type \in DOMAIN TypeSize -> Int64(v.held)
      [] v # Absent /\ c.type = "string" -> Bytes(v.held)
      [] v # Absent /\ c.type = "time" -> Bytes(LongClockText(c, v.held))
      [] OTHER -> IF parseTime THEN Time(v.held) ELSE Bytes(TimeText(c, v.held))

-----------------------------------------------------------------------------
(* fields.go: scanType, for what a column may hold. *)
ScanType(c) ==
    LET number(signed, unsigned) == IF ~c.notNull THEN "NullInt64" ELSE IF c.unsigned THEN unsigned ELSE signed
    IN  CASE c.type = "tiny" -> number("int8", "uint8")
          [] c.type \in {"short", "year"} -> number("int16", "uint16")
          [] c.type \in {"int24", "long"} -> number("int32", "uint32")
          [] c.type = "longlong" -> number("int64", "uint64")
          [] c.type = "float" -> IF c.notNull THEN "float32" ELSE "NullFloat64"
          [] c.type = "double" -> IF c.notNull THEN "float64" ELSE "NullFloat64"
          [] c.type \in {"string", "time"} -> "RawBytes"
          [] IsTime(c.type) -> "NullTime"

Bits == [int8 |-> 8, uint8 |-> 8, int16 |-> 16, uint16 |-> 16]

(* Whether a value of a row can be put into the type (database/sql).       *)
Holds(type, v) ==
    CASE type \in {"int8", "int16"} -> v.k = "int64" /\ v.value \in -2 ^ (Bits[type] - 1)..2 ^ (Bits[type] - 1) - 1
      [] type \in {"uint8", "uint16"} -> v.k = "int64" /\ v.value \in 0..2 ^ Bits[type] - 1
      [] type \in {"int32", "int64"} -> v.k = "int64"
      [] type \in {"uint32", "uint64"} -> v.k = "bytes" \/ (v.k = "int64" /\ v.value >= 0)
      [] type = "NullInt64" -> v = Null \/ v.k = "int64"
      [] type = "NullTime" -> v = Null \/ NullTimeValue(ScanNullTime(v)).k = "time"
      [] type = "RawBytes" -> v = Null \/ v.k = "bytes"
      [] OTHER -> v.k = "float" \/ v = Null
-----------------------------------------------------------------------------
(* The server finds in an interpolated query the arguments that were given *)
(* and the words of the query, whatever is in the arguments and whichever  *)
(* way it reads literals (connection.go:180, utils.go:535-665).            *)
InterpolationIsFaithful(query, args, noBackslash) ==
    LET r == Interpolated(query, args, noBackslash, 400)
    IN  r.err = "" => Lex(r.text, noBackslash) = MeantQuery(query, args)

(* The server receives the arguments of a statement, those sent ahead in   *)
(* pieces included, and no piece is larger than a packet may be            *)
(* (packets.go:855-1140).                                                  *)
ArgumentsArrive(args, maxAllowedPacket) ==
    LET p == WriteExecute(args, Len(args), maxAllowedPacket)
    IN  /\ \A got \in {ServerReads(p, 1, p.values)} :
              Len(got) = Len(args) /\ \A i \in DOMAIN args : Received(args[i], got[i])
        /\ \A i \in DOMAIN p.ahead : 7 + Len(p.ahead[i].data) <= maxAllowedPacket - 1

(* A row is read as the server holds it, its NULLs at their places, and    *)
(* the two protocols agree on its dates and strings; every value goes into *)
(* the type that the driver announces for its column (packets.go:735,      *)
(* 1166, utils.go:163-380, fields.go:128).                                 *)
RowIsRead(columns, values, parseTime) ==
    \A data \in {ServerBinaryRow(columns, values)} :
    \A row \in {BinaryRow(data, columns, 1, data.values, parseTime)} :
       /\ row = [i \in DOMAIN columns |-> Delivered(columns[i], values[i], parseTime)]
       /\ (\A i \in DOMAIN columns : columns[i].type \notin DOMAIN TypeSize) =>
             TextRow(columns, ServerTextRow(columns, values), parseTime) = row
       /\ \A i \in DOMAIN columns : (columns[i].notNull /\ row[i] = Null) \/ Holds(ScanType(columns[i]), row[i])
=============================================================================
