------------------------------ MODULE Cryptobyte ------------------------------
(***************************************************************************)
(* The Builder and the String of crypto/cryptobyte, with their ASN.1       *)
(* (builder.go, string.go, asn1.go).                                       *)
(*                                                                         *)
(* What a caller writes is a program, a sequence of items: bytes, a        *)
(* length-prefixed or an ASN.1 element with the program of its             *)
(* continuation, Unwrite, SetError, or a panic.  A Builder is a record; a  *)
(* String is the bytes that are left, with what was read.  Integers are    *)
(* TLC's, of at most four bytes.                                           *)
(***************************************************************************)
EXTENDS Integers, Sequences, SequencesExt

NoCap == -1

NewBuilder(cap) == [result |-> <<>>, cap |-> cap, offset |-> 0, pending |-> 0, err |-> "", panic |-> ""]

Stopped(b) == b.err # "" \/ b.panic # ""

Zeros(n) == [i \in 1..n |-> 0]

(* add *)
AddBytes(b, v) ==
    CASE Stopped(b) -> b
      [] ~Stopped(b) /\ b.cap # NoCap /\ Len(b.result) + Len(v) > b.cap -> [b EXCEPT !.err = "fixed size"]
      [] OTHER -> [b EXCEPT !.result = @ \o v]

Written(b) == Len(b.result) - b.pending - b.offset

(* Unwrite *)
Unwrite(b, n) ==
    CASE Stopped(b) -> b
      [] ~Stopped(b) /\ n > Written(b) -> [b EXCEPT !.panic = "unwrite"]
      [] OTHER -> [b EXCEPT !.result = SubSeq(@, 1, Len(@) - n)]

(* A number in n bytes, and whether it fits. *)
BigEndian(v, n) == [i \in 1..n |-> (v \div 256 ^ (n - i)) % 256]

Fits(v, n) == n >= 3 \/ v < 256 ^ n

(* The bytes of the length of an ASN.1 element, the first included. *)
LenLen(length) ==
    CASE length > 65535 -> 4
      [] length > 255 /\ length <= 65535 -> 3
      [] length > 127 /\ length <= 255 -> 2
      [] OTHER -> 1

Overlay(q, at, v) == [i \in DOMAIN q |-> IF i > at /\ i <= at + Len(v) THEN v[i - at] ELSE q[i]]

(* flushChild for an ASN.1 element: room is made for the length, by        *)
(* moving the contents along.  The error of the child is not looked at     *)
(* again.                                                                  *)
FlushASN1(b, c) ==
    LET extra == LenLen(Written(c)) - 1
        grown == AddBytes(c, Zeros(extra)).result
        start == c.offset + 1
        moved == Overlay(grown, start + extra, SubSeq(c.result, start + 1, Len(c.result)))
        length == IF extra = 0 THEN <<Written(c)>> ELSE <<128 + extra>> \o BigEndian(Written(c), extra)
    IN  [b EXCEPT !.result = Overlay(moved, c.offset, length)]

(* flushChild, for the child c of b. *)
FlushChild(b, c, asn1) ==
    CASE c.err # "" -> [b EXCEPT !.err = c.err]
      [] c.err = "" /\ Written(c) < 0 -> [b EXCEPT !.panic = "internal error"]
      [] c.err = "" /\ Written(c) >= 0 /\ asn1 -> FlushASN1(b, c)
      [] OTHER ->
            IF Fits(Written(c), c.pending)
            THEN [b EXCEPT !.result = Overlay(c.result, c.offset, BigEndian(Written(c), c.pending))]
            ELSE [b EXCEPT !.err = "child too long"]

(* addLengthPrefixed: the child is made also when the prefix did not fit.  *)
(* A panic goes up to the outermost builder, which makes an error of a     *)
(* BuildError (callContinuation).                                          *)
RECURSIVE Build(_, _, _)
AddLengthPrefixed(b, n, asn1, program, outermost) ==
    IF Stopped(b) THEN b
    ELSE LET p == AddBytes(b, Zeros(n))
             child == [p EXCEPT !.offset = Len(b.result), !.pending = n, !.err = ""]
             c == Build(child, program, FALSE)
         IN  CASE c.panic = "" -> FlushChild(p, c, asn1)
               [] c.panic = "BuildError" /\ outermost -> [b EXCEPT !.err = "BuildError"]
               [] OTHER -> [b EXCEPT !.panic = c.panic]

HighTag(tag) == tag % 32 = 31

(* AddASN1 *)
AddASN1(b, tag, program, outermost) ==
    IF Stopped(b) THEN b
    ELSE IF HighTag(tag) THEN [b EXCEPT !.err = "high tag"]
    ELSE AddLengthPrefixed(AddBytes(b, <<tag>>), 1, TRUE, program, outermost)

Item(b, i, outermost) ==
    CASE i.do = "bytes" -> AddBytes(b, i.v)
      [] i.do = "prefixed" -> AddLengthPrefixed(b, i.n, FALSE, i.in, outermost)
      [] i.do = "asn1" -> AddASN1(b, i.tag, i.in, outermost)
      [] i.do = "unwrite" -> Unwrite(b, i.n)
      [] i.do = "error" -> IF b.panic # "" THEN b ELSE [b EXCEPT !.err = "set"]
      [] i.do = "panic" -> IF b.panic # "" THEN b ELSE [b EXCEPT !.panic = i.with]

(* A continuation, or the program of the outermost builder. *)
Build(b, program, outermost) == FoldLeft(LAMBDA x, i : Item(x, i, outermost), b, program)

(* Bytes; a panic is one of the program. *)
Result(program, cap) ==
    LET b == Build(NewBuilder(cap), program, TRUE)
    IN  [err |-> b.err, panic |-> b.panic, v |-> IF Stopped(b) THEN <<>> ELSE b.result]

-----------------------------------------------------------------------------
(* The contents of ASN.1 elements, asn1.go. *)

Bytes2(v) == [do |-> "bytes", v |-> v]

ASN1(tag, in) == [do |-> "asn1", tag |-> tag, in |-> in]

(* addASN1Signed: the fewest bytes that hold the number and its sign. *)
SignedLength(v) == CHOOSE n \in 1..4 : (n = 4 \/ (v < 128 * 256 ^ (n - 1) /\ v >= -128 * 256 ^ (n - 1)))
                                       /\ \A k \in 1..n - 1 : ~(v < 128 * 256 ^ (k - 1) /\ v >= -128 * 256 ^ (k - 1))

(* The bytes of a number below 2^23 in two's complement. *)
Signed(v) == BigEndian(IF v < 0 THEN v + 256 ^ 3 ELSE v, 3)

AddSigned(tag, v) == <<ASN1(tag, <<Bytes2(SubSeq(Signed(v), 4 - SignedLength(v), 3))>>)>>

(* AddASN1BigInt, of the bytes of the magnitude.  Whether a negative       *)
(* number needs a byte more is asked of the first of its inverted bytes,   *)
(* and -1 has none: the index is out of range.                             *)
Magnitude(v) == IF v = 0 THEN <<>> ELSE LET n == CHOOSE k \in 1..3 : v < 256 ^ k /\ v >= 256 ^ (k - 1) IN BigEndian(v, n)

AddBigInt(v) ==
    LET inverted == LET m == Magnitude(-v - 1) IN [i \in DOMAIN m |-> 255 - m[i]]
        positive == Magnitude(v)
    IN  <<ASN1(2, IF v < 0
                  THEN IF inverted = <<>> THEN <<[do |-> "panic", with |-> "index out of range"]>>
                       ELSE <<Bytes2(IF inverted[1] < 128 THEN <<255>> \o inverted ELSE inverted)>>
                  ELSE <<Bytes2(IF v = 0 THEN <<0>> ELSE IF positive[1] >= 128 THEN <<0>> \o positive ELSE positive)>>)>>

(* addBase128Int *)
Base128(n) ==
    LET length == IF n = 0 THEN 1 ELSE CHOOSE k \in 1..5 : n < 128 ^ (k - 1) * 128 /\ n >= (IF k = 1 THEN 0 ELSE 128 ^ (k - 1))
    IN  [i \in 1..length |-> ((n \div 128 ^ (length - i)) % 128) + (IF i < length THEN 128 ELSE 0)]

(* isValidOID *)
ValidOID(oid) == Len(oid) >= 2 /\ oid[1] <= 2 /\ (oid[1] <= 1 => oid[2] < 40)

AddOID(oid) ==
    <<ASN1(6, IF ~ValidOID(oid) THEN <<[do |-> "error"]>>
              ELSE <<Bytes2(Base128(40 * oid[1] + oid[2]))>>
                   \o [i \in 1..Len(oid) - 2 |-> Bytes2(Base128(oid[i + 2]))])>>

AddBoolean(v) == <<ASN1(1, <<Bytes2(<<IF v THEN 255 ELSE 0>>)>>)>>

AddBitString(v) == <<ASN1(3, <<Bytes2(<<0>>), Bytes2(v)>>)>>

AddOctetString(v) == <<ASN1(4, <<Bytes2(v)>>)>>

-----------------------------------------------------------------------------
(* String: what is read, and what is left; nothing is read upon a failure  *)
(* of read itself, while a longer operation may have read a part.          *)

Got(v, rest) == [ok |-> TRUE, v |-> v, rest |-> rest, tag |-> 0]

No(rest) == [ok |-> FALSE, v |-> <<>>, rest |-> rest, tag |-> 0]

(* read *)
Read(s, n) == IF Len(s) < n THEN No(s) ELSE Got(SubSeq(s, 1, n), SubSeq(s, n + 1, Len(s)))

Unsigned(v) == FoldLeft(LAMBDA n, d : 256 * n + d, 0, v)

(* readLengthPrefixed *)
ReadLengthPrefixed(s, n) ==
    LET length == Read(s, n)
    IN  IF ~length.ok THEN length ELSE Read(length.rest, Unsigned(length.v))

AnyLengthBug(v) == TRUE

(* The length in long form has to be the shortest. *)
Minimal(v) == Unsigned(v) >= 128 /\ v[1] # 0

(* readASN1, with the header left out; four bytes of length are more than  *)
(* any input here has.                                                     *)
ReadASN1(s) ==
    LET n == s[2] - 128
        length == SubSeq(s, 3, 2 + n)
        element(header, size) ==
            LET r == Read(s, header + size)
            IN  IF r.ok THEN [r EXCEPT !.v = SubSeq(@, header + 1, Len(@)), !.tag = s[1]] ELSE r
    IN  CASE Len(s) < 2 -> No(s)
          [] Len(s) >= 2 /\ HighTag(s[1]) -> No(s)
          [] Len(s) >= 2 /\ ~HighTag(s[1]) /\ s[2] < 128 -> element(2, s[2])
          [] OTHER ->
                IF n = 0 \/ n > 3 \/ Len(s) < 2 + n THEN No(s)
                ELSE IF Minimal(length) THEN element(2 + n, Unsigned(length)) ELSE No(s)

(* ReadASN1 of a given tag: it has advanced also when the tag is another.  *)
ReadTagged(s, tag) ==
    LET r == ReadASN1(s) IN IF r.ok /\ r.tag # tag THEN No(r.rest) ELSE r

(* ReadOptionalASN1 *)
ReadOptional(s, tag) ==
    IF s # <<>> /\ s[1] = tag THEN ReadTagged(s, tag) ELSE [Got("absent", s) EXCEPT !.tag = tag]

(* checkASN1Integer *)
CheckInteger(v) ==
    Len(v) > 0 /\ (Len(v) > 1 => ~(v[1] = 0 /\ v[2] < 128) /\ ~(v[1] = 255 /\ v[2] >= 128))

(* asn1Signed, readASN1BigInt *)
SignedOf(v) == Unsigned(v) - (IF v[1] >= 128 THEN 256 ^ Len(v) ELSE 0)

Of(r, test(_), value(_)) ==
    IF r.ok /\ test(r.v) THEN [r EXCEPT !.v = value(r.v)] ELSE No(r.rest)

ReadInteger(s, tag) ==
    LET short(v) == CheckInteger(v) /\ Len(v) <= 3 IN Of(ReadTagged(s, tag), short, SignedOf)

(* readBase128Int: at most four bytes; an error leaves rest as it is. *)
RECURSIVE ReadBase128(_, _, _)
ReadBase128(s, n, v) ==
    IF s = <<>> \/ n = 4 THEN No(s)
    ELSE IF s[1] < 128 THEN Got(128 * v + s[1], Tail(s))
    ELSE ReadBase128(Tail(s), n + 1, 128 * v + s[1] - 128)

RECURSIVE Components(_)
Components(s) ==
    IF s = <<>> THEN Got(<<>>, <<>>)
    ELSE LET first == ReadBase128(s, 0, 0)
             others == Components(first.rest)
         IN  IF first.ok /\ others.ok THEN Got(<<first.v>> \o others.v, <<>>) ELSE No(s)

(* ReadASN1ObjectIdentifier *)
ReadOID(s) ==
    LET good(v) == v # <<>> /\ Components(v).ok
        oid(v) == LET c == Components(v).v
                      head == IF c[1] < 80 THEN <<c[1] \div 40, c[1] % 40>> ELSE <<2, c[1] - 80>>
                  IN  head \o Tail(c)
    IN  Of(ReadTagged(s, 6), good, oid)

(* ReadASN1Boolean reads an INTEGER. *)
ReadBoolean(s) ==
    LET good(v) == v \in {<<0>>, <<255>>}
        value(v) == v = <<255>>
    IN  Of(ReadTagged(s, 2), good, value)

(* ReadASN1BitString: the bits in use of the last byte are the padding's   *)
(* complement.                                                             *)
ReadBitString(s) ==
    LET good(v) ==
            /\ v # <<>> /\ v[1] <= 7
            /\ IF Len(v) = 1 THEN v[1] = 0 ELSE v[Len(v)] % 2 ^ v[1] = 0
        value(v) == [length |-> 8 * (Len(v) - 1) - v[1], bits |-> Tail(v)]
    IN  Of(ReadTagged(s, 3), good, value)

(* ReadOptionalASN1Integer, with an explicit tag and a default. *)
ReadOptionalInteger(s, tag, default) ==
    LET r == ReadOptional(s, tag)
        in == ReadInteger(r.v, 2)
    IN  CASE ~r.ok -> r
          [] r.ok /\ r.v = "absent" -> [r EXCEPT !.v = default]
          [] OTHER -> IF in.ok /\ in.rest = <<>> THEN [in EXCEPT !.rest = r.rest] ELSE No(r.rest)

(* ReadOptionalASN1OctetString *)
ReadOptionalOctetString(s, tag) ==
    LET r == ReadOptional(s, tag)
        in == ReadTagged(r.v, 4)
    IN  CASE ~r.ok -> r
          [] r.ok /\ r.v = "absent" -> [r EXCEPT !.v = <<>>]
          [] OTHER -> IF in.ok /\ in.rest = <<>> THEN [in EXCEPT !.rest = r.rest] ELSE No(r.rest)

(* ReadOptionalASN1Boolean: a BOOLEAN that is present is skipped, and what *)
(* follows it is read.                                                     *)
ReadOptionalBoolean(s, default) ==
    LET r == ReadOptional(s, 1)
    IN  CASE ~r.ok -> r
          [] r.ok /\ r.v = "absent" -> [r EXCEPT !.v = default]
          [] OTHER -> ReadBoolean(r.rest)

-----------------------------------------------------------------------------
(* What a program wrote is read back along its structure. *)
RECURSIVE ReadBack(_, _)
ReadBack(program, s) ==
    IF program = <<>> THEN [ok |-> TRUE, rest |-> s]
    ELSE LET i == Head(program)
             r == CASE i.do = "bytes" -> Read(s, Len(i.v))
                    [] i.do = "prefixed" -> ReadLengthPrefixed(s, i.n)
                    [] OTHER -> ReadTagged(s, i.tag)
             same == IF i.do = "bytes" THEN r.v = i.v ELSE ReadBack(i.in, r.v) = [ok |-> TRUE, rest |-> <<>>]
         IN  IF r.ok /\ same THEN ReadBack(Tail(program), r.rest) ELSE [ok |-> FALSE, rest |-> s]

(* What a builder made without an error is read back, for a program of     *)
(* bytes, length-prefixed and ASN.1 elements, also where a length needs    *)
(* one more byte than the builder had reserved (builder.go:206,            *)
(* asn1.go:681).                                                           *)
BuiltIsRead(program) ==
    LET r == Result(program, NoCap)
    IN  r.err = "" => r.panic = "" /\ ReadBack(program, r.v) = [ok |-> TRUE, rest |-> <<>>]

(* The value written is the one read. *)
IsRead(a) ==
    LET rest == <<2, 1>>
        written == Result(a.program, NoCap).v \o rest
        is(r) == r.ok /\ r.v = a.v /\ r.rest = rest
    IN  is(CASE a.kind \in {"int", "bigint"} -> ReadInteger(written, 2)
             [] a.kind = "oid" -> ReadOID(written)
             [] a.kind = "octets" -> ReadTagged(written, 4)
             [] a.kind = "optint" -> ReadOptionalInteger(written, a.tag, a.default)
             [] a.kind = "optoctets" -> ReadOptionalOctetString(written, a.tag)
             [] OTHER -> [ReadBitString(written) EXCEPT !.v = @.bits])

(* The values written are those read: integers with their sign, object     *)
(* identifiers, strings of bits and of octets, and nothing after them is   *)
(* touched (asn1.go:22-180, 259-508).  The one exception is -1 as a        *)
(* big.Int, at which AddASN1BigInt panics.                                 *)
ValueIsRead(a) == [kind |-> a.kind, v |-> a.v] # [kind |-> "bigint", v |-> -1] => IsRead(a)

(* asn1.go:66: "AddASN1BigInt appends a DER-encoded ASN.1 INTEGER", of     *)
(* every number it is given.  It does not of -1: TLC finds this violated.  *)
BigIntIsWritten(a) == a.kind = "bigint" => IsRead(a)

(* An element that is read has one encoding only: writing its tag and its  *)
(* contents, or the integer read from it, gives the bytes that were read   *)
(* (asn1.go:286, 681).  AddASN1BigInt does so for all integers but -1.     *)
ReadIsDER(s) ==
    LET r == ReadASN1(s)
        i == ReadInteger(s, 2)
    IN  /\ r.ok => Result(<<ASN1(r.tag, <<Bytes2(r.v)>>)>>, NoCap).v \o r.rest = s
        /\ i.ok => Result(AddSigned(2, i.v), NoCap).v \o i.rest = s /\ (i.v # -1 => AddBigInt(i.v) = AddSigned(2, i.v))

(* What NewFixedBuilder promises: "Writes that would exceed the buffer's   *)
(* capacity are treated as an error" (builder.go:44); then what is made    *)
(* without one is what a builder that grows makes, and nothing panics.     *)
FixedBuilderKeepsBytes(program, cap) ==
    LET r == Result(program, cap)
    IN  r.err # "" \/ (r.panic = "" /\ r = Result(program, NoCap))
=============================================================================
