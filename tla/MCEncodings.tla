----------------------------- MODULE MCEncodings -----------------------------
(* The algorithms of the repository that keep no state of their own, over  *)
(* bounded inputs.  A behaviour takes one input of one kind; the kinds     *)
(* "stream" and "tree" then operate on an RLP stream and on a Merkle tree. *)
EXTENDS Merkle, Integers, FiniteSets

CONSTANTS
    Kinds,   \* the kinds of inputs
    c1, c2   \* two contents of leaves, so that leaves are equal

VARIABLES
    kind,    \* what the input is for
    taken,   \* whether it has been taken
    input,
    stream, got, clean   \* of Rlp

encodingVars == <<kind, taken, input>>

allVars == <<encodingVars, stream, got, clean, vars>>

Upto(A, n) == UNION {[1..k -> A] : k \in 0..n}

Text(n) == [i \in 1..n |-> (7 * i + n) % 256]

-----------------------------------------------------------------------------
(* crypto/rlp.  Every sequence of at most three of these bytes, which      *)
(* begin short and long strings and lists, is put into a stream.           *)
StreamInputs ==
    LET A == {0, 5, 128, 129, 130, 192, 193, 194}
        ins == Upto(A, 3) \cup {<<194, 193>> \o i : i \in Upto(A, 2)}
    IN  {[in |-> i, limit |-> l, list |-> FALSE] : i \in ins, l \in {-1, 2}}
        \cup {[in |-> i, limit |-> l, list |-> TRUE] : i \in ins, l \in 1..3}

R == INSTANCE Rlp WITH Inputs <- StreamInputs

Of(k) == [k |-> k]

UintOf(n) == [k |-> "uint", n |-> n]

ArrayOf8(n) == [k |-> "array8", n |-> n]

SliceOf(t) == [k |-> "slice", elem |-> t, tail |-> FALSE]

StructOf(fs) == [k |-> "struct", fields |-> fs]

NilPtr(t, nk) == [k |-> "ptr", elem |-> t, nilOK |-> TRUE, nilKind |-> nk]

Str(b) == R!Str(b)

Lst(vs) == R!Lst(vs)

Strings == {Str(<<>>), Str(<<0>>), Str(<<127>>), Str(<<128>>), Str(Text(55)), Str(Text(56)), Str(Text(256))}

Numbers == {Str(<<>>), Str(<<1>>), Str(<<127>>), Str(<<128>>)}

(* Types, each with values of it: on both sides of 55 and 255 bytes, where *)
(* the headers grow.                                                       *)
Typed ==
    <<<<Of("string"), Strings>>,
      <<Of("any"), Strings \cup {Lst(<<>>), Lst(<<Lst(<<>>), Str(<<>>)>>), Lst(<<Str(Text(54))>>),
                                 Lst(<<Str(<<5>>), Lst(<<Str(Text(53))>>), Str(<<>>)>>),
                                 Lst(<<Str(<<200>>), Lst(<<Str(Text(256))>>)>>)}>>,
      <<Of("bool"), {Str(<<>>), Str(<<1>>)}>>,
      <<UintOf(1), Numbers>>,
      <<UintOf(2), Numbers \cup {Str(<<255, 0>>)}>>,
      <<Of("bigint"), Numbers \cup {Str(<<9, 9, 9>>)}>>,
      <<Of("raw"), {Str(<<5>>), Str(<<192>>), Str(<<193, 128>>), Str(<<184, 56>> \o Text(56))}>>,
      <<ArrayOf8(0), {Str(<<>>)}>>,
      <<ArrayOf8(1), {Str(<<0>>), Str(<<7>>), Str(<<200>>)}>>,
      <<ArrayOf8(2), {Str(<<0, 1>>)}>>,
      <<SliceOf(UintOf(2)), {Lst(<<>>), Lst(<<Str(<<>>)>>), Lst(<<Str(<<5>>), Str(<<200>>), Str(<<>>)>>)}>>,
      <<[k |-> "array", n |-> 2, elem |-> Of("bool"), tail |-> FALSE], {Lst(<<Str(<<>>), Str(<<1>>)>>)}>>,
      <<StructOf(<<UintOf(1), Of("string"), [k |-> "slice", elem |-> UintOf(2), tail |-> TRUE]>>),
        {Lst(<<Str(<<5>>), Str(<<>>), Lst(<<>>)>>), Lst(<<Str(<<>>), Str(<<7, 8>>), Lst(<<Str(<<>>), Str(<<128>>)>>)>>)}>>,
      <<StructOf(<<SliceOf(Of("bool")), StructOf(<<>>), Of("string")>>),
        {Lst(<<Lst(<<>>), Lst(<<>>), Str(Text(53))>>), Lst(<<Lst(<<Str(<<>>)>>), Lst(<<>>), Str(Text(55))>>)}>>,
      <<StructOf(<<[k |-> "ptr", elem |-> UintOf(1), nilOK |-> FALSE], NilPtr(UintOf(1), "string"),
                   NilPtr(StructOf(<<Of("bool")>>), "list")>>),
        {Lst(<<Str(<<3>>), R!Nil, R!Nil>>), Lst(<<Str(<<>>), Str(<<3>>), Lst(<<Str(<<>>)>>)>>)}>>,
      <<StructOf(<<NilPtr(Of("string"), "list"), NilPtr(SliceOf(Of("bool")), "string")>>),
        {Lst(<<R!Nil, R!Nil>>), Lst(<<Str(<<3>>), Lst(<<Str(<<>>)>>)>>)}>>>>

(* An encoding, with a byte of it changed, cut off, or with one more.      *)
Changed(b) ==
    LET odd == {0, 1, 55, 56, 127, 128, 129, 183, 184, 185, 191, 192, 193, 247, 248, 255}
    IN  {[b EXCEPT ![i] = x] : i \in DOMAIN b \cap (1..5), x \in odd}
        \cup {SubSeq(b, 1, n) : n \in {0, 1, 2, Len(b)} \cap (0..Len(b))} \cup {b \o <<x>> : x \in {0, 128, 192}}

-----------------------------------------------------------------------------
(* crypto/cryptobyte: programs that nest builders and sequences of bytes   *)
(* that are nearly elements, with contents on both sides of the lengths    *)
(* 127 and 255, where the length grows.                                    *)
C == INSTANCE Cryptobyte

Written(n) == C!Bytes2(Text(n))

Around(ps) ==
    {<<[do |-> "prefixed", n |-> n, in |-> p]>> : n \in 1..3, p \in ps}
    \cup {<<C!ASN1(48, p)>> : p \in ps} \cup {<<C!ASN1(31, <<>>)>>}

Programs ==
    LET leaf  == {<<>>, <<Written(2), Written(3)>>} \cup {<<Written(n)>> : n \in {1, 126, 127, 128, 254, 255, 256}}
        one   == Around(leaf)
        twice == {p \o q : p \in one, q \in {<<Written(1)>>, <<C!ASN1(4, <<Written(1)>>)>>}}
    IN  one \cup Around(twice) \cup twice

Elements ==
    LET heads == {<<t>> \o l : t \in {2, 3, 31, 48}, l \in Upto({0, 1, 2, 3, 127, 128, 129, 130, 255}, 3) \ {<<>>}}
        longs == {<<4>> \o l \o Text(n) :
                     l \in {<<127>>, <<129, 127>>, <<129, 128>>, <<130, 0, 128>>, <<130, 1, 0>>, <<129, 255>>},
                     n \in {126, 127, 128, 255, 256}}
    IN  heads \cup longs \cup {h \o <<b>> : h \in heads, b \in {0, 129}}

Ints == LET n == {0, 1, 127, 128, 129, 255, 256, 32767, 32768, 8388607} IN n \cup {-i : i \in n} \cup {-8388608}

IntValues ==
    {[kind |-> "int", program |-> C!AddSigned(2, v), v |-> v] : v \in Ints}
    \cup {[kind |-> "bigint", program |-> C!AddBigInt(v), v |-> v] : v \in Ints \ {-8388608}}
    \cup {[kind |-> "optint", program |-> <<C!ASN1(160, C!AddSigned(2, v))>>, v |-> v, tag |-> 160, default |-> 7] :
            v \in Ints \cap Nat}
    \cup {[kind |-> "optint", program |-> <<>>, v |-> 7, tag |-> 160, default |-> 7]}

BytesValues ==
    LET bytes == {Text(n) : n \in {0, 1, 127, 128}}
    IN  {[kind |-> "octets", program |-> C!AddOctetString(b), v |-> b] : b \in bytes}
        \cup {[kind |-> "optoctets", program |-> <<C!ASN1(161, C!AddOctetString(b))>>, v |-> b, tag |-> 161] :
                b \in bytes}
        \cup {[kind |-> "bits", program |-> C!AddBitString(b), v |-> b] : b \in bytes}
        \cup {[kind |-> "oid", program |-> C!AddOID(o), v |-> o] :
                o \in {<<a, b, c>> : a \in 0..2, b \in {0, 39}, c \in {0, 127, 128, 16383, 16384, 100000}}
                      \cup {<<2, b>> : b \in {0, 40, 47, 48, 1000}}}

-----------------------------------------------------------------------------
(* common/hexutil, common/types.go and common/math, with words of two      *)
(* nibbles, hashes of two bytes and a checksum that depends on all digits. *)
Checksum(digits, i) == LET n == Len(digits) + i IN (7 * n + 3 * i * i) % 16

H == INSTANCE Hex WITH WordNibbles <- 2, BigNibbles <- 5, UintNibbles <- 4, FixedLength <- 2, HashNibble <- Checksum

HexTexts ==
    Upto({"0", "1", "a", "F", "x", "g"}, 3) \cup {<<"0", "x">> \o s : s \in Upto({"0", "1", "b", "C", "g"}, 5)}

-----------------------------------------------------------------------------
(* lib/go-sql-driver/mysql: one parameter of every type or two of some;    *)
(* up to 18 parameters, so that the mask of NULLs has a third byte; texts  *)
(* on both sides of what a packet of max bytes leaves for a parameter; and *)
(* rows of up to 15 columns.                                               *)
V == INSTANCE MySQLValues

Quoted == {"n", "apostrophe", "backslash", "nl", "0"}

Literals ==
    {V!Int64(v) : v \in {0, -5, 12}} \cup {[k |-> "string", value |-> s] : s \in Upto(Quoted, 3)}
    \cup {V!Bytes(s) : s \in Upto(Quoted, 2)}
    \cup {V!NoTime, V!Time(<<2021, 2, 3, 4, 5, 6, 0>>), V!Time(<<1999, 12, 31, 23, 59, 59, 70>>), V!Null,
          [k |-> "bool", value |-> TRUE]}

FewLiterals == {V!Null, V!Int64(-3), [k |-> "string", value |-> <<"apostrophe">>], V!Bytes(<<"backslash">>)}

ExecArgs ==
    {V!Null, V!Int64(5), V!Int64(-300), [k |-> "uint64", value |-> 70000], [k |-> "bool", value |-> TRUE], V!NoTime,
     [k |-> "string", value |-> <<>>], [k |-> "string", value |-> Text(251)]}
    \cup {V!Bytes(Text(n)) : n \in {40, 63, 64, 100}}

Column(t, d, u, nn) == [type |-> t, decimals |-> d, unsigned |-> u, notNull |-> nn]

Columns ==
    {Column(t, 0, u, nn) : t \in {"tiny", "short", "longlong"}, u \in BOOLEAN, nn \in BOOLEAN}
    \cup {Column(t, 0, FALSE, FALSE) : t \in {"string", "date"}} \cup {Column("datetime", 0, FALSE, TRUE)}
    \cup {Column(t, 6, FALSE, FALSE) : t \in {"timestamp", "time"}}
    \cup {Column("datetime", 3, FALSE, FALSE), Column("time", 31, FALSE, FALSE)}

ValuesOf(c) ==
    CASE c.type = "tiny" -> IF c.unsigned THEN {0, 200} ELSE {-128, 5}
      [] c.type \in {"short", "longlong"} -> IF c.unsigned THEN {0, 60000} ELSE {-300, 5}
      [] c.type = "string" -> {Text(n) : n \in {0, 1, 250, 251}}
      [] c.type = "date" -> {<<>>, <<2021, 2, 3, 0, 0, 0, 0>>}
      [] c.type = "time" ->
            {<<0, 0, 0, 0, 0, 0>>, <<0, 0, 23, 59, 1, 0>>, <<1, 34, 22, 5, 9, 0>>}
            \cup (IF c.decimals = 6 THEN {<<0, 4, 4, 5, 9, 123456>>} ELSE {})
      [] OTHER ->
            {<<>>, <<2021, 2, 3, 0, 0, 0, 0>>, <<999, 12, 31, 23, 59, 58, 0>>}
            \cup (IF c.decimals = 6 THEN {<<2000, 1, 1, 0, 0, 0, 120003>>} ELSE {})

Cells(c) == {V!Held(v) : v \in ValuesOf(c)} \cup (IF c.notNull THEN {} ELSE {V!Absent})

Config == INSTANCE MySQLDSN WITH TLSConfigs <- {<<"my">>}, ServerPubKeys <- {<<"key", "/">>}, UnsafeCollations <- {<<"gbk">>}

Parameters ==
    {<<"db", "?", n, "=">> \o v :
        n \in Config!Names \cup {"compress", "strict", "x"},
        v \in {<<>>, <<"1">>, <<"True">>, <<"false">>, <<"my">>, <<"key", "%2F">>, <<"key", "%2F", "%">>,
               <<"skip-verify">>, <<"SKIP-VERIFY">>, <<"UTC">>, <<"gbk">>, <<"0s">>, <<"1s">>, <<"-1s">>}}
    \cup {<<>>, <<"db">>,
          <<"?", "x", "=", "a", "&", "x", "=", "%26", "b", "&", "tls", "=", "true", "&", "y", "=", "%3D">>,
          <<"?", "interpolateParams", "=", "1", "&", "collation", "=", "gbk">>, <<"?", "y", "&", "&", "z", "=", "=">>}

-----------------------------------------------------------------------------
(* crypto/pkcs12, with a digest of 20 bytes that depends on all the text   *)
(* and carries when 1 is added to it.                                      *)
ToySha1(text) ==
    LET n == Len(text)
    IN  [i \in 1..20 |-> IF i > 2 THEN (5 * text[1 + ((n - 3 + i) % n)] + i) % 256
                                  ELSE text[1 + ((n - 3 + i) % n)]]

P12 == INSTANCE Pkcs12 WITH Sha1Sum <- ToySha1

Under == {<<>>, <<0, 0>>, <<0, 7, 0, 0>>}

Bags ==
    {[id |-> "cert", x509 |-> TRUE, certs |-> c, attributes |-> a] :
        c \in 1..2, a \in {{}, {"friendlyName"}, {"other"}}}
    \cup {[id |-> "key", under |-> u, attributes |-> {"localKeyId"}] : u \in Under}
    \cup {[id |-> "cert", x509 |-> FALSE, certs |-> 0, attributes |-> {}], [id |-> "other", attributes |-> {}]}

Safes(b, c) ==
    {<<[type |-> "encrypted", version |-> v, under |-> u, bags |-> b], [type |-> "data", bags |-> c]>> :
        v \in 0..1, u \in Under}
    \cup {<<[type |-> "data", bags |-> b], [type |-> "data", bags |-> c]>>,
          <<[type |-> "data", bags |-> b \o c], [type |-> "data", bags |-> <<>>]>>,
          <<[type |-> "data", bags |-> b]>>,
          <<[type |-> "other", bags |-> b], [type |-> "data", bags |-> c]>>}

Pfx(w, s) == [version |-> 3, type |-> "data", mac |-> [alg |-> "SHA1", under |-> w], safe |-> s]

-----------------------------------------------------------------------------
(* crypto/ed25519: the ten limbs with a bit or two each, which makes the   *)
(* modulus 2^15 - 19, and four limbs, so that a carry runs through all of  *)
(* them; scalars of six digits of two bits; and a curve over 509.          *)
F == INSTANCE EdwardsField WITH Limbs <- 10, Even <- 2, Odd <- 1, Nineteen <- 19

F4 == INSTANCE EdwardsField WITH Limbs <- 4, Even <- 5, Odd <- 4, Nineteen <- 3

OrderDigits == <<1, -1, 1, 0, 1, -1>>

Sc == INSTANCE EdwardsScalar WITH Bits <- 2, Digits <- OrderDigits

FieldElements ==
    {[k \in 0..9 |-> IF k = i THEN v ELSE 0] : i \in 0..9, v \in {1, -3}}
    \cup {[k \in 0..9 |-> ((n * (k + 3) * (k + 5)) % 9) - 4] : n \in 1..12}

BitsTaken == [k \in 0..9 |-> <<1, 0, 1, 1, 0, 1, 1, 0, 1, 0>>[k + 1]]

RECURSIVE Mix(_)
Mix(t) == IF t = <<>> THEN 7 ELSE (31 * Mix(Tail(t)) + 17 * Head(t) + 5) % 65521

ToyDigest(what, t) == LET m == Mix(IF what = "seed" THEN <<t, 3>> ELSE t) IN <<m, (m * 7 + 1) % 65536>>

G == INSTANCE Edwards25519 WITH P <- 509, D <- 88, L <- 67, BaseY <- 238, FieldBits <- 9, ScalarBytes <- 2, Digest <- ToyDigest

-----------------------------------------------------------------------------
Operated == {"stream", "tree"}

StreamIdle == stream = <<>> /\ got = <<>> /\ clean = FALSE

TreeIdle == leafs = <<>> /\ levels = <<>> /\ merkleRoot = <<>> /\ failed = FALSE

EncodingsInit ==
    /\ kind \in Kinds
    /\ taken = (kind \in Operated)
    /\ input = <<>>
    /\ IF kind = "stream" THEN R!StreamInit ELSE StreamIdle
    /\ IF kind = "tree" THEN Init ELSE TreeIdle

Takes(k) == kind = k /\ ~taken /\ taken' = TRUE /\ UNCHANGED <<kind, stream, got, clean, vars>>

TakeOf(k, inputs) == Takes(k) /\ \E i \in inputs : input' = i

TakeTyped ==
    Takes("typed value") /\ \E t \in DOMAIN Typed : \E v \in Typed[t][2] : input' = <<Typed[t][1], v>>

(* An encoding is decoded for a type of its own or another. *)
TakeEncoded ==
    /\ Takes("encoded")
    /\ \E s, t \in DOMAIN Typed : \E v \in Typed[t][2] :
          LET b == R!EncodeToBytes(Typed[t][1], v)
          IN  \E d \in (IF s = t THEN Changed(b) ELSE {b}) : input' = <<Typed[s][1], d>>

TakeQuery ==
    /\ Takes("query")
    /\ \E b \in BOOLEAN :
          \/ \E a \in Literals, q \in {<<"?">>, <<"SELECT", "?">>, <<"?", ",", "n">>} : input' = <<q, <<a>>, b>>
          \/ \E a1, a2 \in FewLiterals : input' = <<<<"n", "?", "=", "?">>, <<a1, a2>>, b>>

TakeArguments ==
    /\ Takes("arguments")
    /\ \/ \E a1, a2 \in ExecArgs, max \in {100, 200, 1000} : input' = <<<<a1, a2>>, max>>
       \/ \E n \in 7..18, max \in {100, 1000}, a \in ExecArgs :
              input' = <<[i \in 1..n |-> CASE i = 9 -> a [] i = 10 -> V!Null [] OTHER -> V!Int64(i)], max>>

TakeRow ==
    /\ Takes("row")
    /\ \E c \in Columns, parseTime \in BOOLEAN : \E v \in Cells(c) :
          \/ \E d \in Columns : \E w \in Cells(d) : input' = <<<<c, d>>, <<v, w>>, parseTime>>
          \/ \E n \in 5..15 :
                input' = <<[i \in 1..n |-> c], [i \in 1..n |-> IF i = n \/ c.notNull THEN v ELSE V!Absent], parseTime>>

TakeDSN ==
    /\ Takes("dsn")
    /\ \/ \E l \in Upto({"u", ":", "@", "/", "(", ")", "tcp"}, 5) : input' = l \o <<"/", "db">>
       \/ \E l \in Upto({"u", "p", ":", "@", "/", "(", "?"}, 4) :
             input' = <<"u", ":">> \o l \o <<"@", "tcp", "(", "h", ":", "1", ")", "/", "db", "?", "tls", "=", "true">>
       \/ \E a \in Upto({"h", ":", "[", "]"}, 5), r \in {<<>>, <<"?", "tls", "=", "true">>} :
             input' = <<"tcp", "(">> \o a \o <<")", "/", "db">> \o r
       \/ \E r \in Parameters, l \in {<<>>, <<"u", "@", "unix", "(", "/", "s", ")">>, <<"tcp", "(", "h", ")">>} :
             input' = l \o <<"/">> \o r

TakeKey ==
    /\ Takes("derived key")
    /\ \E salt \in Upto({1, 255}, 2), password \in Upto({0, 255}, 2), size \in {5, 24, 41}, r \in 1..2 :
          input' = <<salt, password, r, 1, size>>

TakeBlock ==
    /\ Takes("block")
    /\ \E n \in {1, 2, 5, 8, 16}, bits \in {8, 40, 63, 64}, b \in {Text(8), [i \in 1..8 |-> 255]} :
          input' = <<Text(n), bits, b>>

TakeText ==
    /\ Takes("deciphered text")
    /\ \E n \in 0..17, r \in 1..2 : input' = <<<<1, 2>>, r, P12!BmpString(<<7, 8>>).v, Text(n)>>

TakePfx ==
    /\ Takes("pfx")
    /\ \E a, b, c \in Bags, w \in Under, password \in {<<>>, <<7>>} :
          \E s \in Safes(<<a>>, <<b>>) \cup {<<[type |-> "data", bags |-> <<a, b>>], [type |-> "data", bags |-> <<c>>]>>} :
              input' = <<Pfx(w, s), password>>

TakeElements == Takes("field elements") /\ \E f, g \in FieldElements : input' = <<f, g>>

TakeLimbs ==
    /\ Takes("limbs")
    /\ \E a, c \in {-17, -16, -1, 0, 1, 2, 15, 16, 17}, b, d \in {-8, -7, -1, 0, 1, 7, 8} :
          input' = [k \in 0..3 |-> <<a, b, c, d>>[k + 1]]

TakeScalars ==
    /\ Takes("scalars")
    /\ LET E == {0, 1, 3, 1000, 65537, Sc!Order - 1, Sc!Order, 2 ^ 24 - 1, 2 ^ 25 - 1}
       IN  \E a, b, c \in E : input' = <<a, b, c>>

TakeDigest ==
    /\ Takes("digest")
    /\ \/ \E n \in 1..200 : input' = [k \in 1..24 |-> ((n * n * (k + 3) + n * k * k) \div 7) % 4]
       \/ \E n \in 1..3 : input' = [k \in 1..24 |-> n]

TakeMultiple ==
    /\ Takes("multiple")
    /\ \E i, j, k \in {0, 7, 8, 9, 15}, l \in {0, 4, 7} : input' = i + 16 * j + 256 * k + 4096 * l

TakeSum ==
    /\ Takes("sum")
    /\ \E i, j \in {0, 1, 31, 85, 127}, s \in {2, 3, 750, 101}, k \in {0, 1, 127, 255}, l \in {0, 63, 127} :
          input' = <<i + 256 * j, s, k + 256 * l>>

TakeSeed == Takes("seed") /\ \E s \in 1..8, m \in 1..2 : input' = <<s, m>>

StreamStep == kind = "stream" /\ R!StreamNext /\ UNCHANGED <<kind, taken, input, vars>>

TreeStep == kind = "tree" /\ Next /\ UNCHANGED <<kind, taken, input, stream, got, clean>>

EncodingsNext ==
    \/ TakeTyped \/ TakeEncoded \/ StreamStep \/ TreeStep
    \/ TakeOf("program", Programs) \/ TakeOf("element", Elements)
    \/ TakeOf("asn1 value", IntValues) \/ TakeOf("asn1 value", BytesValues)
    \/ TakeOf("hex bytes", Upto({0, 1, 15, 16, 171, 255}, 4)) \/ TakeOf("hex number", (Ints \cap Nat) \cup 0..300)
    \/ TakeOf("hex text", HexTexts) \/ TakeOf("words", (0..31) \X (0..31))
    \/ TakeQuery \/ TakeArguments \/ TakeRow \/ TakeDSN
    \/ TakeOf("bmp", Upto({0, 97, 255, 256, 65535, 65536}, 3)) \/ TakeKey \/ TakeBlock \/ TakeText \/ TakePfx
    \/ TakeElements \/ TakeLimbs \/ TakeOf("field bytes", {n * 109 : n \in 1..300}) \/ TakeScalars \/ TakeDigest
    \/ TakeMultiple \/ TakeSum \/ TakeOf("point", 0..1023) \/ TakeSeed

EncodingsSpec == EncodingsInit /\ [][EncodingsNext]_allVars

-----------------------------------------------------------------------------
Given(k) == taken /\ kind = k

(* decode.go: whatever operations a caller mixes, what it has read is what *)
(* the bytes behind the stream's position encode.                          *)
StreamReadsInput == R!StreamReadsInput

(* encode.go, decode.go, raw.go: what is encoded decodes to itself, also   *)
(* through encReader; nothing but an encoding decodes; and a slice is      *)
(* split where a stream reads.                                             *)
RlpIsFaithful ==
    /\ Given("typed value") => R!RlpRoundTrip(input[1], input[2]) /\ R!RlpReadersAgree(input[1], input[2])
    /\ Given("encoded") => R!RlpIsCanonical(input[1], input[2]) /\ R!RlpSplitAgrees(input[2])

(* decode.go: once a value has been decoded, Kind looks at the next one.   *)
KindIsOfNextValue == Given("encoded") => R!KindIsFresh(input[1], input[2])

(* cryptobyte: what a builder writes, nested to any depth, a String reads; *)
(* a value written as ASN.1 is the one read, but for -1 as a big.Int; what *)
(* is read is DER.                                                         *)
DerIsFaithful ==
    /\ Given("program") => C!BuiltIsRead(input)
    /\ Given("asn1 value") => C!ValueIsRead(input)
    /\ Given("element") => C!ReadIsDER(input)

(* asn1.go:66: AddASN1BigInt writes every number (violated). *)
BigIntIsWritten == Given("asn1 value") => C!BigIntIsWritten(input)

(* hexutil, common/types.go, common/math: bytes and numbers survive their  *)
(* texts; the parsers of one text agree; wrapping arithmetic is exact.     *)
HexIsFaithful ==
    /\ Given("hex bytes") => H!BytesAreRead(input)
    /\ Given("hex number") => H!NumberIsRead(input)
    /\ Given("hex text") => H!ParsersAgree(input)
    /\ Given("words") => H!ArithmeticIsExact(input[1], input[2], 5)

(* The MySQL driver: an interpolated query is scanned by the server as the *)
(* literals of its arguments; the server of a prepared statement receives  *)
(* the arguments, through whichever packets; a row is the one sent.        *)
MySQLValuesArrive ==
    /\ Given("query") => V!InterpolationIsFaithful(input[1], input[2], input[3])
    /\ Given("arguments") => V!ArgumentsArrive(input[1], input[2])
    /\ Given("row") => V!RowIsRead(input[1], input[2], input[3])

(* dsn.go: a data source name that is accepted, written from its Config,   *)
(* is read as the same Config, where the format has a place for it.        *)
ConfigIsRead == Given("dsn") => Config!ConfigIsRead(input)

(* README.md:105-107 of the driver: a host without a port gets one, and an *)
(* IPv6 address is to be put in brackets (violated, for such an address).  *)
DefaultPortIsAdded == Given("dsn") => Config!DefaultPortIsAdded(input)

(* pkcs12: texts and keys are those of RFC 7292, appendix B; a ciphered    *)
(* block and text come back; a file is opened under its password only.     *)
PfxIsOpened ==
    /\ Given("bmp") => P12!BmpIsRead(input)
    /\ Given("derived key") => P12!DerivesAsSpecified(input[1], input[2], input[3], input[4], input[5])
    /\ Given("block") => P12!BlocksAreDeciphered(input[1], input[2], input[3])
    /\ Given("deciphered text") => P12!TextIsOpened(input[1], input[2], input[3], input[4])
    /\ Given("pfx") => P12!FileIsOpened(input[1], input[2])

(* edwards25519: carries, folds and windows compute in the field, modulo   *)
(* the order and on the curve what the numbers they stand for do.          *)
CurveIsExact ==
    /\ Given("field elements") => F!FieldIsExact(input[1], input[2])
    /\ Given("limbs") => F4!BytesAreCanonical(input)
    /\ Given("field bytes") => F!BytesAreTaken(input, BitsTaken) /\ F!ChainsReachExponents
    /\ Given("scalars") => Sc!MulAddIsExact(input[1], input[2], input[3])
    /\ Given("digest") => Sc!ReduceIsExact(input)
    /\ Given("multiple") => G!BaseIsMultiplied(input)
    /\ Given("sum") => G!SumIsMultiplied(input[1], input[2], input[3])
    /\ Given("point") => G!PointIsRead(input)

(* ed25519.go: a signature verifies for its message, and no other scalar   *)
(* does with it: none that adds the order, as ScMinimal sees to.           *)
OnlySignatureVerifies == Given("seed") => G!OnlySignatureVerifies(input[1], input[2], 0..150)

(* merkle_tree.go, blockhandler.go: a tree's root is that of the reference *)
(* tree, after any rebuilds; every path leads to it; no other contents of  *)
(* the same number of leaves have it.                                      *)
TreeIsReference ==
    kind = "tree" => RootIsReference /\ PathLeadsToRoot /\ RootDeterminesContents
=============================================================================
