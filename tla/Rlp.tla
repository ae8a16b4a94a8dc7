--------------------------------- MODULE Rlp ---------------------------------
(***************************************************************************)
(* The RLP codec (crypto/rlp): the encoder and its buffer (encode.go), the *)
(* input stream and the decoders of Go types (decode.go), and the reader   *)
(* of slices (raw.go); and at the end a stream in the hands of a caller.   *)
(*                                                                         *)
(* A value is a string of bytes or a list of values; Go types that are     *)
(* numbers (uint, bool, big.Int) hold the bytes of their value, the empty  *)
(* string for zero.  A type is a record with its Kind in k.  Sizes that no *)
(* input has are all the same, Huge; that a buffer of such a size may not  *)
(* be made, of which Decode warns, is left out.                            *)
(***************************************************************************)
EXTENDS Integers, Sequences, SequencesExt

Str(b) == [str |-> b]

Lst(vs) == [list |-> vs]

Nil == [nil |-> TRUE]

Huge == 16777216

NumberOf(b) == IF Len(b) > 2 THEN Huge ELSE FoldLeft(LAMBDA n, d : 256 * n + d, 0, b)

-----------------------------------------------------------------------------
(* encode.go *)

(* putint, intsize *)
BytesOf(n) == IF n < 256 THEN <<n>> ELSE <<n \div 256, n % 256>>

(* puthead, also for what encodeStringHeader writes. *)
Head8(smalltag, largetag, size) ==
    IF size < 56 THEN <<smalltag + size>> ELSE <<largetag + Len(BytesOf(size))>> \o BytesOf(size)

HeadSize(size) == IF size < 56 THEN 1 ELSE 1 + Len(BytesOf(size))

EncodeString(b) ==
    IF Len(b) = 1 /\ b[1] <= 127 THEN b ELSE Head8(128, 183, Len(b)) \o b

(* encbuf: the bytes without the headers of lists, and the headers. *)
NewBuf == [str |-> <<>>, heads |-> <<>>, lhsize |-> 0]

BufSize(w) == Len(w.str) + w.lhsize

Add(w, b) == [w EXCEPT !.str = @ \o b]

OpenList(w) == [w EXCEPT !.heads = Append(@, [offset |-> Len(w.str), size |-> w.lhsize])]

(* listEnd, of the header that list made when there were n of them. *)
CloseList(w, n) ==
    LET size == BufSize(w) - w.heads[n].offset - w.heads[n].size
    IN  [w EXCEPT !.heads[n].size = size, !.lhsize = @ + HeadSize(size)]

(* makePtrWriter: how a nil pointer is written. *)
DefaultNilKind(t) == IF t.k \in {"uint", "bool", "string", "array8"} THEN "string" ELSE "list"

NilKindOf(t) ==
    IF t.k = "any" THEN "list" ELSE IF t.nilOK THEN t.nilKind ELSE DefaultNilKind(t.elem)

(* The writers that makeWriter makes, for a value v of type t. *)
RECURSIVE Write(_, _, _)
WriteAll(ts, vs, w) ==
    FoldLeft(LAMBDA buf, i : Write(ts[i], vs[i], buf), w, [i \in 1..Len(vs) |-> i])

WriteList(ts, vs, w) == CloseList(WriteAll(ts, vs, OpenList(w)), Len(w.heads) + 1)

Write(t, v, w) ==
    CASE v = Nil ->
            IF NilKindOf(t) = "string" THEN Add(w, <<128>>)
            ELSE CloseList(OpenList(w), Len(w.heads) + 1)
      [] t.k = "ptr" /\ v # Nil -> Write(t.elem, v, w)
      [] t.k = "raw" -> Add(w, v.str)
      [] t.k \in {"uint", "bool", "string", "array8", "bigint"} -> Add(w, EncodeString(v.str))
      [] t.k \in {"slice", "array"} ->
            IF t.tail THEN WriteAll([i \in DOMAIN v.list |-> t.elem], v.list, w)
            ELSE WriteList([i \in DOMAIN v.list |-> t.elem], v.list, w)
      [] t.k = "struct" -> WriteList(t.fields, v.list, w)
      [] t.k = "any" ->
            IF "str" \in DOMAIN v THEN Add(w, EncodeString(v.str))
            ELSE WriteList([i \in DOMAIN v.list |-> t], v.list, w)

(* toBytes: the bytes, with the headers put in. *)
ToBytes(w) ==
    LET from(n) == IF n = 1 THEN 0 ELSE w.heads[n - 1].offset
        piece(n) == SubSeq(w.str, from(n) + 1, w.heads[n].offset) \o Head8(192, 247, w.heads[n].size)
    IN  FlattenSeq([n \in DOMAIN w.heads |-> piece(n)])
        \o SubSeq(w.str, from(Len(w.heads) + 1) + 1, Len(w.str))

EncodeToBytes(t, v) == ToBytes(Write(t, v, NewBuf))

(* encReader: next, and Read of a buffer of n bytes.  lh and at are lhpos  *)
(* and strpos; piece is what the last Read had no room for.                *)
NextPiece(w, r) ==
    LET upto == IF r.lh < Len(w.heads) THEN w.heads[r.lh + 1].offset ELSE Len(w.str)
    IN  CASE r.piece # <<>> -> r
          [] r.piece = <<>> /\ upto > r.at ->
                [r EXCEPT !.piece = SubSeq(w.str, r.at + 1, upto), !.at = upto]
          [] r.piece = <<>> /\ upto = r.at /\ r.lh < Len(w.heads) ->
                [r EXCEPT !.piece = Head8(192, 247, w.heads[r.lh + 1].size), !.lh = @ + 1]
          [] OTHER -> [r EXCEPT !.eof = TRUE]

RECURSIVE ReadInto(_, _, _)
ReadInto(w, r, n) ==
    LET p == NextPiece(w, r)
    IN  IF p.eof THEN p
        ELSE IF n < Len(p.piece)
        THEN [p EXCEPT !.out = @ \o SubSeq(p.piece, 1, n), !.piece = SubSeq(@, n + 1, Len(@))]
        ELSE ReadInto(w, [p EXCEPT !.out = @ \o p.piece, !.piece = <<>>], n - Len(p.piece))

RECURSIVE ReadAll(_, _, _)
ReadAll(w, r, n) == IF r.eof THEN r.out ELSE ReadAll(w, ReadInto(w, r, n), n)

EncodeToReader(t, v, n) ==
    ReadAll(Write(t, v, NewBuf), [lh |-> 0, at |-> 0, piece |-> <<>>, out |-> <<>>, eof |-> FALSE], n)

-----------------------------------------------------------------------------
(* The Stream of decode.go, over the bytes in.  What an operation returns  *)
(* is the new stream, an error ("" for none) and a value.                  *)

NoLimit == -1

(* Reset; a reader of a slice has its length for a limit. *)
NewStream(in, limit) ==
    [in |-> in, at |-> 0, remaining |-> limit, kind |-> "none", size |-> 0, byteval |-> 0,
     kinderr |-> "", stack |-> <<>>]

(* NewListStream *)
NewListStream(in, size) == [NewStream(in, size) EXCEPT !.kind = "list", !.size = size]

Returns(s, err, v) == [s |-> s, err |-> err, v |-> v]

(* A result that is refused with err unless its value is good. *)
Require(r, Good(_), err) == IF r.err = "" /\ ~Good(r.v) THEN [r EXCEPT !.err = err] ELSE r

OnlyWide(n, v) == n # 1 \/ v[1] >= 128

Top(s) == s.stack[Len(s.stack)]

InList(s) == s.stack # <<>>

Room(s) == Top(s).size - Top(s).pos

(* willRead and the read of n bytes. *)
ReadFull(s, n) ==
    LET rearmed == [s EXCEPT !.kind = "none"]
        inList == IF InList(s) THEN [rearmed EXCEPT !.stack[Len(s.stack)].pos = @ + n] ELSE rearmed
        counted == IF s.remaining = NoLimit THEN inList ELSE [inList EXCEPT !.remaining = @ - n]
        left == Len(s.in) - s.at
    IN  CASE InList(s) /\ n > Room(s) -> Returns(rearmed, "elem too large", <<>>)
          [] ~(InList(s) /\ n > Room(s)) /\ s.remaining # NoLimit /\ n > s.remaining ->
                Returns(inList, "value too large", <<>>)
          [] OTHER ->
                IF n > left THEN Returns([counted EXCEPT !.at = Len(s.in)], "unexpected EOF", <<>>)
                ELSE Returns([counted EXCEPT !.at = @ + n], "", SubSeq(s.in, s.at + 1, s.at + n))

(* readUint: the bytes of a number, in its shortest form.  A single byte   *)
(* is not looked at.                                                       *)
ReadUint(s, n) ==
    IF n = 0 THEN Returns([s EXCEPT !.kind = "none"], "", <<>>)
    ELSE Require(ReadFull(s, n), LAMBDA v : n = 1 \/ v[1] # 0, "canon size")

AnySizeBug(s, n) == ReadFull(s, n)

ReadSize(s, n) == Require(ReadUint(s, n), LAMBDA v : NumberOf(v) >= 56, "canon size")

(* readKind, once its first byte has been read with the result r. *)
Sized(z, kind) ==
    Returns([z.s EXCEPT !.kind = kind, !.byteval = 0, !.size = IF z.err = "" THEN NumberOf(z.v) ELSE 0], z.err, <<>>)

KindOf(r, b) ==
    LET ahead(kind, size) == Returns([r.s EXCEPT !.kind = kind, !.size = size, !.byteval = 0], "", <<>>)
    IN  CASE b < 128 -> Returns([r.s EXCEPT !.kind = "byte", !.size = 0, !.byteval = b], "", <<>>)
          [] b \in 128..183 -> ahead("string", b - 128)
          [] b \in 184..191 -> Sized(ReadSize(r.s, b - 183), "string")
          [] b \in 192..247 -> ahead("list", b - 192)
          [] OTHER -> Sized(ReadSize(r.s, b - 247), "list")

ReadKind(s, r) ==
    IF r.err = "" THEN KindOf(r, r.v[1])
    ELSE Returns([r.s EXCEPT !.kind = "byte", !.size = 0],
                 IF ~InList(s) /\ r.err \in {"unexpected EOF", "value too large"} THEN "EOF" ELSE r.err, <<>>)

(* Kind: what is ahead, read once; an error stays. *)
Keep(r, err) == Returns([r.s EXCEPT !.kinderr = err], err, <<>>)

Bounded(s, r) ==
    CASE r.err # "" -> Keep(r, r.err)
      [] r.err = "" /\ InList(s) /\ r.s.size > Room(r.s) -> Keep(r, "elem too large")
      [] r.err = "" /\ ~InList(s) /\ s.remaining # NoLimit /\ r.s.size > r.s.remaining ->
            Keep(r, "value too large")
      [] OTHER -> Keep(r, "")

Kind(s) ==
    IF s.kind # "none" THEN Returns(s, s.kinderr, <<>>)
    ELSE IF InList(s) /\ Room(s) = 0 THEN Returns([s EXCEPT !.kinderr = ""], "EOL", <<>>)
    ELSE Bounded(s, ReadKind(s, ReadFull(s, 1)))

(* An operation on what is ahead: the error of Kind, or op. *)
Following(k, op(_)) == IF k.err # "" THEN k ELSE op(k.s)

Ahead(s, op(_)) == Following(Kind(s), op)

Rearm(s) == [s EXCEPT !.kind = "none"]

(* Bytes *)
StringAhead(s) ==
    CASE s.kind = "byte" -> Returns(Rearm(s), "", <<s.byteval>>)
      [] s.kind = "string" -> Require(ReadFull(s, s.size), LAMBDA v : OnlyWide(s.size, v), "canon size")
      [] s.kind = "list" -> Returns(s, "expected string", <<>>)

Bytes(s) == Ahead(s, StringAhead)

(* Raw *)
Headed(r, head) == IF r.err = "" THEN [r EXCEPT !.v = head \o @] ELSE r

RawAhead(s) ==
    CASE s.kind = "byte" -> Returns(Rearm(s), "", <<s.byteval>>)
      [] s.kind = "string" -> Headed(ReadFull(s, s.size), Head8(128, 183, s.size))
      [] s.kind = "list" -> Headed(ReadFull(s, s.size), Head8(192, 247, s.size))

Raw(s) == Ahead(s, RawAhead)

(* uint, of at most n bytes. *)
IntRead(size, r) ==
    IF r.err = "canon size" THEN [r EXCEPT !.err = "canon int"]
    ELSE Require(r, LAMBDA v : OnlyWide(size, v), "canon size")

Uint(s, n) ==
    LET ahead(q) ==
            CASE q.kind = "byte" ->
                    IF q.byteval = 0 THEN Returns(q, "canon int", <<>>)
                    ELSE Returns(Rearm(q), "", <<q.byteval>>)
              [] q.kind = "string" ->
                    IF q.size > n THEN Returns(q, "overflow", <<>>)
                    ELSE IntRead(q.size, ReadUint(q, q.size))
              [] q.kind = "list" -> Returns(q, "expected string", <<>>)
    IN  Ahead(s, ahead)

(* Bool *)
Bool(s) == Require(Uint(s, 1), LAMBDA v : v \in {<<>>, <<1>>}, "not a boolean")

(* List *)
ListAhead(s) ==
    IF s.kind # "list" THEN Returns(s, "expected list", <<>>)
    ELSE Returns([s EXCEPT !.stack = Append(@, [pos |-> 0, size |-> s.size]), !.kind = "none", !.size = 0],
                 "", s.size)

List(s) == Ahead(s, ListAhead)

ForgetOuterBug(s) == SubSeq(s.stack, 1, Len(s.stack) - 1)

(* What ListEnd leaves: the list counts as read in the one around it. *)
Popped(s) ==
    LET below == SubSeq(s.stack, 1, Len(s.stack) - 1)
    IN  IF below = <<>> THEN <<>> ELSE [below EXCEPT ![Len(below)].pos = @ + Top(s).size]

ListEnd(s) ==
    CASE ~InList(s) -> Returns(s, "not in list", <<>>)
      [] InList(s) /\ Room(s) # 0 -> Returns(s, "not at EOL", <<>>)
      [] OTHER -> Returns([s EXCEPT !.stack = Popped(s), !.kind = "none", !.size = 0], "", <<>>)

-----------------------------------------------------------------------------
(* The decoders that makeDecoder makes, as functions of the type. *)

(* decodeByteArray *)
ByteArray(s, n) ==
    LET ahead(q) ==
            CASE q.kind = "byte" ->
                    IF n # 1 THEN Returns(q, "length", <<>>) 
                    ELSE [Uint(q, 8) EXCEPT !.err = "", !.v = <<q.byteval>>]
              [] q.kind = "string" ->
                    IF q.size # n THEN Returns(q, "length", <<>>)
                    ELSE Require(ReadFull(q, n), LAMBDA v : OnlyWide(n, v), "canon size")
              [] q.kind = "list" -> Returns(q, "expected string", <<>>)
    IN  Ahead(s, ahead)

AsStr(r) == [r EXCEPT !.v = Str(@)]

RECURSIVE Decoder(_, _)

TypeAt(t, i) == IF t.k = "struct" THEN t.fields[i] ELSE t.elem

(* The elements of a value of type t until the end of the list, at most n  *)
(* of them; the error of an element ends it.                               *)
RECURSIVE Elems(_, _, _, _)
More(r, t, n, got) ==
    CASE r.err = "" -> Elems(r.s, t, n, Append(got, r.v))
      [] r.err = "EOL" -> Returns(r.s, "", got)
      [] OTHER -> Returns(r.s, r.err, got)

Elems(s, t, n, got) ==
    IF Len(got) = n THEN Returns(s, "", got) ELSE More(Decoder(s, TypeAt(t, Len(got) + 1)), t, n, got)

AsLst(r, v) == [r EXCEPT !.v = Lst(v)]

Finish(r) == IF r.err # "" THEN r ELSE AsLst(ListEnd(r.s), r.v)

Exactly(r, n) == IF r.err = "" /\ Len(r.v) < n THEN [r EXCEPT !.err = "too few"] ELSE r

(* decodeListSlice, decodeSliceElems (of a field with the tag tail),       *)
(* decodeListArray, and makeStructDecoder.                                 *)
DecodeList(s, t) ==
    LET tail(r) == AsLst(r, r.v)
        fixed(n) == Following(List(s), LAMBDA q : Finish(Exactly(Elems(q, t, n, <<>>), n)))
    IN  CASE t.k = "array" -> fixed(t.n)
          [] t.k = "struct" -> fixed(Len(t.fields))
          [] t.k = "slice" /\ t.tail -> tail(Elems(s, t, Huge, <<>>))
          [] t.k = "slice" /\ ~t.tail -> Following(List(s), LAMBDA q : Finish(Elems(q, t, Huge, <<>>)))

(* makeNilPtrDecoder: an empty value is a nil pointer. *)
DecodeNilPtr(s, t) ==
    LET ahead(q) ==
            IF q.kind # "byte" /\ q.size = 0
            THEN IF q.kind # t.nilKind THEN Returns(q, "kind of empty value", <<>>)
                 ELSE Returns(Rearm(q), "", Nil)
            ELSE Decoder(q, t.elem)
    IN  Ahead(s, ahead)

(* decodeInterface *)
DecodeAny(s) ==
    LET any == [k |-> "any"]
        slice == [k |-> "slice", elem |-> any, tail |-> FALSE]
        ahead(q) == IF q.kind = "list" THEN DecodeList(q, slice) ELSE AsStr(Bytes(q))
    IN  Ahead(s, ahead)

(* decodeBigInt *)
DecodeBigInt(s) == Require(Bytes(s), LAMBDA v : v = <<>> \/ v[1] # 0, "canon int")

Decoder(s, t) ==
    CASE t.k = "raw" -> AsStr(Raw(s))
      [] t.k = "bigint" -> AsStr(DecodeBigInt(s))
      [] t.k = "ptr" -> IF t.nilOK THEN DecodeNilPtr(s, t) ELSE Decoder(s, t.elem)
      [] t.k = "uint" -> AsStr(Uint(s, t.n))
      [] t.k = "bool" -> AsStr(Bool(s))
      [] t.k = "string" -> AsStr(Bytes(s))
      [] t.k = "array8" -> AsStr(ByteArray(s, t.n))
      [] t.k \in {"slice", "array", "struct"} -> DecodeList(s, t)
      [] t.k = "any" -> DecodeAny(s)

(* DecodeBytes *)
WholeOf(r, in) == IF r.err = "" /\ r.s.at < Len(in) THEN [r EXCEPT !.err = "more than one value"] ELSE r

DecodeBytes(in, t) == WholeOf(Decoder(NewStream(in, Len(in)), t), in)

-----------------------------------------------------------------------------
(* raw.go: the same format, read from a slice. *)

Split2(k, tag, size, err) == [kind |-> k, tag |-> tag, size |-> size, err |-> err]

Fails2(err) == Split2("byte", 0, 0, err)

(* readSize *)
SizeIn(b, n) ==
    LET size == SubSeq(b, 2, n + 1)
    IN  CASE n > Len(b) - 1 -> [err |-> "unexpected EOF", size |-> 0]
          [] n <= Len(b) - 1 /\ (size[1] = 0 \/ NumberOf(size) < 56) -> [err |-> "canon size", size |-> 0]
          [] OTHER -> [err |-> "", size |-> NumberOf(size)]

Long2(b, kind, n) ==
    LET z == SizeIn(b, n) IN IF z.err # "" THEN Fails2(z.err) ELSE Split2(kind, n + 1, z.size, "")

Tag(b) ==
    CASE b = <<>> -> Fails2("unexpected EOF")
      [] b # <<>> /\ b[1] < 128 -> Split2("byte", 0, 1, "")
      [] b # <<>> /\ b[1] = 129 /\ Len(b) > 1 /\ b[2] < 128 -> Fails2("canon size")
      [] b # <<>> /\ b[1] \in 128..183 /\ ~(b[1] = 129 /\ Len(b) > 1 /\ b[2] < 128) ->
            Split2("string", 1, b[1] - 128, "")
      [] b # <<>> /\ b[1] \in 184..191 -> Long2(b, "string", b[1] - 183)
      [] b # <<>> /\ b[1] \in 192..247 -> Split2("list", 1, b[1] - 192, "")
      [] OTHER -> Long2(b, "list", b[1] - 247)

(* readKind *)
KindIn(b) ==
    LET t == Tag(b) IN IF t.err = "" /\ t.size > Len(b) - t.tag THEN Fails2("value too large") ELSE t

ContentOf(b) == SubSeq(b, KindIn(b).tag + 1, KindIn(b).tag + KindIn(b).size)

RestOf(b) == SubSeq(b, KindIn(b).tag + KindIn(b).size + 1, Len(b))

(* CountValues *)
RECURSIVE CountValues(_)
CountValues(b) ==
    IF b = <<>> THEN 0
    ELSE IF KindIn(b).err # "" THEN -1
    ELSE LET n == CountValues(RestOf(b)) IN IF n < 0 THEN n ELSE n + 1

-----------------------------------------------------------------------------
(* Decoding what was encoded gives the value back. *)
RlpRoundTrip(t, v) == \A r \in {DecodeBytes(EncodeToBytes(t, v), t)} : r.err = "" /\ r.v = v

(* A value has one encoding: what is accepted is what would be written.    *)
RlpIsCanonical(t, b) == \A r \in {DecodeBytes(b, t)} : r.err = "" => EncodeToBytes(t, r.v) = b

(* encReader hands out the encoding whatever the size of the buffers read  *)
(* into.                                                                   *)
RlpReadersAgree(t, v) ==
    \A n \in {1, 2, 3, 7, 200} : EncodeToReader(t, v, n) = EncodeToBytes(t, v)

(* SplitString and SplitList take the same from a slice as a stream does.  *)
RlpSplitAgrees(b) ==
    LET s == NewStream(b, Len(b))
    IN  \A k \in {KindIn(b)}, string \in {Bytes(s)}, list \in {List(s)}, any \in {DecodeBytes(b, [k |-> "any"])} :
           /\ b # <<>> => ((k.err = "" /\ k.kind # "list") <=> string.err = "")
           /\ string.err = "" => string.v = ContentOf(b) /\ SubSeq(b, string.s.at + 1, Len(b)) = RestOf(b)
           /\ (k.err = "" /\ k.kind = "list") <=> list.err = ""
           /\ list.err = "" => list.v = Len(ContentOf(b))
           /\ any.err = "" /\ k.kind = "list" => CountValues(ContentOf(b)) = Len(any.v.list)

(* Kind's comment: what it has looked at is returned again only until the  *)
(* value is decoded.                                                       *)
KindIsFresh(t, b) ==
    \A r \in {Decoder(NewStream(b, Len(b)), t)} : r.err = "" => r.s.kind = "none"

-----------------------------------------------------------------------------
(* A Stream, and a caller that uses its operations in any order, also      *)
(* after errors.  The caller reads what it has looked at with Kind before  *)
(* it ends the list.                                                       *)

CONSTANT Inputs   \* the inputs, each with a limit: [in, limit, list]

VARIABLES
    stream,   \* the Stream
    got,      \* history: for each open list, outermost first, the values read
    clean     \* history: no error has come after some of the value was read

streamVars == <<stream, got, clean>>

StreamInit ==
    /\ \E i \in Inputs : stream = IF i.list THEN NewListStream(i.in, i.limit) ELSE NewStream(i.in, i.limit)
    /\ got = <<<<>>>> /\ clean = TRUE

Last2(q, v) == [q EXCEPT ![Len(q)] = Append(@, v)]

(* The values after an operation that has returned r. *)
Collected(op, r) ==
    CASE op = "Kind" -> got
      [] op = "List" -> Append(got, <<>>)
      [] op = "ListEnd" -> Last2(SubSeq(got, 1, Len(got) - 1), Lst(got[Len(got)]))
      [] op = "Raw" -> Last2(got, [raw |-> r.v])
      [] OTHER -> Last2(got, Str(r.v))

After(op) ==
    CASE op = "Kind" -> Kind(stream)
      [] op = "Bytes" -> Bytes(stream)
      [] op = "Raw" -> Raw(stream)
      [] op = "Uint" -> Uint(stream, 2)
      [] op = "Bool" -> Bool(stream)
      [] op = "List" -> List(stream)
      [] op = "ListEnd" -> ListEnd(stream)

Operate(op) ==
    /\ op = "ListEnd" => stream.kind = "none"
    /\ \E r \in {After(op)} :
          /\ stream' = r.s
          /\ got' = IF r.err = "" THEN Collected(op, r) ELSE got
          /\ clean' = (clean /\ (r.err = "" \/ r.s \in {stream, Kind(stream).s}))

StreamNext == \E op \in {"Kind", "Bytes", "Raw", "Uint", "Bool", "List", "ListEnd"} : Operate(op)

RECURSIVE Encoded(_)
Encoded(v) ==
    CASE "str" \in DOMAIN v -> EncodeString(v.str)
      [] "raw" \in DOMAIN v -> v.raw
      [] "list" \in DOMAIN v ->
            LET in == FlattenSeq([i \in DOMAIN v.list |-> Encoded(v.list[i])])
            IN  Head8(192, 247, Len(in)) \o in

(* Whatever the caller does, as long as no error has cost it bytes, the    *)
(* values it has read are what the bytes read encode: none is skipped,     *)
(* read twice, or read in the wrong list.                                  *)
StreamReadsInput ==
    clean /\ stream.kind = "none" /\ Len(got) = 1 =>
        LET all == FlattenSeq([i \in DOMAIN got[1] |-> Encoded(got[1][i])])
            read == SubSeq(stream.in, 1, stream.at)
        IN  all = read \/ \E n \in 0..Len(stream.in) : all = Head8(192, 247, n) \o read
=============================================================================
