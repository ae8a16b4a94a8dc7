---------------------------------- MODULE Hex ----------------------------------
(***************************************************************************)
(* Texts of bytes and numbers (crypto/common/hexutil, crypto/common/       *)
(* types.go and bytes.go), and the arithmetic of common/math.              *)
(*                                                                         *)
(* A text is a sequence of characters.  Widths are parameters: the code    *)
(* has words of 16 digits, numbers of 64 (256 bits) and of 16 (64 bits),   *)
(* hashes of 32 bytes and addresses of 20.                                 *)
(***************************************************************************)
EXTENDS Integers, Sequences, SequencesExt

CONSTANTS
    WordNibbles,    \* bigWordNibbles
    BigNibbles,     \* digits of a big number
    UintNibbles,    \* digits of a uint64
    FixedLength,    \* HashLength, AddressLength
    HashNibble(_, _)  \* external: the i-th hexadecimal digit of the Keccak hash of a text

Lower == <<"0", "1", "2", "3", "4", "5", "6", "7", "8", "9", "a", "b", "c", "d", "e", "f">>

Upper == <<"0", "1", "2", "3", "4", "5", "6", "7", "8", "9", "A", "B", "C", "D", "E", "F">>

BadNibble == 99

(* decodeNibble, isHexCharacter *)
DecodeNibble(c) ==
    IF \E n \in 1..16 : c \in {Lower[n], Upper[n]}
    THEN (CHOOSE n \in 1..16 : c \in {Lower[n], Upper[n]}) - 1 ELSE BadNibble

AllHex(s) == \A i \in DOMAIN s : DecodeNibble(s[i]) # BadNibble

Has0xPrefix(s) == Len(s) >= 2 /\ s[1] = "0" /\ s[2] \in {"x", "X"}

Past(s, n) == SubSeq(s, n + 1, Len(s))

Upto(s, n) == SubSeq(s, 1, IF n < Len(s) THEN n ELSE Len(s))

Ok(v) == [err |-> "", v |-> v]

Err(e) == [err |-> e, v |-> <<>>]

(* encoding/hex *)
HexEncode(b) == FlattenSeq([i \in DOMAIN b |-> <<Lower[1 + b[i] \div 16], Lower[1 + (b[i] % 16)]>>])

HexDecode(s) ==
    CASE ~AllHex(s) -> Err("syntax")
      [] AllHex(s) /\ Len(s) % 2 = 1 -> Err("odd length")
      [] OTHER -> Ok([i \in 1..Len(s) \div 2 |-> 16 * DecodeNibble(s[2 * i - 1]) + DecodeNibble(s[2 * i])])

Value(s) == FoldLeft(LAMBDA n, c : 16 * n + DecodeNibble(c), 0, s)

(* The digits of a number without leading zeros, "0" for zero. *)
RECURSIVE Digits(_)
Digits(n) == IF n < 16 THEN <<Lower[n + 1]>> ELSE Digits(n \div 16) \o <<Lower[1 + (n % 16)]>>

-----------------------------------------------------------------------------
(* hexutil.go *)

Decode(s) ==
    CASE s = <<>> -> Err("empty")
      [] s # <<>> /\ ~Has0xPrefix(s) -> Err("prefix")
      [] OTHER -> HexDecode(Past(s, 2))

Encode(b) == <<"0", "x">> \o HexEncode(b)

(* checkNumber; checkNumberText, where an empty text is allowed, adds only *)
(* that.                                                                   *)
CheckNumber(s) ==
    CASE s = <<>> -> Err("empty")
      [] s # <<>> /\ ~Has0xPrefix(s) -> Err("prefix")
      [] Has0xPrefix(s) /\ Len(s) = 2 -> Err("empty number")
      [] Has0xPrefix(s) /\ Len(s) > 3 /\ s[3] = "0" -> Err("leading zero")
      [] OTHER -> Ok(Past(s, 2))

CheckNumberText(s) == IF s = <<>> THEN Ok(<<>>) ELSE CheckNumber(s)

(* ParseUint, with what mapError makes of its errors: digits are looked at *)
(* one by one until the number is too large.                               *)
ParseUint(raw) ==
    LET long == CHOOSE n \in 0..Len(raw) : (\A i \in 1..n : raw[i] = "0") /\ (n = Len(raw) \/ raw[n + 1] # "0")
        digits == Past(raw, long)
        read == Upto(digits, UintNibbles + 1)
    IN  CASE ~AllHex(read) -> Err("syntax")
          [] AllHex(read) /\ Len(read) > UintNibbles -> Err("range")
          [] OTHER -> Ok(Value(read))

DecodeUint64(s) == LET raw == CheckNumber(s) IN IF raw.err # "" THEN raw ELSE ParseUint(raw.v)

EncodeUint64(n) == <<"0", "x">> \o Digits(n)

(* The words of DecodeBig and of Big.UnmarshalText, the lowest first, and  *)
(* the number they are.                                                    *)
WordOf(raw, i) ==
    LET end == Len(raw) - (i - 1) * WordNibbles
    IN  Value(SubSeq(raw, IF end > WordNibbles THEN end - WordNibbles + 1 ELSE 1, end))

Words(raw) == [i \in 1..1 + (Len(raw) \div WordNibbles) |-> WordOf(raw, i)]

SetBits(words) == FoldRight(LAMBDA w, n : 16 ^ WordNibbles * n + w, words, 0)

BigOf(raw) ==
    CASE Len(raw) > BigNibbles -> Err("range")
      [] Len(raw) <= BigNibbles /\ ~AllHex(raw) -> Err("syntax")
      [] OTHER -> Ok(SetBits(Words(raw)))

DecodeBig(s) == LET raw == CheckNumber(s) IN IF raw.err # "" THEN raw ELSE BigOf(raw.v)

(* EncodeBig, for a number that is not negative. *)
EncodeBig(n) == IF n = 0 THEN <<"0", "x", "0">> ELSE <<"0", "x">> \o Digits(n)

-----------------------------------------------------------------------------
(* json.go: an operation leaves the receiver, old, as it is or makes it    *)
(* the value.                                                              *)

Into(old, r) == IF r.err = "" THEN r ELSE [err |-> r.err, v |-> old]

CheckText(s, wantPrefix) ==
    LET raw == IF Has0xPrefix(s) THEN Past(s, 2) ELSE s
    IN  CASE s = <<>> -> Ok(<<>>)
          [] s # <<>> /\ ~Has0xPrefix(s) /\ wantPrefix -> Err("prefix")
          [] OTHER -> IF Len(raw) % 2 = 1 THEN Err("odd length") ELSE Ok(raw)

UnmarshalBytes(old, s) ==
    LET raw == CheckText(s, TRUE) IN Into(old, IF raw.err # "" THEN raw ELSE HexDecode(raw.v))

(* UnmarshalFixedText and UnmarshalFixedUnprefixedText, for n bytes. *)
UnmarshalFixed(old, s, wantPrefix) ==
    LET raw == CheckText(s, wantPrefix)
    IN  Into(old, CASE raw.err # "" -> raw
                    [] raw.err = "" /\ Len(raw.v) # 2 * Len(old) -> Err("length")
                    [] OTHER -> HexDecode(raw.v))

UnmarshalUint64(old, s) ==
    LET raw == CheckNumberText(s)
    IN  Into(old, CASE raw.err # "" -> raw
                    [] raw.err = "" /\ Len(raw.v) > UintNibbles -> Err("range")
                    [] raw.err = "" /\ Len(raw.v) <= UintNibbles /\ ~AllHex(raw.v) -> Err("syntax")
                    [] OTHER -> Ok(Value(raw.v)))

UnmarshalBig(old, s) ==
    LET raw == CheckNumberText(s) IN Into(old, IF raw.err # "" THEN raw ELSE BigOf(raw.v))

(* isString, and what the UnmarshalJSON of every type does with a text. *)
UnmarshalJSON(old, input, unmarshalText(_, _)) ==
    IF Len(input) >= 2 /\ input[1] = "quote" /\ input[Len(input)] = "quote"
    THEN unmarshalText(old, SubSeq(input, 2, Len(input) - 1))
    ELSE [err |-> "non-string", v |-> old]

Quoted(s) == <<"quote">> \o s \o <<"quote">>

-----------------------------------------------------------------------------
(* bytes.go, types.go *)

(* Hex2Bytes: the bytes before the first error. *)
Hex2Bytes(s) ==
    LET good(n) == AllHex(SubSeq(s, 1, 2 * n))
        n == CHOOSE n \in 0..Len(s) \div 2 : good(n) /\ (n = Len(s) \div 2 \/ ~good(n + 1))
    IN  HexDecode(SubSeq(s, 1, 2 * n)).v

FromHex(s) ==
    LET bare == IF Has0xPrefix(s) THEN Past(s, 2) ELSE s
    IN  Hex2Bytes(IF Len(bare) % 2 = 1 THEN <<"0">> \o bare ELSE bare)

Zeroes(n) == [i \in 1..n |-> 0]

LeftPadBytes(b, l) == IF l <= Len(b) THEN b ELSE Zeroes(l - Len(b)) \o b

RightPadBytes(b, l) == IF l <= Len(b) THEN b ELSE b \o Zeroes(l - Len(b))

(* SetBytes of a value that was zero (BytesToHash, BytesToAddress). *)
CutRightBug(b) == LeftPadBytes(Upto(b, FixedLength), FixedLength)

SetBytes(b) == LeftPadBytes(IF Len(b) > FixedLength THEN Past(b, Len(b) - FixedLength) ELSE b, FixedLength)

Hex2BytesFixed(s, flen) ==
    LET h == Hex2Bytes(s) IN IF Len(h) > flen THEN Past(h, Len(h) - flen) ELSE LeftPadBytes(h, flen)

TrimLeftZeroes(b) == Past(b, CHOOSE n \in 0..Len(b) : (\A i \in 1..n : b[i] = 0) /\ (n = Len(b) \/ b[n + 1] # 0))

IsHexAddress(s) ==
    LET bare == IF Has0xPrefix(s) THEN Past(s, 2) ELSE s IN Len(bare) = 2 * FixedLength /\ AllHex(bare)

(* Address.Hex: a letter is a capital when the digit of the hash at its    *)
(* place is above 7.                                                       *)
AddressHex(b) ==
    LET plain == HexEncode(b)
    IN  <<"0", "x">> \o [i \in DOMAIN plain |->
            IF HashNibble(plain, i) > 7 THEN Upper[1 + DecodeNibble(plain[i])] ELSE plain[i]]

NewMixedcaseAddress(s) == IF IsHexAddress(s) THEN Ok([addr |-> SetBytes(FromHex(s)), original |-> s]) ELSE Err("invalid address")

ValidChecksum(ma) == ma.original = AddressHex(ma.addr)

(* MixedcaseAddress: MarshalJSON, UnmarshalJSON. *)
MarshalMixedcase(ma) ==
    Quoted(<<"0", "x">> \o IF Has0xPrefix(ma.original) THEN Past(ma.original, 2) ELSE ma.original)

UnmarshalMixedcase(ma, input) ==
    LET prefixed(old, s) == UnmarshalFixed(old, s, TRUE)
        r == UnmarshalJSON(ma.addr, input, prefixed)
    IN  IF r.err # "" THEN [err |-> r.err, v |-> ma]
        ELSE Ok([addr |-> r.v, original |-> SubSeq(input, 2, Len(input) - 1)])

(* Scan and Value, to and from a database. *)
Scan(old, b) == IF Len(b) # FixedLength THEN [err |-> "length", v |-> old] ELSE Ok(b)

-----------------------------------------------------------------------------
(* common/math *)

IsDecimal(s) == s # <<>> /\ \A i \in DOMAIN s : s[i] \in {Lower[n] : n \in 1..10}

Decimal(s) == FoldLeft(LAMBDA n, c : 10 * n + DecodeNibble(c), 0, s)

(* ParseUint64, ParseBig256: a text without a prefix is decimal, and an    *)
(* empty one is zero; max is the largest number.                           *)
Parse(s, max, signed) ==
    LET bare == IF Has0xPrefix(s) THEN Past(s, 2) ELSE s
        sign == signed /\ bare # <<>> /\ bare[1] \in {"-", "+"}
        digits == IF sign THEN Tail(bare) ELSE bare
        good == IF Has0xPrefix(s) THEN digits # <<>> /\ AllHex(digits) ELSE IsDecimal(digits)
        n == IF Has0xPrefix(s) THEN Value(digits) ELSE Decimal(digits)
    IN  CASE s = <<>> -> Ok(0)
          [] s # <<>> /\ (~good \/ n > max) -> Err("invalid")
          [] OTHER -> Ok(IF sign /\ bare[1] = "-" THEN -n ELSE n)

(* Numbers of a width of w bits. *)
U256(x, w) == x % 2 ^ w

S256(x, w) == IF x < 2 ^ (w - 1) THEN x ELSE x - 2 ^ w

BitLen(x) == CHOOSE n \in 0..31 : x < 2 ^ n /\ (n = 0 \/ x >= 2 ^ (n - 1))

Bit(x, i) == (x \div 2 ^ i) % 2

(* Exp: square and multiply, over all bits of the words of the exponent    *)
(* (a word has bits bits).  The squares are made in base itself.           *)
Exp(base, exponent, w, bits) ==
    LET step(a, i) == [result |-> IF Bit(exponent, i - 1) = 1 THEN U256(a.result * a.base, w) ELSE a.result,
                       base |-> U256(a.base * a.base, w)]
        words == IF exponent = 0 THEN 0 ELSE 1 + ((BitLen(exponent) - 1) \div bits)
    IN  FoldLeft(step, [result |-> 1, base |-> base], [i \in 1..words * bits |-> i])

FirstBitSet(x) ==
    CHOOSE i \in 0..BitLen(x) : (i = BitLen(x) \/ Bit(x, i) = 1) /\ \A j \in 0..i - 1 : Bit(x, j) = 0

(* bigEndianByteAt, ReadBits, PaddedBigBytes, Byte *)
ByteAt(x, n) == (x \div 256 ^ n) % 256

ReadBits(x, n) == [i \in 1..n |-> ByteAt(x, n - i)]

PaddedBigBytes(x, n) == IF BitLen(x) \div 8 >= n THEN ReadBits(x, (BitLen(x) + 7) \div 8) ELSE ReadBits(x, n)

ByteOf(x, padlength, n) == IF n >= padlength THEN 0 ELSE ByteAt(x, padlength - 1 - n)

(* SafeSub, SafeAdd, SafeMul of unsigned numbers of w bits. *)
SafeSub(x, y, w) == [v |-> (x - y) % 2 ^ w, overflow |-> x < y]

SafeAdd(x, y, w) == [v |-> (x + y) % 2 ^ w, overflow |-> y > 2 ^ w - 1 - x]

SafeMul(x, y, w) ==
    IF x = 0 \/ y = 0 THEN [v |-> 0, overflow |-> FALSE]
    ELSE [v |-> (x * y) % 2 ^ w, overflow |-> y > (2 ^ w - 1) \div x]

-----------------------------------------------------------------------------
(* Bytes and numbers are read as they were written, by each of the parsers *)
(* (hexutil.go:60-190, json.go:33-330, types.go), and a text of a          *)
(* mixed-case address keeps its case.                                      *)
BytesAreRead(b) ==
    LET fixed == SetBytes(b)
        prefixed(old, s) == UnmarshalFixed(old, s, TRUE)
        ma == NewMixedcaseAddress(AddressHex(fixed)).v
    IN  /\ Decode(Encode(b)) = Ok(b)
        /\ UnmarshalBytes(<<>>, Encode(b)) = Ok(b)
        /\ UnmarshalJSON(Zeroes(FixedLength), Quoted(Encode(fixed)), prefixed) = Ok(fixed)
        /\ UnmarshalFixed(Zeroes(FixedLength), HexEncode(fixed), FALSE) = Ok(fixed)
        /\ SetBytes(TrimLeftZeroes(b)) = fixed /\ Hex2BytesFixed(HexEncode(b), FixedLength) = fixed
        /\ SetBytes(FromHex(Encode(b))) = fixed
        /\ Scan(Zeroes(FixedLength), fixed) = Ok(fixed)
        /\ ma.addr = fixed /\ ValidChecksum(ma)
        /\ UnmarshalMixedcase([addr |-> Zeroes(FixedLength), original |-> <<>>], MarshalMixedcase(ma)) = Ok(ma)

NumberIsRead(n) ==
    /\ n < 16 ^ UintNibbles =>
          DecodeUint64(EncodeUint64(n)) = Ok(n) /\ UnmarshalUint64(0, EncodeUint64(n)) = Ok(n)
    /\ n < 16 ^ BigNibbles => DecodeBig(EncodeBig(n)) = Ok(n) /\ UnmarshalBig(0, EncodeBig(n)) = Ok(n)

(* The parsers of hexutil.go and of json.go take the same texts, the empty *)
(* one apart, although each is written out by hand; a number has one text, *)
(* and what is refused leaves the receiver as it was.                      *)
Accepts(r, n) == r.err = "" /\ r.v = n

Small(s) == [i \in DOMAIN s |-> IF DecodeNibble(s[i]) = BadNibble THEN "x" ELSE Lower[1 + DecodeNibble(s[i])]]

ParsersAgree(s) ==
    LET u == DecodeUint64(s)
        b == DecodeBig(s)
    IN  /\ s # <<>> => /\ (u.err = "") = (UnmarshalUint64(-1, s).err = "")
                       /\ (b.err = "") = (UnmarshalBig(-1, s).err = "")
                       /\ Decode(s) = UnmarshalBytes(<<>>, s) \/ (Decode(s).err # "" /\ UnmarshalBytes(<<>>, s).err # "")
        /\ u.err = "" => EncodeUint64(u.v) = Small(s) /\ UnmarshalUint64(-1, s) = u /\ Parse(s, 16 ^ UintNibbles - 1, FALSE) = u
        /\ b.err = "" => EncodeBig(b.v) = Small(s) /\ UnmarshalBig(-1, s) = b
        /\ UnmarshalUint64(-1, s).err # "" => UnmarshalUint64(-1, s).v = -1
        /\ IsHexAddress(s) => (NewMixedcaseAddress(s).err = "" /\ Len(FromHex(s)) = FixedLength)

(* The arithmetic is that of numbers of w bits, and an overflow is seen.   *)
ArithmeticIsExact(x, y, w) ==
    /\ Exp(x, y, w, 4).result = (IF y = 0 THEN 1 ELSE FoldLeft(LAMBDA p, i : (p * x) % 2 ^ w, 1, [i \in 1..y |-> i]))
    /\ U256(S256(x, w), w) = x /\ S256(x, w) \in -2 ^ (w - 1)..2 ^ (w - 1) - 1
    /\ SafeAdd(x, y, w).overflow = (SafeAdd(x, y, w).v # x + y)
    /\ SafeSub(x, y, w).overflow = (SafeSub(x, y, w).v # x - y)
    /\ SafeMul(x, y, w).overflow = (SafeMul(x, y, w).v # x * y)
    /\ \A n \in 0..3 :
          LET p == PaddedBigBytes(x, n)
          IN  /\ TrimLeftZeroes(p) = TrimLeftZeroes(ReadBits(x, 3)) /\ Len(p) >= n
              /\ p = LeftPadBytes(TrimLeftZeroes(p), n)
              /\ \A k \in 0..n - 1 : Len(p) = n => ByteOf(x, n, k) = p[k + 1]
    /\ x > 0 => x % 2 ^ FirstBitSet(x) = 0 /\ (x \div 2 ^ FirstBitSet(x)) % 2 = 1

(* "Exp returns a newly-allocated big integer and does not change base or  *)
(* exponent" (big.go:185).                                                 *)
ExpKeepsBase(x, y, w) == Exp(x, y, w, 4).base = x
=============================================================================
