------------------------------- MODULE Pkcs12 -------------------------------
(***************************************************************************)
(* Package pkcs12: how a password becomes the key of a cipher or of a MAC, *)
(* how what it enciphers is opened, and how the bags of a PFX file are     *)
(* turned into a certificate and a key, or into PEM blocks.                *)
(*                                                                         *)
(* Bytes are numbers below 256 and strings sequences of code points.  In   *)
(* a file, what is enciphered or has a MAC names the password it was made  *)
(* with: it opens under that one, and another gives an error.  X.509, DES  *)
(* and the ASN.1 of the standard library are not modelled.                 *)
(***************************************************************************)
EXTENDS Integers, Sequences, SequencesExt

CONSTANT Sha1Sum(_)   \* sha1.Sum: 20 bytes

----------------------------------------------------------------------------
(* internal/rc2: a key is expanded to 64 words of 16 bits; a block of four *)
(* words goes through 5, 6 and 5 mixing rounds with a mash between them,   *)
(* and decryption undoes them in the opposite order.  Keys, blocks and     *)
(* texts are sequences of bytes.                                           *)

Word == 2 ^ 16

PiTable == <<
    217, 120, 249, 196, 25, 221, 181, 237, 40, 233, 253, 121, 74, 160, 216, 157,
    198, 126, 55, 131, 43, 118, 83, 142, 98, 76, 100, 136, 68, 139, 251, 162,
    23, 154, 89, 245, 135, 179, 79, 19, 97, 69, 109, 141, 9, 129, 125, 50,
    189, 143, 64, 235, 134, 183, 123, 11, 240, 149, 33, 34, 92, 107, 78, 130,
    84, 214, 101, 147, 206, 96, 178, 28, 115, 86, 192, 20, 167, 140, 241, 220,
    18, 117, 202, 31, 59, 190, 228, 209, 66, 61, 212, 48, 163, 60, 182, 38,
    111, 191, 14, 218, 70, 105, 7, 87, 39, 242, 29, 155, 188, 148, 67, 3,
    248, 17, 199, 246, 144, 239, 62, 231, 6, 195, 213, 47, 200, 102, 30, 215,
    8, 232, 234, 222, 128, 82, 238, 247, 132, 170, 114, 172, 53, 77, 106, 42,
    150, 26, 210, 113, 90, 21, 73, 116, 75, 159, 208, 94, 4, 24, 164, 236,
    194, 224, 65, 110, 15, 81, 203, 204, 36, 145, 175, 80, 161, 244, 112, 57,
    153, 124, 58, 133, 35, 184, 180, 122, 252, 2, 54, 91, 37, 85, 151, 49,
    45, 93, 250, 152, 227, 138, 146, 174, 5, 223, 41, 16, 103, 108, 186, 201,
    211, 0, 230, 207, 225, 158, 168, 44, 99, 22, 1, 63, 88, 226, 137, 169,
    13, 56, 52, 27, 171, 51, 255, 176, 187, 72, 12, 95, 185, 177, 205, 46,
    197, 243, 219, 71, 229, 165, 156, 119, 10, 166, 32, 104, 254, 127, 193, 173>>

(* One bit after the other: b where a is set, and c where it is not; the   *)
(* code's (a & b) + (^a & c).                                              *)
Bit(x, i) == (x \div 2 ^ i) % 2

Mux(a, b, c) ==
    LET low[i \in 0..16] ==   \* the i low bits
            IF i = 0 THEN 0
            ELSE low[i - 1] + 2 ^ (i - 1) * (IF Bit(a, i - 1) = 1
                                             THEN Bit(b, i - 1)
                                             ELSE Bit(c, i - 1))
    IN  low[16]

Xor(x, y) == Mux(x, 2 ^ 16 - 1 - y, y)

Rotl16(x, b) == ((x * 2 ^ b) % Word) + x \div 2 ^ (16 - b)

(* step, for i from a number to another, and back.  No r is empty: TLC is  *)
(* made to compute it before the next step.                                *)
RECURSIVE Up(_, _, _, _)
Up(step(_, _), r, i, to) ==
    IF r = <<>> \/ i > to THEN r ELSE Up(step, step(r, i), i + 1, to)

RECURSIVE Down(_, _, _, _)
Down(step(_, _), r, i, to) ==
    IF r = <<>> \/ i < to THEN r ELSE Down(step, step(r, i), i - 1, to)

(* The first loop of expandKey repeats the key up to 128 bytes, the second *)
(* walks back from the byte that holds the effective length, t1 bits.      *)
ExpandKey(key, t1) ==
    LET t  == Len(key)
        t8 == (t1 + 7) \div 8
        tm == 255 % 2 ^ (8 + t1 - 8 * t8)
        Pi(b) == PiTable[b + 1]
        Longer(l, i)  == Append(l, Pi((l[i] + l[i + 1 - t]) % 256))
        long          == Up(Longer, key, t, 127)
        cut           == [long EXCEPT ![129 - t8] = Pi(@ % (tm + 1))]
        Replace(k, i) == [k EXCEPT ![i] = Pi(Xor(k[i + 1], k[i + t8]))]
        l             == Down(Replace, cut, 128 - t8, 1)
    IN  [i \in 0..63 |-> l[2 * i + 1] + 256 * l[2 * i + 2]]

(* The word r[i] of four (from 0) is mixed with its predecessors in the    *)
(* circle, a word of the key and a rotation.                               *)
Rotation == <<1, 2, 3, 5>>

At(r, i) == r[1 + (i % 4)]

MixOne(k, r, j) ==
    LET i == j % 4
        w == (r[i + 1] + k[j] + Mux(At(r, i + 3), At(r, i + 2), At(r, i + 1)))
                 % Word
    IN  [r EXCEPT ![i + 1] = Rotl16(w, Rotation[i + 1])]

UnmixOne(k, r, j) ==
    LET i == j % 4
        w == Rotl16(r[i + 1], 16 - Rotation[i + 1])
        s == w - k[j] - Mux(At(r, i + 3), At(r, i + 2), At(r, i + 1))
    IN  [r EXCEPT ![i + 1] = s % Word]

Mash(k, r) ==
    LET Add(s, i) == [s EXCEPT ![i + 1] = (@ + k[At(s, i + 3) % 64]) % Word]
    IN  Up(Add, r, 0, 3)

Unmash(k, r) ==
    LET Sub(s, i) == [s EXCEPT ![i + 1] = (@ - k[At(s, i + 3) % 64]) % Word]
    IN  Down(Sub, r, 3, 0)

(* The loops leave j at 20, at 44 and at the end. *)
EncryptWords(k, r) ==
    LET Mix(s, j) == MixOne(k, s, j)
        one == Mash(k, Up(Mix, r, 0, 19))
        two == Mash(k, Up(Mix, one, 20, 43))
    IN  Up(Mix, two, 44, 63)

DecryptWords(k, r) ==
    LET Unmix(s, j) == UnmixOne(k, s, j)
        one == Unmash(k, Down(Unmix, r, 63, 44))
        two == Unmash(k, Down(Unmix, one, 43, 20))
    IN  Down(Unmix, two, 19, 0)

(* binary.LittleEndian *)
Words(b) == [i \in 1..4 |-> b[2 * i - 1] + 256 * b[2 * i]]
Octets(r) ==
    [i \in 1..8 |-> LET w == r[(i + 1) \div 2]
                    IN  IF i % 2 = 1 THEN w % 256 ELSE w \div 256]

Encrypt(k, src) == Octets(EncryptWords(k, Words(src)))

Decrypt(k, src) == Octets(DecryptWords(k, Words(src)))

----------------------------------------------------------------------------
Error == [ok |-> FALSE]

Good(v) == [ok |-> TRUE, v |-> v]

----------------------------------------------------------------------------
(* bmp-string.go *)

BmpString(s) ==
    IF \E i \in 1..Len(s) : s[i] >= 65536 THEN Error
    ELSE Good([i \in 1..2 * Len(s) |-> LET r == s[(i + 1) \div 2]
                                       IN  IF i % 2 = 1 THEN r \div 256
                                                        ELSE r % 256]
                  \o <<0, 0>>)

Terminated(b) == Len(b) >= 2 /\ b[Len(b)] = 0 /\ b[Len(b) - 1] = 0

DecodeBMPString(b) ==
    LET n == (IF Terminated(b) THEN Len(b) - 2 ELSE Len(b)) \div 2
    IN  IF Len(b) % 2 = 1 THEN Error
        ELSE Good([i \in 1..n |-> 256 * b[2 * i - 1] + b[2 * i]])

----------------------------------------------------------------------------
(* pbkdf.go *)

FillWithRepeats(pattern, v) ==
    IF pattern = <<>> THEN <<>>
    ELSE [i \in 1..v * ((Len(pattern) + v - 1) \div v)
              |-> pattern[1 + ((i - 1) % Len(pattern))]]

RECURSIVE Iterated(_, _)
Iterated(text, r) ==
    IF r <= 1 THEN Sha1Sum(text) ELSE Sha1Sum(Iterated(text, r - 1))

(* math/big: the sum of two numbers and one, in bytes as Bytes gives them, *)
(* without leading zeros.                                                  *)
SumPlusOne(x, y) ==
    LET n == Len(x)
        carry[i \in 1..n + 1] ==
            IF i = n + 1 THEN 1 ELSE (x[i] + y[i] + carry[i + 1]) \div 256
        sum == <<carry[1]>>
                   \o [i \in 1..n |-> (x[i] + y[i] + carry[i + 1]) % 256]
        zeros == {k \in 0..n + 1 : \A i \in 1..k : sum[i] = 0}
    IN  SubSeq(sum, 1 + CHOOSE k \in zeros : \A l \in zeros : l <= k, n + 1)

PadRightBug(b, v) ==
    IF Len(b) > v THEN SubSeq(b, Len(b) - v + 1, Len(b))
                  ELSE b \o [i \in 1..v - Len(b) |-> 0]

(* A longer sum loses its front and a shorter one is filled in front. *)
Fit(b, v) ==
    IF Len(b) > v THEN SubSeq(b, Len(b) - v + 1, Len(b))
                  ELSE [i \in 1..v - Len(b) |-> 0] \o b

NextBlocks(I, A, v) ==
    LET B    == [i \in 1..v |-> A[1 + ((i - 1) % Len(A))]]
        J(j) == SubSeq(I, (j - 1) * v + 1, j * v)
    IN  FlattenSeq([j \in 1..Len(I) \div v |-> Fit(SumPlusOne(J(j), B), v)])

RECURSIVE Derived(_, _, _, _, _)
Derived(D, I, v, r, c) ==
    LET A == Iterated(D \o I, r)
    IN  IF c <= 1 THEN A ELSE A \o Derived(D, NextBlocks(I, A, v), v, r, c - 1)

Pbkdf(v, salt, password, r, id, size) ==
    SubSeq(Derived([i \in 1..v |-> id],
                   FillWithRepeats(salt, v) \o FillWithRepeats(password, v),
                   v, r, (size + 19) \div 20),
           1, size)

----------------------------------------------------------------------------
(* crypto.go, for RC2 *)

DeriveKey(salt, password, r) == Pbkdf(64, salt, password, r, 1, 5)

DeriveIV(salt, password, r) == Pbkdf(64, salt, password, r, 2, 8)

XorBlock(b, c) == [i \in 1..8 |-> Xor(b[i], c[i])]

Block(text, i) == SubSeq(text, 8 * i - 7, 8 * i)

(* cipher.NewCBCDecrypter *)
CBCDecrypt(k, iv, text) ==
    FlattenSeq([i \in 1..Len(text) \div 8 |->
                  XorBlock(Decrypt(k, Block(text, i)),
                           IF i = 1 THEN iv ELSE Block(text, i - 1))])

Unpad(text) ==
    LET n == text[Len(text)]
    IN  IF /\ n \in 1..8
           /\ \A i \in 0..n - 1 : text[Len(text) - i] = n
        THEN Good(SubSeq(text, 1, Len(text) - n)) ELSE Error

PbDecrypt(salt, r, encrypted, password) ==
    LET key == DeriveKey(salt, password, r)
    IN  IF encrypted = <<>> \/ Len(encrypted) % 8 # 0 THEN Error
        ELSE Unpad(CBCDecrypt(ExpandKey(key, 8 * Len(key)),
                              DeriveIV(salt, password, r), encrypted))

----------------------------------------------------------------------------
(* pkcs12.go, mac.go, safebags.go: a file is a record of version, type,    *)
(* mac and safe; the safe is a sequence of records of type, version, under *)
(* and bags, and a bag one of id, under, certs and attributes.             *)

Opens(what, password) == what.under = password

(* verifyMac, once more with no password when the password is empty. *)
VerifyMac(pfx, password) ==
    IF Opens(pfx.mac, password) THEN Good(password)
    ELSE IF password = <<0, 0>> /\ Opens(pfx.mac, <<>>)
         THEN Good(<<>>) ELSE Error

ContentsOf(ci, password) ==
    CASE ci.type = "data" -> Good(ci.bags)
      [] ci.type = "encrypted" /\ ci.version = 0 /\ Opens(ci, password) ->
            Good(ci.bags)
      [] OTHER -> Error

GetSafeContents(pfx, encoded) ==
    LET mac == VerifyMac(pfx, encoded)
        contents == [i \in 1..Len(pfx.safe) |-> ContentsOf(pfx.safe[i], mac.v)]
    IN  IF \/ pfx.version # 3 \/ pfx.type # "data" \/ pfx.mac.alg # "SHA1"
           \/ ~mac.ok
           \/ Len(pfx.safe) # 2
           \/ \E i \in 1..2 : ~contents[i].ok
        THEN Error
        ELSE Good([password |-> mac.v,
                   bags |-> contents[1].v \o contents[2].v])

(* decodeCertBag with ParseCertificates, decodePkcs8ShroudedKeyBag. *)
BagIsGood(bag, password) ==
    CASE bag.id = "cert" -> bag.x509
      [] bag.id = "key"  -> Opens(bag, password)
      [] OTHER -> FALSE

(* Decode: a second bag of a kind takes the place of the first, and the    *)
(* error it set is overwritten, but the other kind is then missing.        *)
Decode(pfx, password) ==
    LET encoded == BmpString(password)
        safe    == GetSafeContents(pfx, encoded.v)
        bags    == safe.v.bags
        Last2(id) == CHOOSE i \in 1..2 : /\ bags[i].id = id
                                         /\ \A j \in i + 1..2 : bags[j].id # id
    IN  IF \/ ~encoded.ok \/ ~safe.ok
           \/ Len(bags) # 2
           \/ \E i \in 1..2 : /\ bags[i].id \in {"cert", "key"}
                              /\ ~BagIsGood(bags[i], safe.v.password)
           \/ \E i \in 1..2 : bags[i].id = "cert" /\ bags[i].certs # 1
           \/ \E id \in {"cert", "key"} : \A i \in 1..2 : bags[i].id # id
        THEN Error
        ELSE Good([key |-> bags[Last2("key")], cert |-> bags[Last2("cert")]])

ConvertBag(bag, password) ==
    IF bag.attributes \subseteq {"friendlyName", "localKeyId", "CSP"}
       /\ BagIsGood(bag, password)
    THEN Good([type |-> bag.id, headers |-> bag.attributes]) ELSE Error

ToPEM(pfx, password) ==
    LET encoded == BmpString(password)
        safe    == GetSafeContents(pfx, encoded.v)
        blocks  == [i \in 1..Len(safe.v.bags) |->
                      ConvertBag(safe.v.bags[i], safe.v.password)]
    IN  IF \/ ~encoded.ok \/ ~safe.ok
           \/ \E i \in 1..Len(blocks) : ~blocks[i].ok
        THEN Error ELSE Good([i \in 1..Len(blocks) |-> blocks[i].v])

----------------------------------------------------------------------------
(* What must hold.                                                         *)

(* A name or password that can be encoded is read back as it was, with or  *)
(* without zeros of its own at its end, and the others are refused.        *)
BmpIsRead(s) ==
    IF \A i \in 1..Len(s) : s[i] < 65536
    THEN DecodeBMPString(BmpString(s).v) = Good(s)
    ELSE ~BmpString(s).ok

(* The bits derived are those of RFC 7292, B.2, which the comments of      *)
(* pbkdf quote, written with numbers modulo 2^16 in place of bytes: no     *)
(* carry is lost and no block gets shorter or longer.  (Blocks of 2        *)
(* bytes.)                                                                 *)
DerivesAsSpecified(salt, password, r, id, size) ==
    LET Number(b) == 256 * b[1] + b[2]
        Text(n)   == <<n \div 256, n % 256>>
        start == [j \in 1..(Len(salt) + 1) \div 2 |->
                    Number(<<salt[1 + ((2 * j - 2) % Len(salt))],
                             salt[1 + ((2 * j - 1) % Len(salt))]>>)]
                 \o [j \in 1..(Len(password) + 1) \div 2 |->
                    Number(<<password[1 + ((2 * j - 2) % Len(password))],
                             password[1 + ((2 * j - 1) % Len(password))]>>)]
        A(I) == Iterated(<<id, id>> \o FlattenSeq([j \in 1..Len(I)
                                                     |-> Text(I[j])]), r)
        after[k \in 1..3] ==
            IF k = 1 THEN start
            ELSE LET I == after[k - 1]
                 IN  [j \in 1..Len(I) |-> (I[j] + Number(A(I)) + 1) % 65536]
    IN  Pbkdf(2, salt, password, r, id, size)
            = SubSeq(A(after[1]) \o A(after[2]) \o A(after[3]), 1, size)

(* RC2 deciphers what it enciphers, under every length of key. *)
BlocksAreDeciphered(key, t1, block) ==
    LET k == ExpandKey(key, t1) IN Decrypt(k, Encrypt(k, block)) = block

(* A text padded and enciphered, block chained to block, is opened: of     *)
(* what length it is, its padding is told from it.                         *)
TextIsOpened(salt, r, password, text) ==
    LET key == DeriveKey(salt, password, r)
        k   == ExpandKey(key, 8 * Len(key))
        n   == 8 - (Len(text) % 8)
        padded == text \o [i \in 1..n |-> n]
        chain[i \in 0..Len(padded) \div 8] ==
            IF i = 0 THEN DeriveIV(salt, password, r)
            ELSE Encrypt(k, XorBlock(Block(padded, i), chain[i - 1]))
    IN  PbDecrypt(salt, r, FlattenSeq([i \in 1..Len(padded) \div 8
                                         |-> chain[i]]), password)
            = Good(text)

(* A file is decoded exactly when it has two parts with a certificate and  *)
(* a key, in any order and distribution, and one form of the password      *)
(* opens its MAC, its parts and its key; ToPEM takes any number of bags,   *)
(* and gives a block for each, in order.                                   *)
FileIsOpened(pfx, password) ==
    LET forms == {BmpString(password).v}
                     \cup (IF password = <<>> THEN {<<>>} ELSE {})
        Under(pw) == /\ pfx.version = 3 /\ pfx.type = "data"
                     /\ pfx.mac = [alg |-> "SHA1", under |-> pw]
                     /\ Len(pfx.safe) = 2
                     /\ \A i \in 1..2 :
                           \/ pfx.safe[i].type = "data"
                           \/ /\ pfx.safe[i].type = "encrypted"
                              /\ pfx.safe[i].version = 0
                              /\ pfx.safe[i].under = pw
        bags == FlattenSeq([i \in 1..Len(pfx.safe) |-> pfx.safe[i].bags])
        Fine(pw, i) == BagIsGood(bags[i], pw)
    IN  /\ Decode(pfx, password).ok <=>
              /\ {bags[i].id : i \in 1..Len(bags)} = {"cert", "key"}
              /\ Len(bags) = 2
              /\ \E pw \in forms : Under(pw) /\ \A i \in 1..2 : Fine(pw, i)
              /\ \A i \in 1..2 : bags[i].id = "cert" => bags[i].certs = 1
        /\ ToPEM(pfx, password).ok <=>
              \E pw \in forms :
                  /\ Under(pw)
                  /\ \A i \in 1..Len(bags) :
                        Fine(pw, i) /\ "other" \notin bags[i].attributes
        /\ ToPEM(pfx, password).ok =>
              ToPEM(pfx, password).v =
                  [i \in 1..Len(bags) |-> [type |-> bags[i].id,
                                           headers |-> bags[i].attributes]]
=============================================================================
