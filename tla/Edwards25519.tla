---------------------------- MODULE Edwards25519 ----------------------------
(***************************************************************************)
(* The group of edwards25519.go and the signatures of ed25519.go: points   *)
(* of the curve -x^2 + y^2 = 1 + D x^2 y^2 in their five representations,  *)
(* the multiplication of the base point by windows of four bits, that of   *)
(* two points by sliding windows, and the encoding of points.              *)
(*                                                                         *)
(* Field elements are numbers below P here; EdwardsField is about their    *)
(* limbs, and EdwardsScalar about those of scalars.  The curve is a        *)
(* parameter: the code's is the one over 2^255 - 19.                       *)
(***************************************************************************)
EXTENDS Integers, Sequences, FiniteSets

CONSTANTS
    P, D,         \* the curve, P a prime with P % 8 = 5 and D no square
    L,            \* order: that of the base point
    BaseY,        \* the base point, (x, 4/5) with x even in the code
    FieldBits,    \* 255
    ScalarBytes,  \* 32
    Digest(_, _)  \* sha512 of a text: a pair of numbers, the halves of the
                  \* digest (the first below 2^(8 * ScalarBytes))

Fe == 0..P - 1

RECURSIVE Pow(_, _)
Pow(z, n) ==
    IF n = 0 THEN 1
    ELSE LET h == Pow((z * z) % P, n \div 2)
         IN  IF n % 2 = 1 THEN (z * h) % P ELSE h

FeInvert(z) == Pow(z, P - 2)

FePow22523(z) == Pow(z, (P - 5) \div 8)

SqrtM1 == Pow(2, (P - 1) \div 4)

FeIsNegative(x) == x % 2

----------------------------------------------------------------------------
(* Points: projective and extended x = X/Z, y = Y/Z; completed x = X/Z and *)
(* y = Y/T; cached and precomputed as what an addition needs.              *)

Zero == [X |-> 0, Y |-> 1, Z |-> 1, T |-> 0]

ToProjective(c) ==
    [X |-> (c.X * c.T) % P, Y |-> (c.Y * c.Z) % P, Z |-> (c.Z * c.T) % P]

ToExtended(c) ==
    [X |-> (c.X * c.T) % P, Y |-> (c.Y * c.Z) % P, Z |-> (c.Z * c.T) % P,
     T |-> (c.X * c.Y) % P]

ToCached(p) ==
    [yPlusX |-> (p.Y + p.X) % P, yMinusX |-> (p.Y - p.X) % P, Z |-> p.Z,
     T2d |-> (p.T * 2 * D) % P]

Double(p) ==
    LET xx == p.X * p.X
        yy == p.Y * p.Y
        s  == p.X + p.Y
    IN  [X |-> (s * s - (yy + xx)) % P, Y |-> (yy + xx) % P,
         Z |-> (yy - xx) % P, T |-> (2 * p.Z * p.Z - (yy - xx)) % P]

Completed(a, b, zz, c) ==
    [X |-> (a - b) % P, Y |-> (a + b) % P,
     Z |-> (2 * zz + c) % P, T |-> (2 * zz - c) % P]

GeAdd(p, q) ==
    Completed((p.Y + p.X) * q.yPlusX, (p.Y - p.X) * q.yMinusX,
              p.Z * q.Z, q.T2d * p.T)

GeSub(p, q) ==
    Completed((p.Y + p.X) * q.yMinusX, (p.Y - p.X) * q.yPlusX,
              p.Z * q.Z, -(q.T2d * p.T))

GeMixedAdd(p, q) ==
    Completed((p.Y + p.X) * q.yPlusX, (p.Y - p.X) * q.yMinusX,
              p.Z, q.xy2d * p.T)

GeMixedSub(p, q) ==
    Completed((p.Y + p.X) * q.yMinusX, (p.Y - p.X) * q.yPlusX,
              p.Z, -(q.xy2d * p.T))

(* ToBytes: y, and whether x is odd in the bit above. *)
ToBytes(p) ==
    LET recip == FeInvert(p.Z)
    IN  ((p.Y * recip) % P) + 2 ^ FieldBits * FeIsNegative((p.X * recip) % P)

(* FromBytes: x is a square root of u/v, times a root of -1 when the first *)
(* attempt is one of -u/v.  A y of P or more is taken for what it is       *)
(* modulo P, and a sign of x = 0 is overlooked.                            *)
FromBytes(s) ==
    LET y == (s % 2 ^ FieldBits) % P
        u == (y * y - 1) % P
        v == (D * y * y + 1) % P
        v3 == (v * v * v) % P
        x0 == (u * v3 * FePow22523((((v3 * v3) % P) * v * u) % P)) % P
        vxx == (((x0 * x0) % P) * v) % P
        x1 == IF vxx = u THEN x0 ELSE (x0 * SqrtM1) % P
        x == IF FeIsNegative(x1) # s \div 2 ^ FieldBits THEN (-x1) % P ELSE x1
    IN  IF vxx # u /\ (vxx + u) % P # 0 THEN [ok |-> FALSE]
        ELSE [ok |-> TRUE,
              p |-> [X |-> x, Y |-> y, Z |-> 1, T |-> (x * y) % P]]

----------------------------------------------------------------------------
(* Affine points and their sums, as a definition of the group; the tables  *)
(* base and bi of const.go hold multiples of the base point.               *)

Sum(p, q) ==
    LET t == (D * ((p[1] * q[1]) % P) * ((p[2] * q[2]) % P)) % P
    IN  <<((p[1] * q[2] + p[2] * q[1]) * FeInvert(1 + t)) % P,
          ((p[2] * q[2] + p[1] * q[1]) * FeInvert((1 - t) % P)) % P>>

RECURSIVE Multiple(_, _)
Multiple(n, p) ==
    IF n = 0 THEN <<0, 1>>
    ELSE LET h == Multiple(n \div 2, Sum(p, p))
         IN  IF n % 2 = 1 THEN Sum(h, p) ELSE h

Affine(p) == LET recip == FeInvert(p.Z)
             IN  <<(p.X * recip) % P, (p.Y * recip) % P>>

Curve == {q \in Fe \X Fe :
            (q[2] * q[2] - q[1] * q[1] - 1
                - ((D * ((q[1] * q[1]) % P)) % P) * ((q[2] * q[2]) % P)) % P
            = 0}

B == CHOOSE q \in {<<x, BaseY>> : x \in Fe} : q \in Curve /\ q[1] % 2 = 0

Precomputed(q) ==
    [yPlusX |-> (q[2] + q[1]) % P, yMinusX |-> (q[2] - q[1]) % P,
     xy2d |-> (2 * D * ((q[1] * q[2]) % P)) % P]

BaseTable ==
    [pos \in 0..ScalarBytes - 1 |->
        [i \in 0..7 |-> Precomputed(Multiple((i + 1) * 256 ^ pos, B))]]

Bi == [i \in 0..7 |-> Precomputed(Multiple(2 * i + 1, B))]

----------------------------------------------------------------------------
(* GeScalarMultBase *)

SelectPoint(pos, b) ==
    LET t == IF b = 0 THEN Precomputed(<<0, 1>>)
             ELSE BaseTable[pos][(IF b < 0 THEN -b ELSE b) - 1]
    IN  IF b < 0 THEN [yPlusX |-> t.yMinusX, yMinusX |-> t.yPlusX,
                       xy2d |-> (-t.xy2d) % P]
                 ELSE t

LastNibble == 2 * ScalarBytes - 1

NoCarryOutBug(a) ==
    LET raw(i) == (a \div 16 ^ i) % 16
        carry[i \in 0..LastNibble] ==
            IF i = 0 THEN 0 ELSE (raw(i - 1) + carry[i - 1] + 8) \div 16
    IN  [i \in 0..LastNibble |->
           IF i = LastNibble THEN raw(i)
           ELSE raw(i) + carry[i] - 16 * carry[i + 1]]

(* Nibbles from -8 to 7, but for the last, which takes what is carried. *)
Nibbles(a) ==
    LET raw(i) == (a \div 16 ^ i) % 16
        carry[i \in 0..LastNibble] ==
            IF i = 0 THEN 0 ELSE (raw(i - 1) + carry[i - 1] + 8) \div 16
    IN  [i \in 0..LastNibble |->
           IF i = LastNibble THEN raw(i) + carry[i]
           ELSE raw(i) + carry[i] - 16 * carry[i + 1]]

RECURSIVE AddNibbles(_, _, _)
AddNibbles(h, e, i) ==
    IF i > LastNibble THEN h
    ELSE AddNibbles(ToExtended(GeMixedAdd(h, SelectPoint(i \div 2, e[i]))),
                    e, i + 2)

GeScalarMultBase(a) ==
    LET e   == Nibbles(a)
        odd == AddNibbles(Zero, e, 1)
        two == ToProjective(Double(odd))
        four == ToProjective(Double(two))
        eight == ToProjective(Double(four))
    IN  AddNibbles(ToExtended(Double(eight)), e, 0)

----------------------------------------------------------------------------
(* GeDoubleScalarMultVartime *)

LastBit == 8 * ScalarBytes - 1

Min(m, n) == IF m < n THEN m ELSE n

(* The carry of a subtraction, from bit k: ones become zeros, up to a      *)
(* zero.                                                                   *)
CarryFrom(r, k) ==
    LET free == {j \in k..LastBit : r[j] = 0}
        stop == IF free = {} THEN LastBit + 1
                ELSE CHOOSE j \in free : \A i \in free : j <= i
    IN  [j \in 0..LastBit |-> IF j \in k..stop - 1 THEN 0
                              ELSE IF j = stop THEN 1 ELSE r[j]]

(* The loop over b for a digit: bits above are taken in as long as the     *)
(* digit stays within 15.                                                  *)
RECURSIVE TakeIn(_, _, _)
TakeIn(r, i, b) ==
    LET next == IF i + b > LastBit THEN 0 ELSE r[i + b] * 2 ^ b
    IN  IF b > 6 \/ i + b > LastBit THEN r
        ELSE IF next = 0 THEN TakeIn(r, i, b + 1)
        ELSE IF r[i] + next <= 15
        THEN TakeIn([r EXCEPT ![i] = @ + next, ![i + b] = 0], i, b + 1)
        ELSE IF r[i] - next >= -15
        THEN TakeIn(CarryFrom([r EXCEPT ![i] = @ - next], i + b), i, b + 1)
        ELSE r

RECURSIVE SlideFrom(_, _)
SlideFrom(r, i) ==
    IF i > LastBit THEN r
    ELSE SlideFrom(IF r[i] = 0 THEN r ELSE TakeIn(r, i, 1), i + 1)

Slide(a) == SlideFrom([i \in 0..LastBit |-> (a \div 2 ^ i) % 2], 0)

(* A, 3A, ..., 15A *)
OddMultiples(A) ==
    LET A2 == ToExtended(Double(A))
        m[i \in 0..7] == IF i = 0 THEN ToCached(A)
                         ELSE ToCached(ToExtended(GeAdd(A2, m[i - 1])))
    IN  m

RECURSIVE DoubleAndAdd(_, _, _, _, _)
DoubleAndAdd(r, as, bs, Ai, i) ==
    LET doubled == Double(r)
        t == IF as[i] > 0
             THEN GeAdd(ToExtended(doubled), Ai[as[i] \div 2])
             ELSE IF as[i] < 0
             THEN GeSub(ToExtended(doubled), Ai[(-as[i]) \div 2])
             ELSE doubled
        s == IF bs[i] > 0
             THEN GeMixedAdd(ToExtended(t), Bi[bs[i] \div 2])
             ELSE IF bs[i] < 0
             THEN GeMixedSub(ToExtended(t), Bi[(-bs[i]) \div 2])
             ELSE t
    IN  IF i < 0 THEN r ELSE DoubleAndAdd(ToProjective(s), as, bs, Ai, i - 1)

GeDoubleScalarMultVartime(a, A, b) ==
    LET as == Slide(a)
        bs == Slide(b)
        set == {i \in 0..LastBit : as[i] # 0 \/ bs[i] # 0}
        top == IF set = {} THEN -1
               ELSE CHOOSE i \in set : \A j \in set : j <= i
    IN  DoubleAndAdd([X |-> 0, Y |-> 1, Z |-> 1], as, bs, OddMultiples(A), top)

----------------------------------------------------------------------------
(* ed25519.go: a private key is a seed with the public key's bytes, and a  *)
(* signature the bytes of a point with a scalar.                           *)

(* The lowest three bits and the highest are cleared, the second set. *)
Clamped(h) ==
    LET bits == 8 * ScalarBytes
    IN  8 * ((h % 2 ^ (bits - 2)) \div 8) + 2 ^ (bits - 2)

NewKeyFromSeed(seed) ==
    [seed |-> seed,
     public |-> ToBytes(GeScalarMultBase(Clamped(Digest("seed", seed)[1])))]

Reduce(digest) == (digest[1] + digest[2]) % L

Sign(key, message) ==
    LET digest == Digest("seed", key.seed)
        r == Reduce(Digest("nonce", <<digest[2], message>>))
        R == ToBytes(GeScalarMultBase(r))
        h == Reduce(Digest("sign", <<R, key.public, message>>))
    IN  <<R, (h * Clamped(digest[1]) + r) % L>>

AnyScalarBug(public, message, sig) ==
    LET A == FromBytes(public)
        h == Reduce(Digest("sign", <<sig[1], public, message>>))
        minusA == [A.p EXCEPT !.X = (-@) % P, !.T = (-@) % P]
    IN  /\ sig[2] < 2 ^ (8 * ScalarBytes - 3)
        /\ A.ok
        /\ ToBytes(GeDoubleScalarMultVartime(h, minusA, sig[2])) = sig[1]

(* Verify, with the check of the highest bits and ScMinimal. *)
Verify(public, message, sig) ==
    LET A == FromBytes(public)
        h == Reduce(Digest("sign", <<sig[1], public, message>>))
        minusA == [A.p EXCEPT !.X = (-@) % P, !.T = (-@) % P]
    IN  /\ sig[2] < 2 ^ (8 * ScalarBytes - 3)
        /\ A.ok
        /\ sig[2] < L
        /\ ToBytes(GeDoubleScalarMultVartime(h, minusA, sig[2])) = sig[1]

----------------------------------------------------------------------------
(* What must hold.                                                         *)

(* The windows of GeScalarMultBase add up to the multiple of the base      *)
(* point, for every scalar that its precondition allows.                   *)
BaseIsMultiplied(a) == Affine(GeScalarMultBase(a)) = Multiple(a, B)

(* The sliding windows give a*A + b*B, whatever carries from one into      *)
(* another, and whatever the order of A.                                   *)
SumIsMultiplied(a, s, b) ==
    LET A == FromBytes(s)
    IN  A.ok => Affine(GeDoubleScalarMultVartime(a, A.p, b))
                    = Sum(Multiple(a, Affine(A.p)), Multiple(b, B))

(* Bytes are a point exactly when the curve has one with this y; the point *)
(* has it, has the sign, and is written as the bytes it was read from, if  *)
(* they are the shortest form.                                             *)
PointIsRead(s) ==
    LET y == s % 2 ^ FieldBits
        sign == s \div 2 ^ FieldBits
        read == FromBytes(s)
        roots == {x \in Fe : <<x, y % P>> \in Curve}
    IN  /\ read.ok <=> roots # {}
        /\ read.ok => /\ Affine(read.p) \in Curve
                      /\ read.p.T = (read.p.X * read.p.Y) % P
                      /\ read.p.Y = y % P
                      /\ read.p.X % 2 = sign \/ read.p.X = 0
                      /\ ToBytes(read.p) = s \/ y >= P \/ read.p.X = 0

(* What Sign makes, Verify takes; with the same point it takes no other    *)
(* scalar, below or above the order (the malleability that the comment in  *)
(* Verify is about).                                                       *)
OnlySignatureVerifies(seed, message, others) ==
    LET key == NewKeyFromSeed(seed)
        sig == Sign(key, message)
    IN  /\ Verify(key.public, message, sig)
        /\ \A s \in others : Verify(key.public, message, <<sig[1], s>>)
                                <=> s = sig[2]
=============================================================================
