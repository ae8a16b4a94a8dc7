---------------------------- MODULE EdwardsField ----------------------------
(***************************************************************************)
(* The field of edwards25519.go: numbers modulo 2^255 - 19 in ten limbs of *)
(* 26 and 25 bits, by turns.  The number of limbs, their widths and the 19 *)
(* are parameters here, for numbers that TLC can calculate with: products, *)
(* carries and their order are the code's.  An element is the sequence of  *)
(* its limbs, from the lowest; limbs may be negative.                      *)
(***************************************************************************)
EXTENDS Integers, Sequences, FiniteSets

CONSTANTS
    Limbs,     \* 10: the length of a FieldElement
    Even, Odd, \* 26 and 25: widths of the limbs with even and odd indices
    Nineteen   \* 19

Index == 0..Limbs - 1

Width(i) == IF i % 2 = 0 THEN Even ELSE Odd

(* The lowest bit of a limb: 0, 26, 51, 77, ... *)
Place(i) == (i \div 2) * (Even + Odd) + (i % 2) * Even

Modulus == 2 ^ Place(Limbs) - Nineteen

(* Functions over Index stand for arrays. *)
RECURSIVE ValueUpTo(_, _)
ValueUpTo(h, i) ==
    IF i < 0 THEN 0 ELSE ValueUpTo(h, i - 1) + h[i] * 2 ^ Place(i)

Value(h) == ValueUpTo(h, Limbs - 1)

FeZero == [i \in Index |-> 0]

FeOne == [i \in Index |-> IF i = 0 THEN 1 ELSE 0]

FeAdd(a, b) == [i \in Index |-> a[i] + b[i]]

FeSub(a, b) == [i \in Index |-> a[i] - b[i]]

FeNeg(f) == [i \in Index |-> -f[i]]

FeCMove(f, g, b) == IF b = 1 THEN g ELSE f

(* One carry into the next limb, or from the last into the first. *)
CarryOne(h, i, rounding) ==
    LET c == (h[i] + rounding) \div 2 ^ Width(i)
    IN  [h EXCEPT ![i] = @ - c * 2 ^ Width(i),
                  ![(i + 1) % Limbs] =
                       @ + (IF i = Limbs - 1 THEN Nineteen * c ELSE c)]

RECURSIVE Carry(_, _)
Carry(h, order) ==
    IF order = <<>> THEN h
    ELSE Carry(CarryOne(h, Head(order), 2 ^ (Width(Head(order)) - 1)),
               Tail(order))

FeCombine(h) == Carry(h, <<0, 4, 1, 5, 2, 6, 3, 7, 4, 8, 9, 0>>)

(* The factor of f_i * g_j in a product: 2 when two halves of a bit meet,  *)
(* and 19 when the sum of the places passes the modulus.                   *)
Factor(i, j) ==
    (IF i % 2 = 1 /\ j % 2 = 1 THEN 2 ELSE 1)
        * (IF i + j >= Limbs THEN Nineteen ELSE 1)

RECURSIVE Products(_, _, _, _)
Products(f, g, k, i) ==
    IF i = Limbs THEN 0
    ELSE LET j == (k - i) % Limbs
         IN  Factor(i, j) * f[i] * g[j] + Products(f, g, k, i + 1)

FeMul(f, g) == FeCombine([k \in Index |-> Products(f, g, k, 0)])

(* feSquare takes the products of different limbs once, doubled. *)
RECURSIVE Squares(_, _, _)
Squares(f, k, i) ==
    IF i = Limbs THEN 0
    ELSE LET j == (k - i) % Limbs
         IN  (IF i < j THEN 2 ELSE IF i = j THEN 1 ELSE 0)
                 * Factor(i, j) * f[i] * f[j]
             + Squares(f, k, i + 1)

FeSquare(f) == FeCombine([k \in Index |-> Squares(f, k, 0)])

FeSquare2(f) == FeCombine([k \in Index |-> 2 * Squares(f, k, 0)])

(* FeFromBytes: bits in the limbs, in the wide form of load3 and load4: a  *)
(* limb may hold bits of the next one, above its width, and lacks them     *)
(* there.  taken[i] says how many bits beyond its width limb i takes.      *)
FeFromBytes(n, taken) ==
    LET from(i) == Place(i) + (IF i = 0 THEN 0 ELSE taken[i - 1])
        till(i) == Place(i + 1) + taken[i]
    IN  FeCombine([i \in Index |->
                     ((n \div 2 ^ from(i)) % 2 ^ (till(i) - from(i)))
                         * 2 ^ (from(i) - Place(i))])

(* FeToBytes: the quotient by the modulus, estimated from the last limb,   *)
Quotient(h) ==
    LET q[i \in 0..Limbs] ==
            IF i = 0
            THEN (Nineteen * h[Limbs - 1] + 2 ^ (Odd - 1)) \div 2 ^ Odd
            ELSE (h[i - 1] + q[i - 1]) \div 2 ^ Width(i - 1)
    IN  q[Limbs]

(* ... is subtracted, and the carries, without rounding, leave each limb   *)
(* with the bits of its width; the last carry is dropped.                  *)
FeToBytes(h) ==
    LET start == [h EXCEPT ![0] = @ + Nineteen * Quotient(h)]
        carried[i \in 0..Limbs] ==
            IF i = 0 THEN start
            ELSE LET r == carried[i - 1]
                     c == r[i - 1] \div 2 ^ Width(i - 1)
                 IN  [k \in Index |->
                        IF k = i - 1 THEN r[k] % 2 ^ Width(k)
                        ELSE IF k = i THEN r[k] + c ELSE r[k]]
    IN  Value(carried[Limbs])

FeIsNegative(f) == FeToBytes(f) % 2

FeIsNonZero(f) == IF FeToBytes(f) # 0 THEN 1 ELSE 0

----------------------------------------------------------------------------
(* The powers: an exponent is the set of its bits.  A square moves them up *)
(* by one; a product of powers whose exponents have no bit in common has   *)
(* the bits of both.  What has one in common is not defined.               *)
Times(S, T) == IF S \cap T = {} THEN S \cup T ELSE {-1}

Squared(S, n) == {i + n : i \in S}

InvertExponent ==
    LET z  == {0}
        s0 == Squared(z, 1)
        s1 == Times(z, Squared(Squared(s0, 1), 1))
        t0 == Times(s0, s1)
        t1 == Times(s1, Squared(t0, 1))
        b9 == Times(Squared(t1, 5), t1)
        c9 == Times(Squared(b9, 10), b9)
        d9 == Times(Squared(c9, 20), c9)
        e9 == Times(Squared(d9, 10), b9)
        f9 == Times(Squared(e9, 50), e9)
        g9 == Times(Squared(f9, 100), f9)
        h9 == Times(Squared(g9, 50), e9)
    IN  Times(Squared(h9, 5), t0)

Pow22523Exponent ==
    LET z  == {0}
        s0 == Squared(z, 1)
        s1 == Times(z, Squared(Squared(s0, 1), 1))
        t0 == Squared(Times(s0, s1), 1)
        a  == Times(s1, t0)
        b  == Times(Squared(a, 5), a)
        c  == Times(Squared(b, 10), b)
        d  == Times(Squared(c, 20), c)
        e  == Times(Squared(d, 10), b)
        f  == Times(Squared(e, 50), e)
        g  == Times(Squared(f, 100), f)
        h  == Times(Squared(g, 50), e)
    IN  Times(Squared(h, 2), z)

----------------------------------------------------------------------------
(* What must hold.                                                         *)

(* Sums, differences, products and squares of limbs are those of the       *)
(* numbers modulo 2^255 - 19, for limbs of either sign and beyond their    *)
(* width: no carry is lost, and none of the factors in the unrolled        *)
(* products of FeMul and feSquare.                                         *)
FieldIsExact(f, g) ==
    LET Same(h, n) == (Value(h) - n) % Modulus = 0
        x == Value(f) % Modulus
        y == Value(g) % Modulus
    IN  /\ Same(FeAdd(f, g), x + y)
        /\ Same(FeSub(f, g), x - y)
        /\ Same(FeNeg(f), -x)
        /\ Same(FeMul(f, g), x * y)
        /\ Same(FeSquare(f), x * x)
        /\ Same(FeSub(FeSquare2(f), FeSquare(f)), x * x)

(* What is written is the number's one representation below the modulus,   *)
(* for limbs in the bounds that the comments above FeToBytes give, so that *)
(* equal elements have equal bytes.                                        *)
BytesAreCanonical(h) == FeToBytes(h) = Value(h) % Modulus

(* The limbs taken from bytes stand for the bytes' number.                 *)
BytesAreTaken(n, taken) == (Value(FeFromBytes(n, taken)) - n) % Modulus = 0

(* The chains of squares and products reach 2^255 - 21, which is the       *)
(* modulus less two, and 2^252 - 3.                                        *)
ChainsReachExponents ==
    /\ InvertExponent = (0..254) \ {2, 4}
    /\ Pow22523Exponent = (0..251) \ {1}
=============================================================================
