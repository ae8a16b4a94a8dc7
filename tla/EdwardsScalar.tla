--------------------------- MODULE EdwardsScalar ---------------------------
(***************************************************************************)
(* The scalars of edwards25519.go: numbers modulo the order of the curve,  *)
(* l = 2^252 + 27742317777372353535851937790883648493, in limbs of 21 bits *)
(* of which twelve hold a scalar and 24 a product or a digest.  The width  *)
(* of a limb and the digits of the order are parameters, for numbers that  *)
(* TLC can calculate with; the rest is the code's.                         *)
(***************************************************************************)
EXTENDS Integers, Sequences

CONSTANTS
    Bits,   \* 21: the width of a limb
    Digits  \* of 2^252 modulo l, in limbs: 666643, 470296, 654183, -997805,
            \* 136657 and -683901

RECURSIVE NumberOf(_)
NumberOf(digits) ==
    IF digits = <<>> THEN 0
    ELSE Head(digits) + 2 ^ Bits * NumberOf(Tail(digits))

Order == 2 ^ (12 * Bits) - NumberOf(Digits)

(* Arrays are functions over indices from 0, as in the code. *)
Index == 0..23

(* load3 and load4, with the masks and shifts that take limbs apart; the   *)
(* last of them keeps what is above.                                       *)
Load(n, last) ==
    [i \in Index |->
       IF i < last THEN (n \div 2 ^ (Bits * i)) % 2 ^ Bits
       ELSE IF i = last THEN n \div 2 ^ (Bits * i) ELSE 0]

Balanced(s, i) ==
    LET c == (s[i] + 2 ^ (Bits - 1)) \div 2 ^ Bits
    IN  [s EXCEPT ![i] = @ - c * 2 ^ Bits, ![i + 1] = @ + c]

Plain(s, i) ==
    LET c == s[i] \div 2 ^ Bits
    IN  [s EXCEPT ![i] = @ - c * 2 ^ Bits, ![i + 1] = @ + c]

(* Limb i, of 2^252 and more, is put in the six limbs below. *)
Fold(s, i) ==
    [k \in Index |-> IF k \in i - 12..i - 7
                     THEN s[k] + s[i] * Digits[k - i + 13]
                     ELSE IF k = i THEN 0 ELSE s[k]]

(* op at every second limb, or at each, from one to another; an s is never *)
(* empty, and looked at first so that TLC computes it.                     *)
RECURSIVE Upwards(_, _, _, _, _)
Upwards(op(_, _), s, from, to, by) ==
    IF s = <<>> \/ from > to THEN s
    ELSE Upwards(op, op(s, from), from + by, to, by)

RECURSIVE FoldDown(_, _, _)
FoldDown(s, from, to) ==
    IF s = <<>> \/ from < to THEN s ELSE FoldDown(Fold(s, from), from - 1, to)

EvenThenOdd(s, from, lastEven, lastOdd) ==
    Upwards(Balanced, Upwards(Balanced, s, from, lastEven, 2),
            from + 1, lastOdd, 2)

(* The part that ScMulAdd and ScReduce have in common: from 24 limbs to    *)
(* twelve, folding before a carry can grow, and at last without rounding.  *)
UpperHalf(s) == EvenThenOdd(FoldDown(s, 23, 18), 6, 16, 15)

LowerHalf(s) == Fold(EvenThenOdd(FoldDown(s, 17, 12), 0, 10, 11), 12)

LastCarries(s) ==
    Upwards(Plain, Fold(Upwards(Plain, s, 0, 11, 1), 12), 0, 10, 1)

Reduced(s) == LastCarries(LowerHalf(UpperHalf(s)))

RECURSIVE SumOfProducts(_, _, _, _)
SumOfProducts(a, b, k, i) ==
    IF i > 11 THEN 0
    ELSE (IF k - i \in 0..11 THEN a[i] * b[k - i] ELSE 0)
             + SumOfProducts(a, b, k, i + 1)

ScMulAdd(a, b, c) ==
    LET x == Load(a, 11)
        y == Load(b, 11)
        z == Load(c, 11)
        s == [k \in Index |-> z[k] + SumOfProducts(x, y, k, 0)]
    IN  Reduced(EvenThenOdd(s, 0, 22, 21))

(* The digest is the sequence of its 24 limbs. *)
ScReduce(digest) == Reduced([k \in Index |-> digest[k + 1]])

(* ScMinimal, which compares from the highest word. *)
ScMinimal(words, order) ==
    \E i \in 1..Len(words) : /\ words[i] < order[i]
                             /\ \A j \in i + 1..Len(words) :
                                   words[j] = order[j]

----------------------------------------------------------------------------
(* What must hold.                                                         *)

RECURSIVE Residue(_, _, _)
Residue(s, i, n) ==   \* of the number in limbs, from the highest
    IF i < 0 THEN n % Order
    ELSE Residue(s, i - 1, (n * 2 ^ Bits + s[i]) % Order)

Value(s) == Residue(s, 23, 0)

(* a * b modulo the order, limb by limb *)
RECURSIVE Product(_, _, _)
Product(a, limbs, i) ==
    IF i > 11 THEN 0
    ELSE (Product(a, limbs, i + 1) * 2 ^ Bits + a * limbs[i]) % Order

InTwelveLimbs(s) ==
    /\ \A i \in 0..10 : s[i] \in 0..2 ^ Bits - 1
    /\ s[11] >= 0
    /\ \A i \in 12..23 : s[i] = 0

(* s = a * b + c modulo the order, in twelve limbs that fit their bytes:   *)
(* what Sign calls it for.                                                 *)
MulAddIsExact(a, b, c) ==
    LET s == ScMulAdd(a, b, c)
    IN  /\ Value(s) = (Product(a % Order, Load(b, 11), 0) + c) % Order
        /\ InTwelveLimbs(s)

(* A digest of 512 bits is reduced to the number it is modulo the order.   *)
ReduceIsExact(digest) ==
    LET s == ScReduce(digest)
    IN  /\ Value(s) = Value([k \in Index |-> digest[k + 1]])
        /\ InTwelveLimbs(s)
=============================================================================
