-------------------------------- MODULE F80 --------------------------------
(***************************************************************************)
(* The 80-bit software floating point of the x87 (emu88_f80.h), with a     *)
(* significand of P bits and the exponent bias of a smaller format in      *)
(* place of 64 and 16383.  A working significand has twice P bits, as      *)
(* f80_wide has 128.                                                       *)
(*                                                                         *)
(* An operand is [neg, e, sig]: sign, biased exponent, significand with an *)
(* explicit leading bit.  A context is [rc, prec, um, om]: rounding        *)
(* control, precision control, and whether underflow and overflow are      *)
(* masked.  A result is [v, flags, c1].                                    *)
(***************************************************************************)
EXTENDS Integers, FiniteSets

CONSTANTS
    P,              \* bits of a significand (64)
    Bias,           \* of the exponent (16383)
    Adjust,         \* added or taken off by an unmasked response (24576)
    ShiftCap,       \* no shift to the denormal grid is longer (200)
    ScaleCap        \* clamp on the exponents of FSCALE (100000)

ASSUME FormatAssumption ==
    /\ {P, Bias, Adjust, ShiftCap, ScaleCap} \subseteq Nat
    /\ P > 1 /\ Bias > 1 /\ ShiftCap > P

W == 2 * P
Top == 2 * Bias + 1
EMin == 1 - Bias
J == 2 ^ (P - 1)
Quiet == 2 ^ (P - 2)

Value(neg, e, sig) == [neg |-> neg, e |-> e, sig |-> sig]
Zero(neg) == Value(neg, 0, 0)
Inf(neg) == Value(neg, Top, J)
Indefinite == Value(TRUE, Top, J + Quiet)

Class(a) ==
    IF a.e = 0 THEN IF a.sig = 0 THEN "zero" ELSE "denormal"
    ELSE IF a.sig < J THEN "unsupported"
    ELSE IF a.e # Top THEN "normal"
    ELSE IF a.sig = J THEN "inf"
    ELSE IF a.sig >= J + Quiet THEN "qnan" ELSE "snan"

NaNs == {"qnan", "snan"}

Result(v, flags, c1) == [v |-> v, flags |-> flags, c1 |-> c1]
Exact(v, flags) == Result(v, flags, FALSE)
Invalid == Exact(Indefinite, {"IE"})
Raise(r, flags) == [r EXCEPT !.flags = @ \cup flags]

\* #D is held back until no exception of higher priority has decided.
Denormal(operands) ==
    IF \E a \in operands : Class(a) = "denormal" THEN {"DE"} ELSE {}

-----------------------------------------------------------------------------
(* Unpacking and rounding. *)

\* Index of the highest bit of x # 0.
HighBit(x) == CHOOSE k \in 0 .. 2 * W : 2 ^ k <= x /\ x < 2 ^ (k + 1)

\* A wide number: [neg, exp, sig], the significand with bit W - 1 set.
Wide(neg, exp, sig) == [neg |-> neg, exp |-> exp, sig |-> sig]

Unpack(a) ==
    IF a.e = 0
    THEN LET k == HighBit(a.sig)
         IN  Wide(a.neg, k - (Bias + P - 2), a.sig * 2 ^ (W - 1 - k))
    ELSE Wide(a.neg, a.e - Bias, a.sig * 2 ^ P)

Half(w) == w.sig \div 2 ^ P

\* Keep the top prec - dshift bits of a wide significand.
RoundSig(sig, sticky, prec, dshift, rc, neg) ==
    LET drop  == W - prec + dshift
        k     == sig \div 2 ^ drop
        round == (sig \div 2 ^ (drop - 1)) % 2 = 1
        more  == sig % 2 ^ (drop - 1) # 0 \/ sticky
        up    == CASE rc = "nearest" -> round /\ (more \/ k % 2 = 1)
                   [] rc = "down"    -> neg /\ (round \/ more)
                   [] rc = "up"      -> ~ neg /\ (round \/ more)
                   [] rc = "chop"    -> FALSE
    IN  [keep |-> IF up THEN k + 1 ELSE k, inexact |-> round \/ more, inc |-> up]

\* Which way the masked response to an overflow goes.
ToInfinity(rc, neg) == rc = "nearest" \/ (rc = "down" /\ neg) \/ (rc = "up" /\ ~ neg)

Inexact(r) == IF r.inexact THEN {"PE"} ELSE {}

\* Result in the normal range, or beyond it with the exception unmasked: r is a
\* rounded significand, m it at its place, and exp its exponent.
Placed(neg, exp, m, r, prec, c) ==
    IF exp > Bias /\ c.om
    THEN IF ToInfinity(c.rc, neg) THEN Result(Inf(neg), {"OE", "PE"}, TRUE)
         ELSE Result(Value(neg, Top - 1, 2 ^ P - 2 ^ (P - prec)), {"OE", "PE"}, FALSE)
    ELSE IF exp > Bias
    THEN Result(Value(neg, exp + Bias - Adjust, m), {"OE"} \cup Inexact(r), r.inc)
    ELSE IF exp < EMin
    THEN Result(Value(neg, exp + Bias + Adjust, m), {"UE"} \cup Inexact(r), r.inc)
    ELSE Result(Value(neg, exp + Bias, m), Inexact(r), r.inc)

\* A carry out of the rounding moves the significand back by one bit.
Carried(neg, exp, r, prec, c) ==
    LET carry == IF r.keep \div 2 ^ prec > 0 THEN 1 ELSE 0
    IN  Placed(neg, exp + carry, (r.keep \div 2 ^ carry) * 2 ^ (P - prec), r, prec, c)

PackNormal(neg, exp, sig, sticky, prec, c) ==
    Carried(neg, exp, RoundSig(sig, sticky, prec, 0, c.rc, neg), prec, c)

\* Tininess is asked of the rounding with an unbounded exponent.
Tiny(neg, exp, sig, sticky, prec, rc, least) ==
    LET unbounded == RoundSig(sig, sticky, prec, 0, rc, neg)
    IN  exp + (IF unbounded.keep \div 2 ^ prec > 0 THEN 1 ELSE 0) < least

Lesser(x, y) == IF x < y THEN x ELSE y

\* Result on the denormal grid; it may reach the smallest normal number.
OnGrid(neg, m, r, tiny) ==
    Result(Value(neg, IF m >= J THEN 1 ELSE 0, m),
           Inexact(r) \cup (IF r.inexact /\ tiny THEN {"UE"} ELSE {}), r.inc)

PackDenormal(neg, exp, sig, sticky, prec, c) ==
    LET Rounded(r) == OnGrid(neg, r.keep * 2 ^ (P - prec), r,
                             Tiny(neg, exp, sig, sticky, prec, c.rc, EMin))
    IN  Rounded(RoundSig(sig, sticky, prec, Lesser(EMin - exp, ShiftCap), c.rc, neg))

RoundPack(neg, exp, sig, sticky, prec, c) ==
    IF sig = 0 THEN Exact(Zero(neg), {})
    ELSE IF exp < EMin /\ c.um THEN PackDenormal(neg, exp, sig, sticky, prec, c)
    ELSE PackNormal(neg, exp, sig, sticky, prec, c)

-----------------------------------------------------------------------------
(* NaNs. *)

\* A NaN or an unsupported encoding among the operands decides the result:
\* the larger significand, then the smaller sign-exponent word, made quiet.
Decides(operands) == \E a \in operands : Class(a) \in NaNs \cup {"unsupported"}

Outranks(a, b) == a.sig > b.sig \/ (a.sig = b.sig /\ ~ a.neg)

MadeQuiet(a) == IF a.sig % J < Quiet THEN [a EXCEPT !.sig = @ + Quiet] ELSE a

PropNan(operands) ==
    LET nans == {a \in operands : Class(a) \in NaNs}
        a    == CHOOSE a \in nans : \A b \in nans \ {a} : Outranks(a, b)
        ie   == IF \E b \in nans : Class(b) = "snan" THEN {"IE"} ELSE {}
    IN  IF \E b \in operands : Class(b) = "unsupported" THEN Invalid
        ELSE Exact(MadeQuiet(a), ie)

-----------------------------------------------------------------------------
(* Arithmetic. *)

\* A sum of the significand sum, or zero.
PackSum(neg, exp, sum, sticky, prec, c) ==
    LET shift == W - 1 - HighBit(sum)
    IN  IF sum = 0 THEN Exact(Zero(c.rc = "down"), {})
        ELSE RoundPack(neg, exp - shift, (sum * 2 ^ (W - 1)) \div 2 ^ HighBit(sum),
                       sticky \/ (shift < 0 /\ sum % 2 = 1), prec, c)

\* Bug: the sticky bit of the number taken away is jammed and not borrowed.
AlignedSumJammed(a, b, d, prec, c) ==
    LET bs     == IF d >= W THEN 0 ELSE b.sig \div 2 ^ d
        sticky == d >= W \/ b.sig % 2 ^ d # 0
    IN  PackSum(a.neg, a.exp, IF a.neg = b.neg THEN a.sig + bs ELSE a.sig - bs, sticky, prec, c)

\* The part of a significand that an alignment by d shifts out becomes sticky,
\* and a sticky bit of the number taken away is a borrow.
AlignedSum(a, b, d, prec, c) ==
    LET bs     == IF d >= W THEN 0 ELSE b.sig \div 2 ^ d
        sticky == d >= W \/ b.sig % 2 ^ d # 0
        sum    == IF a.neg = b.neg THEN a.sig + bs
                  ELSE a.sig - bs - (IF sticky THEN 1 ELSE 0)
    IN  PackSum(a.neg, a.exp, sum, sticky, prec, c)

SumOfWide(x, y, prec, c) ==
    LET less == y.exp > x.exp \/ (y.exp = x.exp /\ y.sig > x.sig)
        a    == IF less THEN y ELSE x
        b    == IF less THEN x ELSE y
    IN  AlignedSum(a, b, a.exp - b.exp, prec, c)

AddSub(a, b, sub, c) ==
    LET de == Denormal({a, b})
        sb == b.neg # sub
        x  == Unpack(a)
        y  == [Unpack(b) EXCEPT !.neg = sb]
    IN  IF Decides({a, b}) THEN PropNan({a, b})
        ELSE IF Class(a) = "inf"
        THEN IF Class(b) = "inf" /\ a.neg # sb THEN Invalid ELSE Exact(a, de)
        ELSE IF Class(b) = "inf" THEN Exact(Inf(sb), de)
        ELSE IF Class(a) = "zero" /\ Class(b) = "zero"
        THEN Exact(Zero((a.neg /\ sb) \/ (a.neg # sb /\ c.rc = "down")), de)
        ELSE Raise(IF Class(a) = "zero" THEN RoundPack(sb, y.exp, y.sig, FALSE, c.prec, c)
                   ELSE IF Class(b) = "zero" THEN RoundPack(a.neg, x.exp, x.sig, FALSE, c.prec, c)
                   ELSE SumOfWide(x, y, c.prec, c), de)

Mul(a, b, c) ==
    LET de == Denormal({a, b})
        s  == a.neg # b.neg
        x  == Unpack(a)
        y  == Unpack(b)
        p  == Half(x) * Half(y)
        hi == p >= 2 ^ (W - 1)
    IN  IF Decides({a, b}) THEN PropNan({a, b})
        ELSE IF "inf" \in {Class(a), Class(b)}
        THEN IF "zero" \in {Class(a), Class(b)} THEN Invalid ELSE Exact(Inf(s), de)
        ELSE IF "zero" \in {Class(a), Class(b)} THEN Exact(Zero(s), de)
        ELSE Raise(IF hi THEN RoundPack(s, x.exp + y.exp + 1, p, FALSE, c.prec, c)
                         ELSE RoundPack(s, x.exp + y.exp, 2 * p, FALSE, c.prec, c), de)

\* The quotient of two significands to W bits; what is left is sticky.
Div(a, b, c) ==
    LET de  == Denormal({a, b})
        s   == a.neg # b.neg
        x   == Unpack(a)
        y   == Unpack(b)
        lt  == Half(x) < Half(y)
        num == Half(x) * 2 ^ (IF lt THEN P ELSE P - 1)
        q1  == num \div Half(y)
        rem == (num % Half(y)) * 2 ^ P
        q   == q1 * 2 ^ P + rem \div Half(y)
        e   == x.exp - y.exp - (IF lt THEN 1 ELSE 0)
    IN  IF Decides({a, b}) THEN PropNan({a, b})
        ELSE IF Class(a) = "inf"
        THEN IF Class(b) = "inf" THEN Invalid ELSE Exact(Inf(s), de)
        ELSE IF Class(b) = "inf" THEN Exact(Zero(s), de)
        ELSE IF Class(b) = "zero"
        THEN IF Class(a) = "zero" THEN Invalid ELSE Exact(Inf(s), {"ZE"})
        ELSE IF Class(a) = "zero" THEN Exact(Zero(s), de)
        ELSE Raise(RoundPack(s, e, q, rem % Half(y) # 0, c.prec, c), de)

\* Digit by digit: the root of the first 2i bits of a radicand of 2W bits.
Root(radicand) ==
    LET digit[i \in 0 .. P + 1] ==
          IF i = 0 THEN [root |-> 0, rem |-> 0]
          ELSE LET prev == digit[i - 1]
                   rem  == (prev.rem * 4) + ((radicand \div 4 ^ (W - i)) % 4)
                   t    == prev.root * 4 + 1
               IN  IF rem >= t THEN [root |-> 2 * prev.root + 1, rem |-> rem - t]
                               ELSE [root |-> 2 * prev.root, rem |-> rem]
    IN  digit[P + 1]

Sqrt(a, c) ==
    LET w == Unpack(a)
        s == IF w.exp % 2 = 1 THEN W ELSE W - 1
        N == w.sig * 2 ^ s
        r == Root(N)
        e == W - 1 + (w.exp - (W - 1) - s) \div 2
    IN  IF Decides({a}) THEN PropNan({a})
        ELSE IF Class(a) = "zero" THEN Exact(a, {})
        ELSE IF a.neg THEN Invalid
        ELSE IF Class(a) = "inf" THEN Exact(a, {})
        ELSE Raise(RoundPack(FALSE, e, r.root * 2 ^ (P - 1),
                             r.rem # 0 \/ N % 4 ^ (P - 1) # 0, c.prec, c), Denormal({a}))
=============================================================================
