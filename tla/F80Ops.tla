------------------------------- MODULE F80Ops -------------------------------
(***************************************************************************)
(* The x87 operations built on F80: comparison, rounding to an integer,    *)
(* scaling, remainders, conversions, and the pairs of numbers that the     *)
(* transcendental functions compute with (emu88_f80.h).                    *)
(***************************************************************************)
EXTENDS F80

Magnitude(a) == [Unpack(a) EXCEPT !.neg = FALSE]

\* Neither is zero.
Above(a, b) ==
    /\ Class(b) # "inf"
    /\ \/ Class(a) = "inf"
       \/ Unpack(a).exp > Unpack(b).exp
       \/ Unpack(a).exp = Unpack(b).exp /\ Unpack(a).sig > Unpack(b).sig

Same(a, b) == \/ Class(a) = "inf" /\ Class(b) = "inf"
              \/ "inf" \notin {Class(a), Class(b)} /\ Magnitude(a) = Magnitude(b)

Relation(a, b) ==
    IF Class(a) = "zero" /\ Class(b) = "zero" THEN "eq"
    ELSE IF Class(a) = "zero" THEN IF b.neg THEN "gt" ELSE "lt"
    ELSE IF Class(b) = "zero" \/ a.neg # b.neg THEN IF a.neg THEN "lt" ELSE "gt"
    ELSE IF Same(a, b) THEN "eq"
    ELSE IF Above(a, b) # a.neg THEN "gt" ELSE "lt"

\* A quiet comparison (FUCOM) lets a quiet NaN through.
Compare(a, b, quiet) ==
    IF {Class(a), Class(b)} \cap {"unsupported", "snan"} # {}
    THEN Exact("unordered", {"IE"})
    ELSE IF "qnan" \in {Class(a), Class(b)}
    THEN Exact("unordered", IF quiet THEN {} ELSE {"IE"})
    ELSE Exact(Relation(a, b), Denormal({a, b}))

One(neg) == Value(neg, Bias, J)

\* FRNDINT: to exp + 1 bits, whatever the precision control says.
RndInt(a, c) ==
    LET w   == Unpack(a)
        one == CASE c.rc = "nearest" -> w.exp = -1 /\ w.sig > 2 ^ (W - 1)
                 [] c.rc = "down"    -> w.neg
                 [] c.rc = "up"      -> ~ w.neg
                 [] c.rc = "chop"    -> FALSE
    IN  IF Decides({a}) THEN PropNan({a})
        ELSE IF Class(a) \in {"zero", "inf"} THEN Exact(a, {})
        ELSE IF w.exp >= P - 1 THEN Exact(a, {})
        ELSE IF w.exp >= 0 THEN RoundPack(w.neg, w.exp, w.sig, FALSE, w.exp + 1, c)
        ELSE Result(IF one THEN One(w.neg) ELSE Zero(w.neg),
                    Denormal({a}) \cup {"PE"}, one)

Clamp(x) == IF x > ScaleCap THEN ScaleCap ELSE IF x < - ScaleCap THEN - ScaleCap ELSE x

\* Toward zero, to P bits with sign, saturating.
Truncated(a) ==
    LET w == Unpack(a)
        m == w.sig \div 2 ^ (W - 1 - w.exp)
    IN  IF Class(a) = "zero" THEN 0
        ELSE IF Class(a) = "inf" \/ w.exp >= P - 1 THEN IF a.neg THEN - J ELSE J - 1
        ELSE IF w.exp < 0 THEN 0
        ELSE IF a.neg THEN - m ELSE m

\* FSCALE, always at full precision.
Scale(a, b, c) ==
    LET de == Denormal({a, b})
        w  == Unpack(a)
    IN  IF Decides({a, b}) THEN PropNan({a, b})
        ELSE IF Class(b) = "inf"
        THEN IF Class(a) = (IF b.neg THEN "inf" ELSE "zero") THEN Invalid
             ELSE IF Class(a) \in {"zero", "inf"} THEN Exact(a, {})
             ELSE Exact(IF b.neg THEN Zero(a.neg) ELSE Inf(a.neg), Denormal({a}))
        ELSE IF Class(a) \in {"zero", "inf"} THEN Exact(a, de)
        ELSE Raise(RoundPack(a.neg, Clamp(w.exp + Clamp(Truncated(b))), w.sig, FALSE, P, c), de)

\* The nearest quotient is the next one, or half way and even.
RoundsQuotient(rem, q, divisor) ==
    2 * rem > divisor \/ (2 * rem = divisor /\ q % 2 = 1)

\* FPREM and FPREM1: [v, flags, c1, quo, partial].  A difference of exponents
\* of P or more is reduced by half a significand, and C2 asks for another go.
Remainder(a, b, ieee, c) ==
    LET de      == Denormal({a, b})
        a1      == IF a.e = 0 /\ a.sig >= J THEN [a EXCEPT !.e = 1] ELSE a
        x       == Unpack(a1)
        y       == Unpack(b)
        d       == x.exp - y.exp
        partial == d >= P
        step    == IF partial THEN P \div 2 ELSE d
        A       == Half(x) * 2 ^ step
        q       == A \div Half(y)
        rem     == A % Half(y)
        up      == ieee /\ ~ partial /\ RoundsQuotient(rem, q, Half(y))
        left    == IF up THEN Half(y) - rem ELSE rem
        neg     == x.neg # up
        base    == y.exp + (d - step)
        back    == 2 * Half(y) - Half(x)
        done(r, quo) == [v |-> r.v, flags |-> r.flags, c1 |-> r.c1,
                         quo |-> quo % 8, partial |-> FALSE]
        packed(n, exp, m) ==
            LET z == P - 1 - HighBit(m)
            IN  RoundPack(n, exp - z, m * 2 ^ (P + z), FALSE, P, c)
    IN  IF Decides({a, b}) THEN done(PropNan({a, b}), 0)
        ELSE IF Class(a) = "inf" \/ Class(b) = "zero" THEN done(Invalid, 0)
        ELSE IF Class(b) = "inf" \/ Class(a) = "zero" THEN done(Exact(a1, de), 0)
        ELSE IF d < 0 /\ (~ ieee \/ d < -1 \/ Half(x) <= Half(y)) THEN done(Exact(a1, de), 0)
        ELSE IF d < 0 THEN done(Raise(packed(~ x.neg, y.exp - 1, back), de), 1)
        ELSE [done(Raise(IF left = 0 THEN Exact(Zero(neg), {}) ELSE packed(neg, base, left), de),
                   IF up THEN q + 1 ELSE q) EXCEPT !.partial = partial]

\* FILD.
FromInt(i) ==
    LET m == IF i < 0 THEN - i ELSE i
        z == P - 1 - HighBit(m)
    IN  IF i = 0 THEN Zero(FALSE) ELSE Value(i < 0, P - 1 - z + Bias, m * 2 ^ z)

\* FXTRACT: the exponent as a number, and the significand in [1, 2).
Extract(a) ==
    LET w == Unpack(a)
    IN  IF Decides({a}) THEN [exp |-> PropNan({a}), sig |-> PropNan({a}).v]
        ELSE IF Class(a) = "zero" THEN [exp |-> Exact(Inf(TRUE), {"ZE"}), sig |-> a]
        ELSE IF Class(a) = "inf" THEN [exp |-> Exact(Inf(FALSE), {}), sig |-> a]
        ELSE [exp |-> Exact(FromInt(w.exp), Denormal({a})), sig |-> Value(a.neg, Bias, Half(w))]

-----------------------------------------------------------------------------
(* Conversions.  A narrow format has mbits of fraction and this bias. *)

\* FST to a single or a double; the value delivered is [neg, e, frac].
ToNarrow(a, mbits, bias, c) ==
    LET w      == Unpack(a)
        top    == 2 * bias + 1
        prec   == mbits + 1
        least  == 1 - bias
        narrow(e, frac) == [neg |-> a.neg, e |-> e, frac |-> frac]
        grid   == w.exp < least
        r      == RoundSig(w.sig, FALSE, prec,
                           IF grid THEN Lesser(least - w.exp, ShiftCap) ELSE 0, c.rc, a.neg)
        carry  == r.keep \div 2 ^ prec > 0
        E      == IF carry THEN w.exp + 1 ELSE w.exp
        keep   == IF carry THEN r.keep \div 2 ELSE r.keep
        inf    == ToInfinity(c.rc, a.neg)
        normal == r.keep \div 2 ^ mbits > 0
        tiny   == Tiny(a.neg, w.exp, w.sig, FALSE, prec, c.rc, least)
    IN  IF Class(a) = "unsupported"
        THEN Exact([neg |-> TRUE, e |-> top, frac |-> 2 ^ (mbits - 1)], {"IE"})
        ELSE IF Class(a) \in NaNs
        THEN Exact(narrow(top, MadeQuiet(a).sig % J \div 2 ^ (P - 1 - mbits)),
                   IF Class(a) = "snan" THEN {"IE"} ELSE {})
        ELSE IF Class(a) = "inf" THEN Exact(narrow(top, 0), {})
        ELSE IF Class(a) = "zero" THEN Exact(narrow(0, 0), {})
        ELSE IF ~ grid /\ E > bias
        THEN Result(IF inf THEN narrow(top, 0) ELSE narrow(top - 1, 2 ^ mbits - 1),
                    {"OE", "PE"}, inf)
        ELSE IF ~ grid THEN Result(narrow(E + bias, keep % 2 ^ mbits), Inexact(r), r.inc)
        ELSE Result(narrow(IF normal THEN 1 ELSE 0, r.keep % 2 ^ mbits),
                    Inexact(r) \cup (IF r.inexact /\ tiny THEN {"UE"} ELSE {}), r.inc)

\* FLD of one: exact, a denormal is normalised and reported.
FromNarrow(n, mbits, bias) ==
    LET k == HighBit(n.frac)
        m == n.frac * 2 ^ (P - 1 - mbits)
    IN  IF n.e = 0 /\ n.frac = 0 THEN Exact(Zero(n.neg), {})
        ELSE IF n.e = 0
        THEN Exact(Value(n.neg, k + 1 - bias - mbits + Bias, n.frac * 2 ^ (P - 1 - k)), {"DE"})
        ELSE IF n.e = 2 * bias + 1 /\ n.frac = 0 THEN Exact(Inf(n.neg), {})
        ELSE IF n.e = 2 * bias + 1
        THEN Exact(MadeQuiet(Value(n.neg, Top, J + m)),
                   IF n.frac < 2 ^ (mbits - 1) THEN {"IE"} ELSE {})
        ELSE Exact(Value(n.neg, n.e - bias + Bias, J + m), {})

\* FIST and FISTTP to a signed integer of so many bits.
ToInt(a, bits, rc) ==
    LET w     == Unpack(a)
        r     == RoundSig(w.sig, FALSE, w.exp + 1, 0, rc, w.neg)
        limit == 2 ^ (bits - 1)
        bad   == Exact(- limit, {"IE"})
    IN  IF Decides({a}) \/ Class(a) = "inf" THEN bad
        ELSE IF Class(a) = "zero" THEN Exact(0, {})
        ELSE IF w.exp >= P THEN bad
        ELSE IF r.keep > (IF w.neg THEN limit ELSE limit - 1) THEN bad
        ELSE Result(IF w.neg THEN - r.keep ELSE r.keep, Inexact(r), r.inc)

\* FBSTP to a sign and a magnitude up to limit.
ToBcd(a, limit, rc) ==
    LET w   == Unpack(a)
        r   == RoundSig(w.sig, FALSE, w.exp + 1, 0, rc, w.neg)
        bad == Exact("indefinite", {"IE"})
    IN  IF Decides({a}) \/ Class(a) = "inf" THEN bad
        ELSE IF Class(a) = "zero" THEN Exact([neg |-> a.neg, m |-> 0], {})
        ELSE IF w.exp >= P \/ r.keep > limit THEN bad
        ELSE Result([neg |-> a.neg, m |-> r.keep], Inexact(r), r.inc)

-----------------------------------------------------------------------------
(* Numbers as a head and a tail, for the transcendental functions. *)

Internal == [rc |-> "nearest", prec |-> P, um |-> TRUE, om |-> TRUE]

XAdd(a, b) == AddSub(a, b, FALSE, Internal).v
XSub(a, b) == AddSub(a, b, TRUE, Internal).v

FromSig(neg, m, exp) ==
    LET z == P - 1 - HighBit(m)
    IN  IF m = 0 THEN Zero(neg)
        ELSE RoundPack(neg, exp - z, m * 2 ^ (P + z), FALSE, P, Internal).v

\* The tail keeps the scale that the product had before any carry.
TailExp(e, over) == e - P

\* The product of two normal numbers.
Mul2(a, b) ==
    LET s    == a.neg # b.neg
        x    == Unpack(a)
        y    == Unpack(b)
        p    == Half(x) * Half(y)
        hi   == p >= 2 ^ (W - 1)
        e    == x.exp + y.exp + (IF hi THEN 1 ELSE 0)
        n    == IF hi THEN p ELSE 2 * p
        head == n \div 2 ^ P
        tail == n % 2 ^ P
        up   == tail > J \/ (tail = J /\ head % 2 = 1)
        over == up /\ head + 1 = 2 ^ P
    IN  IF Class(a) # "normal" \/ Class(b) # "normal"
        THEN [hi |-> Mul(a, b, Internal).v, lo |-> Zero(FALSE)]
        ELSE [hi |-> IF over THEN FromSig(s, J, e + 1)
                     ELSE FromSig(s, IF up THEN head + 1 ELSE head, e),
              lo |-> FromSig(s # up, IF up THEN 2 ^ P - tail ELSE tail, TailExp(e, over))]

\* The sum of two numbers (Knuth's 2Sum).
Add2(a, b) ==
    LET s  == XAdd(a, b)
        bp == XSub(s, a)
    IN  [hi |-> s, lo |-> XAdd(XSub(a, XSub(s, bp)), XSub(b, bp))]
=============================================================================
