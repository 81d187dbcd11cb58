---------------------------- MODULE FpuReference ----------------------------
(***************************************************************************)
(* One x87 operation on every pair of operands of a small format, against  *)
(* Rounding.                                                               *)
(***************************************************************************)
EXTENDS F80Ops

CONSTANTS
    Exponents,      \* biased exponents of the operands
    Precisions,     \* settings of precision control
    NarrowBits, NarrowBias,     \* the narrower format of FST
    Scaling         \* fraction bits of the units the reference counts in

VARIABLES
    a, b, c,    \* operands and context
    done        \* the operation that was done with them, and its result

op == done[1]
r == done[2]

INSTANCE Rounding

Operands == {x \in [neg : BOOLEAN, e : Exponents, sig : 0 .. 2 ^ P - 1] :
                x.e > 0 => x.sig >= J - 1}
Contexts == [rc : {"nearest", "down", "up", "chop"}, prec : Precisions, um : {TRUE}, om : {TRUE}]
            \cup [rc : {"nearest"}, prec : {P}, um : {FALSE}, om : {FALSE}]

FpuInit ==
    /\ done = <<"none", "none">>
    /\ a \in Operands /\ b \in Operands /\ c \in Contexts
    /\ ~ a.neg \/ b = Zero(FALSE)

Do(name, result) == done' = <<name, result>> /\ UNCHANGED <<a, b, c>>

\* Reducing again as long as C2 says so, as a guest does.
Reduced(ieee) ==
    LET rem[n \in 0 .. 2 * W] ==
          IF n = 0 THEN Remainder(a, b, ieee, c)
          ELSE LET x == rem[n - 1] IN IF x.partial THEN Remainder(x.v, b, ieee, c) ELSE x
    IN  rem[2 * W]

Full == c.prec = P /\ c.rc = "nearest"

FpuNext ==
    /\ op = "none"
    /\ \/ Do("add", AddSub(a, b, FALSE, c))
       \/ Do("sub", AddSub(a, b, TRUE, c))
       \/ Do("mul", Mul(a, b, c))
       \/ Do("div", Div(a, b, c))
       \/ c.prec = P /\ Do("scale", Scale(a, b, c))
       \/ Full /\ Do("compare", Compare(a, b, FALSE))
       \/ Full /\ Do("rem", Reduced(FALSE))
       \/ Full /\ Do("rem1", Reduced(TRUE))
       \/ Full /\ Do("mul2", Mul2(a, b))
       \/ Full /\ Do("add2", Add2(a, b))
       \/ b = Zero(FALSE) /\ Do("sqrt", Sqrt(a, c))
       \/ b = Zero(FALSE) /\ Do("rndint", RndInt(a, c))
       \/ b = Zero(FALSE) /\ Do("store", ToNarrow(a, NarrowBits, NarrowBias, c))
       \/ b = Zero(FALSE) /\ Do("int", ToInt(a, P - 1, c.rc))
       \/ b = Zero(FALSE) /\ Do("bcd", ToBcd(a, J + 1, c.rc))
       \/ b = Zero(FALSE) /\ Do("extract", Extract(a))

-----------------------------------------------------------------------------
Finite(x) == Class(x) \in {"zero", "denormal", "normal"}
AllMasked == c.um /\ c.om

\* Magnitude and value in units.
Mag(x) == Units(x.sig, (IF x.e = 0 THEN 1 ELSE x.e) - Bias - P + 1)
Val(x) == IF x.neg THEN - Mag(x) ELSE Mag(x)
Abs(n) == IF n < 0 THEN - n ELSE n

Format == [prec |-> c.prec, emin |-> EMin, emax |-> Bias]

\* The number num / den rounded.
Ratio(f, neg, num, den) ==
    RoundedTo(f, c.rc, neg, LAMBDA h : 2 * num >= h * den, LAMBDA h : 2 * num <= h * den)

\* The square root of num, which is in units of 2^-(2 Scaling), rounded.
RootOf(f, num) ==
    RoundedTo(f, c.rc, FALSE, LAMBDA h : 4 * num >= h * h, LAMBDA h : 4 * num <= h * h)

Agrees(result, neg, ref) ==
    /\ result.flags \ {"DE"} = ref.flags
    /\ result.c1 = ref.larger
    /\ IF ref.inf THEN result.v = Inf(neg)
       ELSE Finite(result.v) /\ Mag(result.v) = ref.m /\ (ref.m > 0 => result.v.neg = neg)

\* Addition, subtraction, multiplication, division and square root deliver the
\* exact result rounded as RC and PC say, onto the denormal grid too, and raise
\* inexact, underflow and overflow and set C1 accordingly.
ArithmeticRounds ==
    op \in {"add", "sub", "mul", "div", "sqrt"} /\ AllMasked /\ Finite(a) /\ Finite(b) =>
      /\ op \in {"add", "sub"} =>
           LET s == IF op = "add" THEN Val(a) + Val(b) ELSE Val(a) - Val(b)
           IN  Agrees(r, s < 0, Ratio(Format, s < 0, Abs(s), 1))
      /\ op = "mul" =>
           Agrees(r, a.neg # b.neg, Ratio(Format, a.neg # b.neg, Mag(a) * Mag(b), 2 ^ Scaling))
      /\ op = "div" /\ Mag(b) > 0 =>
           Agrees(r, a.neg # b.neg, Ratio(Format, a.neg # b.neg, Mag(a) * 2 ^ Scaling, Mag(b)))
      /\ op = "sqrt" /\ ~ a.neg =>
           Agrees(r, FALSE, RootOf(Format, Mag(a) * 2 ^ Scaling))

Narrow == [prec |-> NarrowBits + 1, emin |-> 1 - NarrowBias, emax |-> NarrowBias]

\* The integers up to limit, as a format with one binade.
NearestInteger(limit) ==
    Neighbour({Units(i, 0) : i \in 0 .. limit}, c.rc, a.neg,
              LAMBDA h : 2 * Mag(a) >= h, LAMBDA h : 2 * Mag(a) <= h)

\* The integer i (IE if it is no value of the destination) rounds a.
RoundsToInteger(i, ok) ==
    LET n == NearestInteger(2 ^ (P + 1))
    IN  IF ok THEN /\ Units(i, 0) = n
                   /\ r.flags = IF n = Mag(a) THEN {} ELSE {"PE"}
                   /\ r.c1 = (n > Mag(a))
        ELSE r.flags = {"IE"} /\ ~ r.c1

\* A whole number of units of 1 toward zero, the way FSCALE takes ST(1).
Power(x) == IF x.neg THEN - (Mag(x) \div Units(1, 0)) ELSE Mag(x) \div Units(1, 0)

\* Stores to a narrower format, to integers and to decimals, FRNDINT and FSCALE
\* deliver the exact value rounded once, raise what their destination causes and
\* nothing else, and refuse what it cannot hold; a load of what was stored gives
\* the same value back.
ConversionsRound ==
    op \in {"store", "int", "bcd", "rndint", "scale"} /\ AllMasked /\ Finite(a) =>
      /\ op = "store" =>
           LET ref  == Ratio(Narrow, a.neg, Mag(a), 1)
               back == FromNarrow(r.v, NarrowBits, NarrowBias).v
           IN  /\ r.flags = ref.flags /\ r.c1 = ref.larger /\ r.v.neg = a.neg
               /\ IF ref.inf THEN back = Inf(a.neg) ELSE Finite(back) /\ Mag(back) = ref.m
      /\ op = "int" =>
           LET n  == NearestInteger(2 ^ (P + 1))
               ok == n <= Units(IF a.neg THEN 2 ^ (P - 2) ELSE 2 ^ (P - 2) - 1, 0)
           IN  RoundsToInteger(Abs(r.v), ok) /\ (ok /\ r.v # 0 => a.neg = (r.v < 0))
      /\ op = "bcd" =>
           LET ok == NearestInteger(2 ^ (P + 1)) <= Units(J + 1, 0)
           IN  IF ok THEN RoundsToInteger(r.v.m, TRUE) /\ r.v.neg = a.neg
               ELSE r.flags = {"IE"}
      /\ op = "rndint" =>
           LET n == NearestInteger(2 ^ (P + 1))
           IN  /\ Mag(r.v) = n /\ r.v.neg = a.neg
               /\ r.flags \ {"DE"} = (IF n = Mag(a) THEN {} ELSE {"PE"})
               /\ r.c1 = (n > Mag(a))
      /\ op = "scale" /\ Finite(b) /\ Abs(Power(b)) < J =>
           Agrees(r, a.neg, IF b.neg THEN Ratio(Format, a.neg, Mag(a), 2 ^ Abs(Power(b)))
                            ELSE Ratio(Format, a.neg, Mag(a) * 2 ^ Power(b), 1))

\* FPREM and FPREM1, called until they no longer ask for it, leave the exact
\* remainder of the truncated and of the nearest even quotient, with the low bits
\* of the quotient that a partial reduction does not touch.
RemainderIsExact ==
    op \in {"rem", "rem1"} /\ Finite(a) /\ Finite(b) /\ Mag(b) > 0 =>
      LET q    == Mag(a) \div Mag(b)
          rest == Mag(a) % Mag(b)
          next == /\ op = "rem1"
                  /\ 2 * rest > Mag(b) \/ (2 * rest = Mag(b) /\ q % 2 = 1)
          left == IF next THEN Mag(b) - rest ELSE rest
      IN  AllMasked => /\ ~ r.partial /\ r.flags \subseteq {"DE"}
                    /\ Mag(r.v) = left /\ r.v.neg = (a.neg # next)
                    /\ (r.quo - (IF next THEN q + 1 ELSE q)) % 2 ^ (P \div 2) = 0

\* The head and tail that the transcendental functions are computed with add up
\* to exactly the sum and exactly the product: the sum of numbers a factor of two
\* away from overflow, the product wherever no bit of the tail is below the
\* denormal grid.
PairsAreExact ==
    op \in {"mul2", "add2"} /\ Finite(a) /\ Finite(b) =>
      /\ op = "add2" /\ Mag(a) < Units(1, Bias) /\ Mag(b) < Units(1, Bias) =>
             Val(r.hi) + Val(r.lo) = Val(a) + Val(b)
      /\ op = "mul2" /\ Finite(r.hi) /\ {Class(a), Class(b)} = {"normal"}
           /\ (Val(a) * Val(b)) % Units(1, EMin - P + 1 + Scaling) = 0 =>
             (Val(r.hi) + Val(r.lo)) * 2 ^ Scaling = Val(a) * Val(b)

\* A comparison orders numbers by value: zeros of both signs are equal, and so
\* are the two encodings a number at the foot of the normal range may have.
ComparesValues ==
    op = "compare" /\ Finite(a) /\ Finite(b) =>
      r.v = IF Val(a) = Val(b) THEN "eq" ELSE IF Val(a) > Val(b) THEN "gt" ELSE "lt"

-----------------------------------------------------------------------------
\* The operations that round are correctly rounded, and those that do not are
\* exact.
RoundsCorrectly == /\ ArithmeticRounds /\ ConversionsRound
                   /\ RemainderIsExact /\ PairsAreExact /\ ComparesValues
=============================================================================
