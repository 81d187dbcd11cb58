---------------------------- MODULE AluReference ----------------------------
(***************************************************************************)
(* One integer instruction on each of many operands, and what it should    *)
(* do: in terms of the numbers and of the strings of bits that the         *)
(* operands stand for.  D is the real byte with its two decimal digits.    *)
(***************************************************************************)
EXTENDS Alu

D == INSTANCE Alu WITH Byte <- 8, Nib <- 4, Base <- 10

VARIABLES
    x,          \* operands
    executed    \* the instruction that was executed on them, and its outcome

insn == executed[1]
res == executed[2]

Word == 2 * Byte
Dword == 4 * Byte
Values(w) == 0 .. 2 ^ w - 1
Edges(w) == {n \in {0, 1, 2, 5, 2 ^ (w - 2), 2 ^ (w - 1) - 2, 2 ^ (w - 1) - 1, 2 ^ (w - 1), 2 ^ (w - 1) + 1,
                    2 ^ w - 6, 2 ^ w - 2, 2 ^ w - 1} : n \in Values(w)}
Counts == 0 .. 4 * Byte + 1

Clear == [cf |-> FALSE, of |-> FALSE, sf |-> FALSE, zf |-> FALSE, af |-> FALSE, pf |-> FALSE]
Carry(c) == [Clear EXCEPT !.cf = c, !.of = TRUE]

\* x is a case of a kind of instructions.
Case(kind, cpus, w, A, B, C, F) ==
    \E cpu \in cpus, a \in A, b \in B, c \in C, f \in F :
        x = [kind |-> kind, cpu |-> cpu, w |-> w, a |-> a, b |-> b, c |-> c, f |-> f]

Either == {Carry(TRUE), Carry(FALSE)}
Cases ==
    \/ \E w \in {Byte, Word} : Case("sum", {"386"}, w, Values(w), Values(w), {0}, Either)
    \/ Case("sum", {"386"}, Dword, Edges(Dword), Edges(Dword), {0}, Either)
    \/ Case("long", {"386"}, Byte, Values(Word), Values(Word), {0}, {Clear})
    \/ \E w \in {Byte, Word} : Case("shift", Cpus, w, Values(w), {0}, Counts, Either)
    \/ Case("shift", {"386"}, Dword, Edges(Dword), {0}, Counts, Either)
    \/ Case("double", {"386"}, Word, Values(Word), Edges(Word), Counts, {Clear})
    \/ Case("double", {"386"}, Dword, Edges(Dword), Edges(Dword), Counts, {Clear})
    \/ Case("product", Cpus, Byte, Values(Byte), Values(Byte), {0}, {Clear})
    \/ Case("product", {"386"}, Word, Values(Word), Values(Word), {0}, {Clear})
    \/ Case("quotient", Cpus, Byte, Values(Byte), Values(Byte), Values(Byte), {Clear})
    \/ Case("quotient", {"286", "386"}, Word, Edges(Word), Edges(Word), Values(Word), {Clear})
    \/ Case("string", {"386"}, Word, Values(Word), Values(Word), {0}, {Clear})
    \/ Case("decimal", Cpus, 8, 0 .. 99, {n \in 0 .. 99 : n \div 10 \in {0, 5, 9}}, {0}, {Clear, [Clear EXCEPT !.cf = TRUE]})

Instructions(kind) ==
    CASE kind = "sum"      -> {"add", "adc", "sub", "sbb", "cmp", "inc", "dec", "neg", "cmpxchg"}
      [] kind = "long"     -> {"addadc", "cmpsbb"}
      [] kind = "shift"    -> {"rol", "ror", "rcl", "rcr", "shl", "shr", "sar", "setmo"}
      [] kind = "double"   -> {"shld", "shrd"}
      [] kind = "product"  -> {"mul", "imul"}
      [] kind = "quotient" -> {"div", "idiv"}
      [] kind = "string"   -> {"bt", "bts", "btr", "btc", "bsf", "bsr"}
      [] kind = "decimal"  -> {"daa", "das", "aaa", "aas", "aam", "aad"}

-----------------------------------------------------------------------------
(* Long numbers, as a program adds and compares them: with an instruction  *)
(* between the two halves that must not change CF.                         *)

Low(n)  == n % 2 ^ Byte
Upper(n) == n \div 2 ^ Byte
Chain(first, second, a, b) ==
    LET low == DoAlu(first, Byte, Low(a), Low(b), x.f)
        high == DoAlu(second, Byte, Upper(a), Upper(b), Inc(Byte, 0, low.f).f)
    IN  Gives(high.v * 2 ^ Byte + low.v, high.f)

Packed(n) == ((n \div 10) * 16) + (n % 10)
Digits(n) == [ah |-> n \div 10, al |-> n % 10]

Decimal(op, cpu, a, b, f) ==
    LET sum == D!Add(8, Packed(a), Packed(b), D!AsBit(f.cf), f)
        difference == D!Sub(8, Packed(a), Packed(b), D!AsBit(f.cf), f)
    IN  CASE op = "daa" -> D!Daa(cpu, sum.v, sum.f)
          [] op = "das" -> D!Das(cpu, difference.v, difference.f)
          [] op = "aaa" -> LET s == D!Add(8, a % 10, b % 10, D!AsBit(f.cf), f)
                           IN  D!Aaa(cpu, b \div 10, s.v, s.f)
          [] op = "aas" -> LET s == D!Sub(8, a % 10, b % 10, D!AsBit(f.cf), f)
                           IN  D!Aas(cpu, b \div 10, s.v, s.f)
          [] op = "aam" -> D!Aam(cpu, (a % 10) * (b % 10), 10, f)
          [] op = "aad" -> D!Aad(cpu, a \div 10, a % 10, 10, f)

\* The outcomes of an instruction: IDIV may have two.
Outcomes(op) ==
    CASE x.kind = "sum" /\ op \in {"add", "adc", "sub", "sbb", "cmp"} -> {DoAlu(op, x.w, x.a, x.b, x.f)}
      [] op = "inc" -> {Inc(x.w, x.a, x.f)}
      [] op = "dec" -> {Dec(x.w, x.a, x.f)}
      [] op = "neg" -> {Neg(x.w, x.a, x.f)}
      [] op = "cmpxchg" -> {Cmpxchg(x.w, x.a, x.b, 1, x.f)}
      [] op = "addadc" -> {Chain("add", "adc", x.a, x.b)}
      [] op = "cmpsbb" -> {Chain("cmp", "sbb", x.a, x.b)}
      [] x.kind = "shift" -> {DoShift(op, x.cpu, x.w, x.a, x.c, x.f)}
      [] op = "shld" -> {Shld(x.w, x.a, x.b, x.c, x.f)}
      [] op = "shrd" -> {Shrd(x.w, x.a, x.b, x.c, x.f)}
      [] op = "mul"  -> {Multiply(x.cpu, x.w, x.a, x.b, x.f)}
      [] op = "imul" -> {Imul(x.cpu, x.w, x.a, x.b, x.f)}
      [] op = "div"  -> {Divide(x.cpu, x.w, x.a, x.b, x.c, x.f)}
      [] op = "idiv" -> Idiv(x.cpu, x.w, x.a, x.b, x.c, x.f)
      [] op = "bsf"  -> {Bsf(x.w, x.a, x.b, x.f)}
      [] op = "bsr"  -> {Bsr(x.w, x.a, x.b, x.f)}
      [] x.kind = "string" -> {BitTest(op, x.w, x.a, x.b, x.f)}
      [] x.kind = "decimal" -> {Decimal(op, x.cpu, x.a, x.b, x.f)}

AluInit == Cases /\ executed = <<"none", "none">>

AluNext ==
    /\ insn = "none"
    /\ \E op \in Instructions(x.kind) : \E outcome \in Outcomes(op) : executed' = <<op, outcome>>
    /\ UNCHANGED x

-----------------------------------------------------------------------------
(* Properties. *)

Fits(w, n) == n \in - 2 ^ (w - 1) .. 2 ^ (w - 1) - 1

\* r has the flags of the number that exact is unsigned and signed is signed.
Exactly(w, r, exact, signed) ==
    /\ r.v = exact % 2 ^ w
    /\ r.f.cf = (exact \notin Values(w))
    /\ r.f.of = ~ Fits(w, signed)
    /\ r.f.zf = (exact % 2 ^ w = 0)
    /\ r.f.sf = (signed % 2 ^ w >= 2 ^ (w - 1))

\* What the conditions say of the operands that were compared.
Orders(w, a, b, f) ==
    LET below == a < b
        less == Signed(w, a) < Signed(w, b)
    IN  /\ Cond("b", f) = below /\ Cond("ae", f) = ~ below
        /\ Cond("l", f) = less /\ Cond("ge", f) = ~ less
        /\ Cond("be", f) = (a <= b) /\ Cond("a", f) = (a > b)
        /\ Cond("le", f) = (less \/ a = b) /\ Cond("g", f) = (~ less /\ a # b)
        /\ Cond("e", f) = (a = b) /\ Cond("ne", f) = (a # b)

\* Sums and differences are those of the numbers the operands stand for, signed
\* and unsigned, with or without a carry in, and their flags say what did not
\* fit; after a comparison the conditions order both kinds of numbers; and long
\* numbers are added and ordered half by half, whatever comes between.
SumsAreExact ==
    LET s(n) == Signed(x.w, n)
        in == AsBit(x.f.cf)
        nib == 2 ^ Nib
    IN  /\ insn \in {"add", "adc"} =>
             LET c == IF insn = "adc" THEN in ELSE 0
             IN  Exactly(x.w, res, x.a + x.b + c, s(x.a) + s(x.b) + c)
                 /\ res.f.af = ((x.a % nib) + (x.b % nib) + c >= nib)
        /\ insn \in {"sub", "sbb"} =>
             LET c == IF insn = "sbb" THEN in ELSE 0
             IN  Exactly(x.w, res, x.a - x.b - c, s(x.a) - s(x.b) - c)
                 /\ res.f.af = (x.a % nib < (x.b % nib) + c)
        /\ insn = "cmp" => res.v = x.a /\ Orders(x.w, x.a, x.b, res.f)
        /\ insn = "cmpxchg" => Orders(x.w, x.a, x.b, res.f)
        /\ insn = "neg" => Exactly(x.w, res, - x.a, - s(x.a))
        /\ insn \in {"inc", "dec"} =>
             LET by == IF insn = "inc" THEN 1 ELSE -1
             IN  /\ Exactly(x.w, [res EXCEPT !.f.cf = (x.a + by \notin Values(x.w))], x.a + by, s(x.a) + by)
                 /\ res.f.cf = x.f.cf
        /\ insn = "addadc" =>
             /\ res.v = (x.a + x.b) % 2 ^ Word /\ res.f.cf = (x.a + x.b >= 2 ^ Word)
             /\ res.f.of = ~ Fits(Word, Signed(Word, x.a) + Signed(Word, x.b))
        /\ insn = "cmpsbb" =>
             /\ Cond("b", res.f) = (x.a < x.b)
             /\ Cond("l", res.f) = (Signed(Word, x.a) < Signed(Word, x.b))

\* The bits that follow those of v, with rest(i) in place i below it or above it.
Number(w, bit(_)) ==
    LET sum[i \in 0 .. w] == IF i = 0 THEN 0 ELSE sum[i - 1] + AsBit(bit(i - 1)) * 2 ^ (i - 1)
    IN  sum[w]

\* Bit p of v carried round, counted from its lowest, with cf above the top one.
Around(w, v, p) == Bit(v, p % w)
AroundCarry(w, v, cf, p) == LET i == p % (w + 1) IN IF i = w THEN cf ELSE Bit(v, i)

Quirky(n) == x.cpu = "386" /\ x.w = Byte /\ n \in {2 * Byte, 3 * Byte}

\* Shifts move every bit by the count that the processor takes, and CF gets the
\* last bit that left (a byte of the 386 shifted by 16 or 24 excepted); rotates
\* lose none, through CF or not; double shifts go on through the source; OF says
\* that a shift by one changed the sign; a count of zero changes no flag.
ShiftsMoveBits ==
    LET w == x.w
        n == IF x.cpu = "8088" THEN x.c ELSE x.c % (4 * Byte)
        v == x.a
        sign(p) == IF p >= w THEN SignBit(w, v) ELSE Bit(v, p)
        up(p) == p < w /\ Bit(v, p)
        Is(bit(_), carry) == res.v = Number(w, bit) /\ res.f.cf = carry
        past(p) == IF p < w THEN Bit(v, w - 1 - p) ELSE Bit(x.b, w - 1 - (p % w))
        next(p) == IF p < w THEN Bit(v, p) ELSE Bit(x.b, p % w)
    IN  insn \in Instructions("shift") \cup Instructions("double") =>
          /\ n = 0 => res = Gives(v, x.f)
          /\ n > 0 =>
               /\ insn = "rol" => Is(LAMBDA i : Around(w, v, i + n * (w - 1)), Bit(res.v, 0))
               /\ insn = "ror" => Is(LAMBDA i : Around(w, v, i + n), SignBit(w, res.v))
               /\ insn = "rcl" => Is(LAMBDA i : AroundCarry(w, v, x.f.cf, i + n * w),
                                     AroundCarry(w, v, x.f.cf, w + n * w))
               /\ insn = "rcr" => Is(LAMBDA i : AroundCarry(w, v, x.f.cf, i + n),
                                     AroundCarry(w, v, x.f.cf, w + n))
               /\ insn = "shl" /\ ~ Quirky(n) => Is(LAMBDA i : i >= n /\ Bit(v, i - n), n <= w /\ Bit(v, w - n))
               /\ insn = "shr" /\ ~ Quirky(n) => Is(LAMBDA i : up(i + n), up(n - 1))
               /\ insn = "sar" => Is(LAMBDA i : sign(i + n), sign(n - 1))
               /\ insn = "shld" => Is(LAMBDA i : past(n + w - 1 - i), past(n - 1))
               /\ insn = "shrd" => Is(LAMBDA i : next(n + i), next(n - 1))
               /\ n = 1 /\ insn # "setmo" => res.f.of = (SignBit(w, v) # SignBit(w, res.v))

\* A product has all the bits of the exact one, and CF and OF say whether its
\* lower half is enough; division gives back what multiplication was given, with
\* a remainder smaller than the divisor and of the dividend's sign, and refuses
\* exactly what does not fit (but for the one band of bytes, where the quotient
\* and the remainder still add up to the low byte of the dividend, and the most
\* negative dividend, whose quotient by -1 the host computes).
DivisionUndoesMultiplication ==
    LET s(n) == Signed(x.w, n)
        long == x.a * 2 ^ x.w + x.b
        n == Signed(2 * x.w, long)
        d == s(x.c)
        abs(k) == IF k < 0 THEN - k ELSE k
        q == s(res.v.quo)
        rem == s(res.v.rem)
        refused == res.v = "#DE"
    IN  /\ insn = "mul" => /\ res.v.hi * 2 ^ x.w + res.v.lo = x.a * x.b
                           /\ res.f.cf = (x.a * x.b >= 2 ^ x.w) /\ res.f.of = res.f.cf
        /\ insn = "imul" => /\ Signed(2 * x.w, res.v.hi * 2 ^ x.w + res.v.lo) = s(x.a) * s(x.b)
                            /\ res.f.cf = ~ Fits(x.w, s(x.a) * s(x.b)) /\ res.f.of = res.f.cf
        /\ insn = "div" => IF x.c = 0 \/ long >= x.c * 2 ^ x.w THEN res = DivideError
                           ELSE res.v.quo * x.c + res.v.rem = long /\ res.v.rem < x.c
        /\ insn = "idiv" /\ ~ (x.w > Byte /\ n = - 2 ^ (2 * x.w - 1) /\ d = -1) =>
             LET fits == \E k \in - 2 ^ (x.w - 1) .. 2 ^ (x.w - 1) - 1 :
                           abs(n - k * d) < abs(d) /\ (n = k * d \/ (n - k * d < 0) = (n < 0))
             IN  IF d = 0 THEN res = DivideError
                 ELSE IF fits THEN q * d + rem = n /\ abs(rem) < abs(d) /\ (rem = 0 \/ (rem < 0) = (n < 0))
                 ELSE res = DivideError \/ (x.w = Byte /\ (n - q * d - rem) % 2 ^ x.w = 0)

\* Decimal sums, differences, products and pairs of digits come out in decimal,
\* with the carry or borrow that decimal arithmetic has, on all three processors.
DecimalsAreExact ==
    LET c == D!AsBit(x.f.cf)
        digit == (x.a % 10) + (x.b % 10) + c
        less == (x.a % 10) - (x.b % 10) - c
    IN  insn \in Instructions("decimal") =>
        /\ insn = "daa" => res.v = Packed((x.a + x.b + c) % 100) /\ res.f.cf = (x.a + x.b + c > 99)
        /\ insn = "das" => /\ res.v = Packed((x.a - x.b - c) % 100)
                           /\ x.cpu # "8088" => res.f.cf = (x.a - x.b - c < 0)
        /\ insn = "aaa" => /\ res.v = [ah |-> x.b \div 10 + digit \div 10, al |-> digit % 10]
                           /\ res.f.cf = (digit > 9)
        /\ insn = "aas" => /\ res.v = [ah |-> (x.b \div 10 + less \div 10) % 256, al |-> less % 10]
                           /\ res.f.cf = (less < 0)
        /\ insn = "aam" => res.v = Digits((x.a % 10) * (x.b % 10))
        /\ insn = "aad" => res.v = [ah |-> 0, al |-> x.a]

\* The bit that BT and its kind test in memory is the one at that distance, and
\* BTS, BTR and BTC undo one another; BSF and BSR find the ends of a number.
BitsAreFound ==
    insn \in Instructions("string") =>
      /\ insn \in {"bt", "bts", "btr", "btc"} =>
           /\ (BitOperand(x.w, x.a, x.b) * Byte + (Signed(x.w, x.b) % x.w) - x.a * Byte - Signed(x.w, x.b))
                % (Byte * 2 ^ Word) = 0
           /\ res.f.cf = Bit(x.a, Signed(x.w, x.b) % x.w)
           /\ insn = "bt" => res.v = x.a
      /\ insn = "btc" => BitTest("btc", x.w, res.v, x.b, x.f).v = x.a
      /\ insn = "bts" => BitTest("btr", x.w, res.v, x.b, x.f).v = BitTest("btr", x.w, x.a, x.b, x.f).v
      /\ insn = "bsf" => IF x.a = 0 THEN res.v = x.b /\ res.f.zf
                         ELSE x.a % 2 ^ (res.v + 1) = 2 ^ res.v /\ ~ res.f.zf
      /\ insn = "bsr" => IF x.a = 0 THEN res.v = x.b /\ res.f.zf
                         ELSE x.a \in 2 ^ res.v .. 2 ^ (res.v + 1) - 1 /\ ~ res.f.zf

-----------------------------------------------------------------------------
\* Integer instructions do what they should with the numbers their operands
\* stand for, and with the strings of bits.
IntegersAreRight ==
    /\ SumsAreExact /\ DivisionUndoesMultiplication /\ DecimalsAreExact
    /\ ShiftsMoveBits /\ BitsAreFound
=============================================================================
