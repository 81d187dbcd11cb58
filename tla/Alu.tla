-------------------------------- MODULE Alu ---------------------------------
(***************************************************************************)
(* The integer instructions of the emulated 8088, 286 and 386: the         *)
(* arithmetic and logic group, shifts and rotates, double shifts,          *)
(* multiplication and division, the decimal adjustments, bit strings and   *)
(* the conditions that jumps and SETcc test.                               *)
(*                                                                         *)
(* A number is the value of its w bits, where w is Byte (8 in the code),   *)
(* twice or four times that.  The code has one copy of everything for each *)
(* width.                                                                  *)
(***************************************************************************)
EXTENDS Integers, FiniteSets, Bitwise

CONSTANTS
    Byte,       \* bits of the narrowest operand
    Nib,        \* bits of a decimal digit, below the auxiliary carry
    Base        \* of the decimal digits

ASSUME AluAssumption ==
    Byte \in Nat /\ Nib \in 1 .. Byte - 1 /\ Base \in 2 .. 2 ^ Nib - 1

Cpus == {"8088", "286", "386"}

Bit(n, i) == (n \div 2 ^ i) % 2 = 1
SignBit(w, n) == Bit(n, w - 1)
Ones(n, w) == Cardinality({i \in 0 .. w - 1 : Bit(n, i)})
Signed(w, n) == IF SignBit(w, n) THEN n - 2 ^ w ELSE n
AsBit(set) == IF set THEN 1 ELSE 0

\* Registers are changed only by what does not end in a divide error.
Gives(v, f) == [v |-> v, f |-> f]
DivideError == [v |-> "#DE"]

-----------------------------------------------------------------------------
(* Flags. *)

\* set_flags_zsp8, 16 and 32.
Zsp(w, r, f) == [f EXCEPT !.zf = (r = 0), !.sf = SignBit(w, r), !.pf = (Ones(r, Byte) % 2 = 0)]

\* set_flags_logic8, 16 and 32.
Logic(w, r, f) == Gives(r, [Zsp(w, r, f) EXCEPT !.cf = FALSE, !.of = FALSE, !.af = FALSE])

Auxiliary(a, b, r) == (AsBit(Bit(a, Nib)) + AsBit(Bit(b, Nib)) + AsBit(Bit(r, Nib))) % 2 = 1

\* alu_add8, 16 and 32, and set_flags_add.
Add(w, a, b, carry, f) ==
    LET r == (a + b + carry) % 2 ^ w
    IN  Gives(r, [Zsp(w, r, f) EXCEPT
            !.cf = a + b + carry >= 2 ^ w,
            !.af = Auxiliary(a, b, r),
            !.of = SignBit(w, a) # SignBit(w, r) /\ SignBit(w, b) # SignBit(w, r)])

Sub(w, a, b, borrow, f) ==
    LET r == (a - b - borrow) % 2 ^ w
    IN  Gives(r, [Zsp(w, r, f) EXCEPT
            !.cf = a < b + borrow,
            !.af = Auxiliary(a, b, r),
            !.of = SignBit(w, a) # SignBit(w, b) /\ SignBit(w, a) # SignBit(w, r)])

\* do_alu8, 16 and 32, under all the opcodes that lead there.
DoAlu(op, w, a, b, f) ==
    CASE op = "add" -> Add(w, a, b, 0, f)
      [] op = "or"  -> Logic(w, a | b, f)
      [] op = "adc" -> Add(w, a, b, AsBit(f.cf), f)
      [] op = "sbb" -> Sub(w, a, b, AsBit(f.cf), f)
      [] op = "and" -> Logic(w, a & b, f)
      [] op = "sub" -> Sub(w, a, b, 0, f)
      [] op = "xor" -> Logic(w, a ^^ b, f)
      [] op = "cmp" -> Gives(a, Sub(w, a, b, 0, f).f)

\* INC and DEC of every width and operand.
Inc(w, a, f) ==
    LET r == (a + 1) % 2 ^ w
    IN  Gives(r, [Zsp(w, r, f) EXCEPT !.af = (a % 2 ^ Nib = 2 ^ Nib - 1), !.of = (a = 2 ^ (w - 1) - 1)])
Dec(w, a, f) ==
    LET r == (a - 1) % 2 ^ w
    IN  Gives(r, [Zsp(w, r, f) EXCEPT !.af = (a % 2 ^ Nib = 0), !.of = (a = 2 ^ (w - 1))])

\* NOT and NEG.
Complement(w, a, f) == Gives(2 ^ w - 1 - a, f)
Neg(w, a, f) == Gives((Complement(w, a, f).v + 1) % 2 ^ w, [Sub(w, 0, a, 0, f).f EXCEPT !.cf = (a # 0)])

\* CMPXCHG: v is what the destination holds, acc what the accumulator does.
Cmpxchg(w, acc, dst, src, f) ==
    [v |-> IF acc = dst THEN src ELSE dst, acc |-> IF acc = dst THEN acc ELSE dst,
     f |-> [Sub(w, acc, dst, 0, f).f EXCEPT !.zf = (acc = dst)]]

\* The conditions of Jcc and SETcc.
Cond(cc, f) ==
    CASE cc = "o"  -> f.of
      [] cc = "no" -> ~ f.of
      [] cc = "b"  -> f.cf
      [] cc = "ae" -> ~ f.cf
      [] cc = "e"  -> f.zf
      [] cc = "ne" -> ~ f.zf
      [] cc = "be" -> f.cf \/ f.zf
      [] cc = "a"  -> ~ f.cf /\ ~ f.zf
      [] cc = "s"  -> f.sf
      [] cc = "ns" -> ~ f.sf
      [] cc = "p"  -> f.pf
      [] cc = "np" -> ~ f.pf
      [] cc = "l"  -> f.sf # f.of
      [] cc = "ge" -> f.sf = f.of
      [] cc = "le" -> f.zf \/ f.sf # f.of
      [] cc = "g"  -> ~ f.zf /\ f.sf = f.of

-----------------------------------------------------------------------------
(* Shifts and rotates. *)

Lefts == {"rol", "rcl", "shl", "setmo"}

\* One place: s is the operand, its carry, and the operand one place before.
OnePlace(op, cpu, w, s) ==
    LET Left(in)  == [v |-> ((2 * s.v) % 2 ^ w) + AsBit(in), cf |-> SignBit(w, s.v), prev |-> s.v]
        Right(in) == [v |-> s.v \div 2 + AsBit(in) * 2 ^ (w - 1), cf |-> Bit(s.v, 0), prev |-> s.v]
    IN  CASE op = "rol" -> Left(SignBit(w, s.v))
          [] op = "ror" -> Right(Bit(s.v, 0))
          [] op = "rcl" -> Left(s.cf)
          [] op = "rcr" -> Right(s.cf)
          [] op = "shr" -> Right(FALSE)
          [] op = "sar" -> Right(SignBit(w, s.v))
          [] op = "setmo" /\ cpu = "8088" -> [v |-> 2 ^ w - 1, cf |-> FALSE, prev |-> s.v]
          [] OTHER -> Left(FALSE)

Shifted(op, cpu, w, v, cf, count) ==
    LET after[n \in 0 .. count] ==
            IF n = 0 THEN [v |-> v, cf |-> cf, prev |-> v] ELSE OnePlace(op, cpu, w, after[n - 1])
    IN  after[count]

CountTaken(cpu, count) == IF cpu = "8088" THEN count ELSE count % (4 * Byte)

\* What the 386 puts in CF when a byte is shifted by a multiple of two bytes' bits.
QuirkyCarry(op, v, cf) ==
    CASE op \in {"shl", "setmo"} -> Bit(v, 0)
      [] op = "shr" -> SignBit(Byte, v)
      [] OTHER -> cf

Overflow(op, cpu, w, s, cf) ==
    CASE op \in Lefts -> ~ (op = "setmo" /\ cpu = "8088") /\ SignBit(w, s.v) # cf
      [] op \in {"ror", "rcr"} -> SignBit(w, s.v) # Bit(s.v, w - 2)
      [] op = "shr" -> SignBit(w, s.prev)
      [] op = "sar" -> FALSE

ShiftAuxiliary(op, cpu, r, f) ==
    IF cpu = "8088" /\ op # "shl" THEN FALSE
    ELSE cpu # "386" /\ op \in Lefts => Bit(r, Nib)

\* do_shift8, 16 and 32.
DoShift(op, cpu, w, v, count, f) ==
    LET n == CountTaken(cpu, count)
        s == Shifted(op, cpu, w, v, f.cf, n)
        cf == IF cpu = "386" /\ w = Byte /\ n \in {2 * Byte, 3 * Byte} THEN QuirkyCarry(op, v, s.cf) ELSE s.cf
        carried == [f EXCEPT !.cf = cf,
                             !.of = IF n = 1 \/ cpu # "8088" THEN Overflow(op, cpu, w, s, cf) ELSE @]
    IN  IF n = 0 THEN Gives(v, f)
        ELSE IF op \in {"rol", "ror", "rcl", "rcr"} THEN Gives(s.v, carried)
        ELSE Gives(s.v, [Zsp(w, s.v, carried) EXCEPT !.af = ShiftAuxiliary(op, cpu, s.v, f)])

\* SHLD and SHRD, which only the 386 has.  A count above the width of a word
\* brings in the source once more.
DoubleFlags(w, r, cf, of, f) == [Zsp(w, r, f) EXCEPT !.cf = cf, !.of = of, !.af = TRUE]

Shld(w, dst, src, count, f) ==
    LET n  == count % (4 * Byte)
        r  == IF n <= w THEN (dst * 2 ^ n + src \div 2 ^ (w - n)) % 2 ^ w
              ELSE ((src * 2 ^ w + src) \div 2 ^ (2 * w - n)) % 2 ^ w
        cf == IF n <= w THEN Bit(dst, w - n) ELSE Bit(src, 2 * w - n)
    IN  IF n = 0 THEN Gives(dst, f) ELSE Gives(r, DoubleFlags(w, r, cf, cf # SignBit(w, r), f))

Shrd(w, dst, src, count, f) ==
    LET n == count % (4 * Byte)
        long == (IF w = 4 * Byte THEN 0 ELSE src * 2 ^ (2 * w)) + src * 2 ^ w + dst
        r == (long \div 2 ^ n) % 2 ^ w
        prev == (long \div 2 ^ (n - 1)) % 2 ^ w
    IN  IF n = 0 THEN Gives(dst, f)
        ELSE Gives(r, DoubleFlags(w, r, Bit(long, n - 1), SignBit(w, r) # SignBit(w, prev), f))

-----------------------------------------------------------------------------
(* Multiplication and division.  The other flags are left alone by the 386 *)
(* and set by the 8088 and the 286 as their circuits leave them.           *)

Product(w, p) == [lo |-> p % 2 ^ w, hi |-> (p \div 2 ^ w) % 2 ^ w]

\* MUL.
Multiply(cpu, w, a, b, f) ==
    LET p == Product(w, a * b)
        carried == [f EXCEPT !.cf = (p.hi # 0), !.of = (p.hi # 0)]
    IN  Gives(p, IF cpu = "386" THEN carried
                  ELSE [Zsp(w, p.hi, carried) EXCEPT !.af = (cpu = "286")])

\* IMUL of the accumulator, and of two and three operands, which keep p.lo; what
\* these leave in the flags other than CF and OF is not modelled.
Imul(cpu, w, a, b, f) ==
    LET exact == Signed(w, a) * Signed(w, b)
        p == Product(w, exact)
        wide == exact # Signed(w, p.lo)
        carried == [f EXCEPT !.cf = wide, !.of = wide]
        check == (p.hi + AsBit(SignBit(w, p.lo))) % 2 ^ w
    IN  Gives(p, CASE cpu = "386"  -> carried
                    [] cpu = "286"  -> [Zsp(w, p.hi, carried) EXCEPT !.af = TRUE]
                    [] cpu = "8088" -> [Zsp(w, check, carried) EXCEPT
                            !.af = (p.hi % 2 ^ Nib) + AsBit(SignBit(w, p.lo)) >= 2 ^ Nib])

DivFlags(cpu, w, rem, f) ==
    IF cpu = "386" THEN f ELSE [Zsp(w, rem, f) EXCEPT !.af = ~ (cpu = "8088" /\ w = Byte)]

\* DIV.
Divide(cpu, w, hi, lo, val, f) ==
    LET dividend == hi * 2 ^ w + lo
        q == dividend \div val
    IN  IF val = 0 \/ q >= 2 ^ w THEN DivideError
        ELSE Gives([quo |-> q, rem |-> dividend % val], DivFlags(cpu, w, dividend % val, f))

\* Bug: the quotient is rounded down.
Floored(n, d) == (IF d < 0 THEN - n ELSE n) \div (IF d < 0 THEN - d ELSE d)

\* The quotient toward zero, the way the host's division goes.
TowardZero(n, d) ==
    LET q == (IF n < 0 THEN - n ELSE n) \div (IF d < 0 THEN - d ELSE d)
    IN  IF (n < 0) = (d < 0) THEN q ELSE - q

\* IDIV, as the set of its outcomes: of the most negative dividend by -1 the
\* host may give the most negative quotient, or stop the program.  A byte
\* division may overflow without a divide error.
Overflows(w, q) == q \notin - 2 ^ (w - 1) .. 2 ^ (w - 1) - 1

InBand(n, d) ==
    LET half == 2 ^ (Byte - 1)
        abs(x) == IF x < 0 THEN - x ELSE x
        band == abs(n) - half * abs(d)
    IN  (n < 0) # (d < 0) /\ band >= half * half /\ band < half * half + abs(d)

Idiv(cpu, w, hi, lo, val, f) ==
    LET n == Signed(2 * w, hi * 2 ^ w + lo)
        d == Signed(w, val)
        q == TowardZero(n, d)
        Done(quo, rem) == Gives([quo |-> quo % 2 ^ w, rem |-> rem % 2 ^ w], DivFlags(cpu, w, rem % 2 ^ w, f))
    IN  IF d = 0 THEN {DivideError}
        ELSE IF w > Byte /\ n = - 2 ^ (2 * w - 1) /\ d = -1 THEN {DivideError, [v |-> "crash"]}
        ELSE IF ~ Overflows(w, q) THEN {Done(q, n - q * d)}
        ELSE IF w = Byte /\ InBand(n, d) THEN {Done(- 2 ^ (Byte - 1), n - 2 ^ (Byte - 1) * val)}
        ELSE {DivideError}

-----------------------------------------------------------------------------
(* Decimal adjustments of AL and AH.                                       *)

Correction == 2 ^ Nib - Base                        \* 6
High(n) == n * 2 ^ Nib                          \* n0h
Nines == High(Base - 1) + Base - 1              \* 99h
MostNegative == 2 ^ (Byte - 1)

Daa(cpu, al, f) ==
    LET one == al % 2 ^ Nib >= Base \/ f.af
        mid == IF one THEN (al + Correction) % 2 ^ Byte ELSE al
        two == al > Nines \/ f.cf
        end == IF two THEN (mid + High(Correction)) % 2 ^ Byte ELSE mid
        of1 == one /\ al \in MostNegative - Correction .. MostNegative - 1
        of2 == two /\ mid \in MostNegative - High(Correction) .. MostNegative - 1
    IN  Gives(end, [Zsp(Byte, end, f) EXCEPT
            !.cf = two \/ (one /\ mid < al), !.af = one,
            !.of = IF cpu = "8088" THEN of1 \/ of2 ELSE cpu = "386" /\ @])

\* DAS.
Das(cpu, al, f) ==
    LET one == al % 2 ^ Nib >= Base \/ f.af
        mid == IF one THEN (al - Correction) % 2 ^ Byte ELSE al
        two == al > Nines \/ f.cf
        end == IF two THEN (mid - High(Correction)) % 2 ^ Byte ELSE mid
        of1 == one /\ al \in MostNegative .. MostNegative + Correction - 1
        of2 == two /\ mid \in MostNegative .. MostNegative + High(Correction) - 1
    IN  Gives(end, [Zsp(Byte, end, f) EXCEPT
            !.cf = two \/ (one /\ cpu # "8088" /\ al < Correction), !.af = one,
            !.of = IF cpu = "8088" THEN of1 \/ of2 ELSE cpu = "386" /\ @])

\* AAA and AAS.  Only the 8088 keeps AL's carry or borrow from AH.
Adjusted(cpu, ah, al, sign, f) ==
    LET one == al % 2 ^ Nib >= Base \/ f.af
        sum == (al + sign * Correction) % 2 ^ Byte
        ax == (ah * 2 ^ Byte + al + sign * (2 ^ Byte + Correction)) % 2 ^ (2 * Byte)
        over == IF sign = 1 THEN al \in MostNegative - Correction .. MostNegative - 1 ELSE al \in MostNegative .. MostNegative + Correction - 1
        carried == [f EXCEPT !.cf = one, !.af = one]
        cleared(r) == [Zsp(Byte, r, carried) EXCEPT !.of = FALSE]
    IN  IF ~ one THEN Gives([ah |-> ah, al |-> al % 2 ^ Nib],
                             CASE cpu = "8088" -> cleared(al)
                               [] cpu = "286"  -> cleared(al % 2 ^ Nib)
                               [] cpu = "386"  -> carried)
        ELSE IF cpu = "8088" THEN
            Gives([ah |-> (ah + sign) % 2 ^ Byte, al |-> sum % 2 ^ Nib],
                   [Zsp(Byte, sum, carried) EXCEPT !.of = over])
        ELSE Gives([ah |-> ax \div 2 ^ Byte, al |-> ax % 2 ^ Nib],
                    IF cpu = "286" THEN cleared(ax % 2 ^ Byte) ELSE carried)
Aaa(cpu, ah, al, f) == Adjusted(cpu, ah, al, 1, f)
Aas(cpu, ah, al, f) == Adjusted(cpu, ah, al, -1, f)

\* AAM, but for the flags of its divide error, and AAD.
Aam(cpu, al, base, f) ==
    IF base = 0 THEN DivideError
    ELSE LET g == Zsp(Byte, al % base, f)
         IN  Gives([ah |-> al \div base, al |-> al % base],
                    IF cpu = "386" THEN g ELSE [g EXCEPT !.cf = FALSE, !.of = FALSE, !.af = FALSE])
Aad(cpu, ah, al, base, f) ==
    LET product == (ah * base) % 2 ^ Byte
        sum == Add(Byte, product, al, 0, f)
    IN  Gives([ah |-> 0, al |-> sum.v],
               CASE cpu = "8088" -> sum.f
                 [] cpu = "286"  -> [sum.f EXCEPT !.of = sum.f.cf]
                 [] cpu = "386"  -> Zsp(Byte, sum.v, f))

-----------------------------------------------------------------------------
(* Bits. *)

\* BT, BTS, BTR and BTC of the bit that an index selects, which may be negative.
BitTest(op, w, v, index, f) ==
    LET b == Signed(w, index) % w
        new == CASE op = "bt"  -> Bit(v, b)
                 [] op = "bts" -> TRUE
                 [] op = "btr" -> FALSE
                 [] op = "btc" -> ~ Bit(v, b)
    IN  Gives(v + (AsBit(new) - AsBit(Bit(v, b))) * 2 ^ b,
               [f EXCEPT !.cf = Bit(v, b), !.of = Bit(v, (b + w - 2) % w) # Bit(v, (b + w - 1) % w)])

\* The operand in memory that a signed bit index selects from offset.
BitOperand(w, offset, index) == (offset + (Signed(w, index) \div w) * (w \div Byte)) % 2 ^ (2 * Byte)

\* BSF and BSR: the register keeps its value when no bit is set.
Bsf(w, val, reg, f) ==
    LET bit == CHOOSE i \in 0 .. w - 1 : Bit(val, i) /\ \A j \in 0 .. i - 1 : ~ Bit(val, j)
        neg == Zsp(w, (- val) % 2 ^ w, f)
        none == [f EXCEPT !.sf = FALSE, !.af = FALSE, !.cf = FALSE, !.of = FALSE]
    IN  IF val = 0 THEN Gives(reg, [none EXCEPT !.zf = TRUE, !.pf = TRUE])
        ELSE IF bit > 0 THEN Gives(bit, [none EXCEPT !.zf = FALSE, !.pf = (Ones(bit, Byte) % 2 = 0)])
        ELSE Gives(bit, [neg EXCEPT !.zf = FALSE, !.af = (val % 2 ^ Nib # 0),
                                     !.cf = Bit(val, 1), !.of = SignBit(w, val)])
Bsr(w, val, reg, f) ==
    LET bit == CHOOSE i \in 0 .. w - 1 : Bit(val, i) /\ \A j \in i + 1 .. w - 1 : ~ Bit(val, j)
        below(n) == bit >= n /\ Bit(val, bit - n)
        neg == [Zsp(w, (- val) % 2 ^ w, f) EXCEPT !.af = (val % 2 ^ Nib # 0)]
    IN  IF val = 0 THEN Gives(reg, [neg EXCEPT !.cf = FALSE, !.of = FALSE])
        ELSE Gives(bit, [neg EXCEPT !.cf = below(1), !.of = (bit = 0 \/ below(1) # below(2))])
=============================================================================
