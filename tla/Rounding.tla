------------------------------ MODULE Rounding ------------------------------
(***************************************************************************)
(* What rounding to a format means, without an algorithm: of the numbers   *)
(* the format holds, the nearest one in the direction asked for.           *)
(*                                                                         *)
(* Magnitudes are counted in units of 2^-Scaling.  The number x to be      *)
(* rounded is given by two comparisons: whether it is at least, and        *)
(* whether it is at most, so many half units.  A format is [prec, emin,    *)
(* emax].                                                                  *)
(***************************************************************************)
EXTENDS Integers, FiniteSetsExt

CONSTANT Scaling

Units(m, exp) == m * 2 ^ (exp + Scaling)

\* Every finite magnitude of the format, in units, and the first one that is
\* too large for it.
Grid(f) ==
    {0} \cup {Units(m, e - f.prec + 1) : m \in 1 .. 2 ^ f.prec - 1, e \in {f.emin}}
        \cup {Units(m, e - f.prec + 1) : m \in 2 ^ (f.prec - 1) .. 2 ^ f.prec - 1,
                                         e \in f.emin .. f.emax}
Huge(f) == Units(1, f.emax + 1)
Largest(f) == Units(2 ^ f.prec - 1, f.emax - f.prec + 1)

\* The neighbour of x in the grid that rounding control rc asks for.
Neighbour(grid, rc, neg, AtLeast(_), AtMost(_)) ==
    LET lo   == Max({g \in grid : AtLeast(2 * g)})
        hi   == Min({g \in grid : AtMost(2 * g)})
        away == \/ rc = "down" /\ neg
                \/ rc = "up" /\ ~ neg
                \/ rc = "nearest" /\ AtLeast(lo + hi)
                     /\ (AtMost(lo + hi) => (lo \div (hi - lo)) % 2 = 1)
    IN  IF lo = hi THEN lo ELSE IF away THEN hi ELSE lo

\* The value of the format that x rounds to (infinity or a magnitude), whether it
\* is inexact, tiny after rounding, overflown, and larger than x.
RoundedTo(f, rc, neg, AtLeast(_), AtMost(_)) ==
    LET grid     == Grid(f) \cup {Huge(f)}
        finer    == Grid([f EXCEPT !.emin = @ - 1]) \cup {Huge(f)}
        overflow == \/ AtLeast(2 * Huge(f))
                    \/ Neighbour(grid, rc, neg, AtLeast, AtMost) = Huge(f)
        inf      == rc = "nearest" \/ (rc = "down" /\ neg) \/ (rc = "up" /\ ~ neg)
        r        == Neighbour(grid, rc, neg, AtLeast, AtMost)
        exact    == AtLeast(2 * r) /\ AtMost(2 * r)
    IN  IF overflow
        THEN [inf |-> inf, m |-> Largest(f),
              flags |-> {"OE", "PE"}, larger |-> inf]
        ELSE [inf |-> FALSE, m |-> r,
              flags |-> IF exact THEN {}
                        ELSE IF Neighbour(finer, rc, neg, AtLeast, AtMost) < Units(1, f.emin)
                        THEN {"PE", "UE"} ELSE {"PE"},
              larger |-> ~ AtLeast(2 * r)]
=============================================================================
