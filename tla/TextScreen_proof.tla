-------------------------- MODULE TextScreen_proof --------------------------
(***************************************************************************)
(* The text screen shows the last rows of what is typed, for every set of  *)
(* modes, size of the screen, text, window and count.                      *)
(*                                                                         *)
(* How many rows a scroll moves and how many characters a string has is    *)
(* any number, so the recursive functions over them need induction: it     *)
(* follows from the well-foundedness of the finite sets of numbers.  That  *)
(* and the arithmetic of places in lines is in the first section, which    *)
(* Devices_proof uses as well.                                             *)
(***************************************************************************)
EXTENDS TextScreen, FiniteSetTheorems, SequenceTheorems, TLAPS

-----------------------------------------------------------------------------
(* Arithmetic. *)

\* Induction over the numbers, for a set of them.
LEMMA Induction ==
    ASSUME NEW S, 0 \in S, \A n \in Nat : n \in S => n + 1 \in S
    PROVE  \A n \in Nat : n \in S
<1> DEFINE bad == {n \in Nat : n \notin S}
           below == {0 .. n : n \in bad}
<1> SUFFICES ASSUME bad # {} PROVE FALSE
  OBVIOUS
<1>1. below \subseteq FiniteSubsetsOf(Nat) /\ below # {}
  <2>1. \A n \in bad : 0 .. n \in SUBSET Nat /\ IsFiniteSet(0 .. n)
    BY FS_Interval
  <2> QED
    BY <2>1 DEF FiniteSubsetsOf
<1>2. IsWellFoundedOn(StrictSubsetOrdering(Nat), FiniteSubsetsOf(Nat))
  BY FS_StrictSubsetOrderingWellFounded
<1> HIDE DEF below
<1>3. PICK x \in below : \A y \in below : <<y, x>> \notin StrictSubsetOrdering(Nat)
  BY <1>1, <1>2, WFMin
<1>4. PICK n \in bad : x = 0 .. n
  BY DEF below
<1>5. n # 0 /\ n - 1 \in Nat /\ n - 1 \notin S
  <2>1. n \in Nat /\ n \notin S /\ n # 0
    OBVIOUS
  <2>2. n - 1 \in Nat /\ (n - 1) + 1 = n
    BY <2>1
  <2> QED
    BY <2>1, <2>2
<1>6. 0 .. (n - 1) \in below
  BY <1>5 DEF below
<1>7. 0 .. (n - 1) \subseteq 0 .. n /\ 0 .. (n - 1) # 0 .. n
  BY <1>5
<1>8. <<0 .. (n - 1), x>> \in StrictSubsetOrdering(Nat)
  BY <1>4, <1>5, <1>7 DEF StrictSubsetOrdering
<1> QED
  BY <1>3, <1>6, <1>8

\* A number is the remainder it was made of.
LEMMA Remainder ==
    ASSUME NEW B \in Nat, B > 0, NEW q \in Int, NEW r \in 0 .. B - 1
    PROVE  (B * q + r) % B = r
<1> DEFINE x == B * q + r
           d == x \div B
           m == x % B
<1>1. x \in Int
  OBVIOUS
<1>2. d \in Int /\ m \in 0 .. B - 1 /\ x = B * d + m
  BY <1>1
<1> HIDE DEF d, m
<1>3. CASE q > d
  <2>1. PICK k \in Nat : q = d + 1 + k
    <3>1. q - d - 1 \in Nat /\ q = d + 1 + (q - d - 1)
      BY <1>2, <1>3
    <3> QED
      BY <3>1
  <2>2. B * k \in Nat /\ B * d \in Int /\ B * q = B * d + B + B * k
    BY <1>2, <2>1
  <2> QED
    BY <1>2, <2>2
<1>4. CASE d > q
  <2>1. PICK k \in Nat : d = q + 1 + k
    <3>1. d - q - 1 \in Nat /\ d = q + 1 + (d - q - 1)
      BY <1>2, <1>4
    <3> QED
      BY <3>1
  <2>2. B * k \in Nat /\ B * q \in Int /\ B * d = B * q + B + B * k
    BY <1>2, <2>1
  <2> QED
    BY <1>2, <2>2
<1>5. CASE d = q
  <2>1. B * q \in Int
    OBVIOUS
  <2> QED
    BY <1>2, <1>5, <2>1 DEF m
<1> QED
  BY <1>2, <1>3, <1>4, <1>5

LEMMA Quotient ==
    ASSUME NEW B \in Nat, B > 0, NEW q \in Int, NEW r \in 0 .. B - 1
    PROVE  (B * q + r) \div B = q
<1>1. PICK x \in Int : x = B * q + r
  OBVIOUS
<1>2. PICK d \in Int : d = x \div B
  BY <1>1
<1>3. x = B * d + (x % B) /\ x % B = r
  BY <1>1, <1>2, Remainder
<1>4. B * d = B * q
  <2>1. PICK a \in Int : a = B * d
    OBVIOUS
  <2>2. PICK b \in Int : b = B * q
    OBVIOUS
  <2> QED
    BY <1>1, <1>3, <2>1, <2>2
<1>5. CASE d > q
  <2>1. PICK k \in Nat : d = q + 1 + k
    <3>1. d - q - 1 \in Nat /\ d = q + 1 + (d - q - 1)
      BY <1>5
    <3> QED
      BY <3>1
  <2>2. B * k \in Nat /\ B * q \in Int /\ B * d = B * q + B + B * k
    BY <2>1
  <2> QED
    BY <1>4, <2>2
<1>6. CASE q > d
  <2>1. PICK k \in Nat : q = d + 1 + k
    <3>1. q - d - 1 \in Nat /\ q = d + 1 + (q - d - 1)
      BY <1>6
    <3> QED
      BY <3>1
  <2>2. B * k \in Nat /\ B * d \in Int /\ B * q = B * d + B + B * k
    BY <2>1
  <2> QED
    BY <1>4, <2>2
<1>7. CASE d = q
  BY <1>1, <1>2, <1>7
<1> QED
  BY <1>5, <1>6, <1>7

\* A number in lines of B.
LEMMA Divided ==
    ASSUME NEW B \in Nat, B > 0, NEW x \in Nat
    PROVE  /\ x \div B \in Nat /\ x % B \in 0 .. B - 1
           /\ x = B * (x \div B) + (x % B)
<1>1. PICK d \in Int : d = x \div B
  OBVIOUS
<1>2. x % B \in 0 .. B - 1 /\ x = B * d + (x % B)
  BY <1>1
<1>3. d >= 0
  <2>1. CASE d < 0
    <3>1. PICK k \in Nat : d = -1 - k
      <4>1. -1 - d \in Nat /\ d = -1 - (-1 - d)
        BY <2>1
      <4> QED
        BY <4>1
    <3>2. B * k \in Nat /\ B * d = - B - B * k
      BY <3>1
    <3> QED
      BY <1>2, <3>2
  <2> QED
    BY <2>1
<1> QED
  BY <1>1, <1>2, <1>3

-----------------------------------------------------------------------------
(***************************************************************************)
(* The text screen: it shows the last rows of what has been typed.         *)
(***************************************************************************)
Row(i) == i \div screen_cols
Col(i) == i % screen_cols

\* A memory of n cells that holds the pages.
Fits(n) == screen_cols \in Nat \ {0} /\ n \in Nat /\ NPages * PageSize <= n
IsCells(v, n) == v = [i \in 0 .. n - 1 |-> v[i]]

LEMMA TextSizes ==
    ASSUME NEW n, Fits(n)
    PROVE  /\ PageSize \in Nat /\ PageSize > 0 /\ PageSize <= n /\ PageSize = screen_cols * Rows
           /\ screen_cols \in Nat /\ screen_cols > 0 /\ Rows \in Nat /\ Rows > 0 /\ n \in Nat
           /\ NPages \in Nat /\ NPages > 0
<1>1. /\ screen_cols \in Nat /\ screen_cols > 0 /\ Rows \in Nat /\ Rows > 0 /\ n \in Nat
      /\ NPages \in Nat /\ NPages > 0
  BY TextScreenAssumption DEF Fits
<1>2. screen_cols * Rows \in Nat /\ screen_cols * Rows > 0
  BY <1>1
<1>3. PageSize \in Nat /\ PageSize > 0 /\ PageSize = screen_cols * Rows
  BY <1>2 DEF PageSize
<1>4. PICK k \in Nat : NPages = 1 + k
  <2>1. NPages - 1 \in Nat /\ NPages = 1 + (NPages - 1)
    BY <1>1
  <2> QED BY <2>1
<1>5. NPages * PageSize = PageSize + k * PageSize /\ k * PageSize \in Nat
  BY <1>3, <1>4
<1> QED BY <1>1, <1>3, <1>5 DEF Fits

\* Cells by row and column.
LEMMA RowAndCol ==
    ASSUME NEW n, Fits(n), NEW i \in Nat
    PROVE  /\ Row(i) \in Nat /\ Col(i) \in 0 .. screen_cols - 1
           /\ i = screen_cols * Row(i) + Col(i)
BY TextSizes, Divided DEF Row, Col

LEMMA CellOf ==
    ASSUME NEW n, Fits(n), NEW r \in Int, NEW col \in 0 .. screen_cols - 1
    PROVE  /\ Row(screen_cols * r + col) = r /\ Col(screen_cols * r + col) = col
           /\ screen_cols * r + col \in Int /\ (r >= 0 => screen_cols * r + col \in Nat)
<1>1. screen_cols \in Nat /\ screen_cols > 0
  BY TextSizes
<1>2. Row(screen_cols * r + col) = r /\ Col(screen_cols * r + col) = col
  BY <1>1, Quotient, Remainder DEF Row, Col
<1>3. screen_cols * r \in Int /\ (r >= 0 => screen_cols * r >= 0)
  BY <1>1
<1> QED BY <1>1, <1>2, <1>3

\* The rows of a page are the cells of page 0.
LEMMA FirstPage ==
    ASSUME NEW n, Fits(n), NEW r \in Nat, NEW col \in 0 .. screen_cols - 1
    PROVE  r < Rows <=> screen_cols * r + col < PageSize
<1>1. /\ screen_cols \in Nat /\ screen_cols > 0 /\ Rows \in Nat /\ PageSize = screen_cols * Rows
      /\ PageSize \in Nat
  BY TextSizes
<1>2. CASE r < Rows
  <2>1. PICK k \in Nat : Rows = r + 1 + k
    <3>1. Rows - r - 1 \in Nat /\ Rows = r + 1 + (Rows - r - 1)
      BY <1>1, <1>2
    <3> QED BY <3>1
  <2>2. screen_cols * Rows = screen_cols * r + screen_cols + screen_cols * k
        /\ screen_cols * k \in Nat /\ screen_cols * r \in Nat
    BY <1>1, <2>1
  <2> QED BY <1>1, <1>2, <2>2
<1>3. CASE ~ (r < Rows)
  <2>1. PICK k \in Nat : r = Rows + k
    <3>1. r - Rows \in Nat /\ r = Rows + (r - Rows)
      BY <1>1, <1>3
    <3> QED BY <3>1
  <2>2. screen_cols * r = screen_cols * Rows + screen_cols * k
        /\ screen_cols * k \in Nat /\ screen_cols * r \in Nat
    BY <1>1, <2>1
  <2> QED BY <1>1, <1>3, <2>2
<1> QED BY <1>2, <1>3

LEMMA OnFirstPage ==
    ASSUME NEW n, Fits(n), NEW i \in Nat
    PROVE  Row(i) < Rows <=> i < PageSize
<1>1. Row(i) \in Nat /\ Col(i) \in 0 .. screen_cols - 1 /\ i = screen_cols * Row(i) + Col(i)
  BY RowAndCol
<1> QED BY <1>1, FirstPage

\* A cell some rows away.
LEMMA RowsAway ==
    ASSUME NEW n, Fits(n), NEW i \in Nat, NEW d \in Int
    PROVE  /\ Row(i + d * screen_cols) = Row(i) + d /\ Col(i + d * screen_cols) = Col(i)
           /\ i + d * screen_cols \in Int /\ (Row(i) + d >= 0 => i + d * screen_cols \in Nat)
<1>1. /\ Row(i) \in Nat /\ Col(i) \in 0 .. screen_cols - 1 /\ i = screen_cols * Row(i) + Col(i)
      /\ screen_cols \in Nat
  BY RowAndCol, TextSizes
<1>2. screen_cols * (Row(i) + d) + Col(i) = i + d * screen_cols
  <2>1. PICK a \in Int : a = screen_cols * Row(i)
    BY <1>1
  <2>2. PICK b \in Int : b = d * screen_cols
    BY <1>1
  <2>3. screen_cols * (Row(i) + d) = a + b
    <3>1. \A x, y, z \in Int : x * (y + z) = x * y + z * x
      OBVIOUS
    <3> QED BY <1>1, <2>1, <2>2, <3>1
  <2>4. i = a + Col(i) /\ Col(i) \in Int
    BY <1>1, <2>1
  <2> QED BY <2>2, <2>3, <2>4
<1>3. Row(i) + d \in Int
  BY <1>1
<1>4. /\ Row(screen_cols * (Row(i) + d) + Col(i)) = Row(i) + d
      /\ Col(screen_cols * (Row(i) + d) + Col(i)) = Col(i)
      /\ screen_cols * (Row(i) + d) + Col(i) \in Int
      /\ (Row(i) + d >= 0 => screen_cols * (Row(i) + d) + Col(i) \in Nat)
  BY <1>1, <1>3, CellOf
<1> QED BY <1>2, <1>4

-----------------------------------------------------------------------------
(* Scrolls. *)

\* What a scroll leaves in cell i.
InWindow(w, r, col) == r \in w.top .. w.bottom /\ col \in w.left .. w.right /\ r < Rows
By(dir, w) == IF dir = "up" THEN w.lines ELSE - w.lines
MovedCell(v, dir, w, attr, i) ==
    IF ~ InWindow(w, Row(i), Col(i)) THEN v[i]
    ELSE IF w.lines # 0 /\ InWindow(w, Row(i) + By(dir, w), Col(i))
         THEN v[i + By(dir, w) * screen_cols]
    ELSE Blank(attr)

\* The rows of a window that have been moved first, and the cells then.
MovedRows(dir, w, k) ==
    IF dir = "up" THEN w.top .. w.top + k - 1 ELSE w.bottom - k + 1 .. w.bottom
AfterRows(v, n, dir, w, k) ==
    [i \in 0 .. n - 1 |->
        IF Row(i) \in MovedRows(dir, w, k) /\ Col(i) \in w.left .. w.right
        THEN v[i + By(dir, w) * screen_cols] ELSE v[i]]
MovesOne(v, dir, w, k) ==
    LET r == RowInOrder(dir, w, k) IN MoveRow(v, w, r, Source(dir, w, r))

IsWindow(w) ==
    w \in [top : Nat, left : Nat, bottom : Int, right : Int, lines : Nat]

LEMMA RowMoved ==
    ASSUME NEW n, Fits(n), NEW v, IsCells(v, n), NEW dir \in {"up", "down"}, NEW w, IsWindow(w),
           w.bottom < Rows, NEW k \in Nat, k + 1 <= w.bottom - w.top + 1 - w.lines, w.lines > 0
    PROVE  MovesOne(AfterRows(v, n, dir, w, k), dir, w, k + 1) = AfterRows(v, n, dir, w, k + 1)
<1> DEFINE u == AfterRows(v, n, dir, w, k)
           r == RowInOrder(dir, w, k + 1)
           d == By(dir, w)
<1>1. /\ w.top \in Nat /\ w.bottom \in Int /\ w.lines \in Nat
  BY DEF IsWindow
<1>2. r \in w.top .. w.bottom /\ r + d \in w.top .. w.bottom /\ d \in Int /\ r \in Nat
      /\ Source(dir, w, r) - r = d
  BY <1>1 DEF RowInOrder, By, Source
<1>3. r + d \notin MovedRows(dir, w, k) /\ r \notin MovedRows(dir, w, k)
      /\ \A x \in Int : x \in MovedRows(dir, w, k + 1) <=> x \in MovedRows(dir, w, k) \/ x = r
  <2>1. CASE dir = "up"
    BY <1>1, <2>1 DEF RowInOrder, By, MovedRows
  <2>2. CASE dir = "down"
    BY <1>1, <2>2 DEF RowInOrder, By, MovedRows
  <2> QED BY <2>1, <2>2
<1> HIDE DEF d, r
<1>4. MovesOne(u, dir, w, k + 1)
        = [i \in 0 .. n - 1 |-> IF Row(i) = r /\ Col(i) \in w.left .. w.right
                                THEN u[i + d * screen_cols] ELSE u[i]]
  <2>1. DOMAIN u = 0 .. n - 1
    BY DEF AfterRows
  <2> HIDE DEF u
  <2>2. MovesOne(u, dir, w, k + 1) = MoveRow(u, w, r, Source(dir, w, r))
    BY DEF MovesOne, r
  <2> QED BY <1>2, <2>1, <2>2 DEF MoveRow, Row, Col
<1>5. ASSUME NEW i \in 0 .. n - 1
      PROVE  (IF Row(i) = r /\ Col(i) \in w.left .. w.right THEN u[i + d * screen_cols] ELSE u[i])
               = AfterRows(v, n, dir, w, k + 1)[i]
  <2>1. i \in Nat /\ Row(i) \in Nat /\ n \in Nat
    BY RowAndCol DEF Fits
  <2>2. CASE Row(i) = r /\ Col(i) \in w.left .. w.right
    <3> DEFINE j == i + d * screen_cols
    <3>1. Row(j) = r + d /\ Col(j) = Col(i) /\ j \in Nat
      <4>1. Row(i) + d >= 0 /\ d \in Int /\ i \in Nat
        BY <1>1, <1>2, <2>1, <2>2
      <4> QED BY <2>2, <4>1, RowsAway
    <3> HIDE DEF j
    <3>2. j \in 0 .. n - 1
      <4>1. Row(j) < Rows
        BY <1>1, <1>2, <3>1, TextSizes
      <4>2. j < PageSize
        BY <3>1, <4>1, OnFirstPage
      <4> QED BY <3>1, <4>2, TextSizes
    <3>3. u[j] = v[j]
      BY <1>3, <3>1, <3>2 DEF AfterRows
    <3>4. AfterRows(v, n, dir, w, k + 1)[i] = v[j]
      BY <1>3, <2>1, <2>2 DEF AfterRows, j, d
    <3> QED BY <2>2, <3>3, <3>4 DEF j
  <2>3. CASE ~ (Row(i) = r /\ Col(i) \in w.left .. w.right)
    BY <1>3, <2>1, <2>3 DEF AfterRows
  <2> QED BY <2>2, <2>3
<1> QED BY <1>4, <1>5 DEF AfterRows

\* The rows that are cleared last.
Clears(dir, w) ==
    IF dir = "up" THEN w.bottom - w.lines + 1 .. w.bottom ELSE w.top .. w.top + w.lines - 1

LEMMA RowsSplit ==
    ASSUME NEW dir \in {"up", "down"}, NEW w, w.top \in Nat, w.bottom \in Int, w.lines \in Nat,
           NEW r \in Int, NEW d, d = By(dir, w), NEW m, m = w.bottom - w.top + 1 - w.lines
    PROVE  /\ w.lines > w.bottom - w.top + 1 /\ r \in w.top .. w.bottom => r + d \notin w.top .. w.bottom
           /\ w.lines # 0 /\ ~ (w.lines > w.bottom - w.top + 1) =>
                /\ m \in Nat /\ w.lines > 0
                /\ r \in w.top .. w.bottom <=> r \in Clears(dir, w) \/ r \in MovedRows(dir, w, m)
                /\ r \in MovedRows(dir, w, m) => r \notin Clears(dir, w) /\ r + d \in w.top .. w.bottom
                /\ r \in Clears(dir, w) => r + d \notin w.top .. w.bottom
<1> PICK a \in Nat, b \in Int, l \in Nat : w.top = a /\ w.bottom = b /\ w.lines = l
  OBVIOUS
<1>1. m = b - a + 1 - l /\ m \in Int
  OBVIOUS
<1>2. \/ d = l /\ Clears(dir, w) = b - l + 1 .. b /\ MovedRows(dir, w, m) = a .. a + m - 1
      \/ d = - l /\ Clears(dir, w) = a .. a + l - 1 /\ MovedRows(dir, w, m) = b - m + 1 .. b
  BY DEF By, Clears, MovedRows
<1>3. l > b - a + 1 /\ r \in a .. b => r + d \notin a .. b
  BY <1>2
<1>4. ASSUME l # 0, ~ (l > b - a + 1) PROVE m \in Nat /\ l > 0
  BY <1>1, <1>4
<1>5. ASSUME l # 0, ~ (l > b - a + 1)
      PROVE  /\ r \in a .. b <=> r \in Clears(dir, w) \/ r \in MovedRows(dir, w, m)
             /\ r \in MovedRows(dir, w, m) => r \notin Clears(dir, w) /\ r + d \in a .. b
             /\ r \in Clears(dir, w) => r + d \notin a .. b
  <2>1. CASE d = l /\ Clears(dir, w) = b - l + 1 .. b /\ MovedRows(dir, w, m) = a .. a + m - 1
    BY <1>1, <1>5, <2>1
  <2>2. CASE d = - l /\ Clears(dir, w) = a .. a + l - 1 /\ MovedRows(dir, w, m) = b - m + 1 .. b
    BY <1>1, <1>5, <2>2
  <2> QED BY <1>2, <2>1, <2>2
<1> QED BY <1>3, <1>4, <1>5

\* The window of a scroll, cut to the screen.
Cut(window) ==
    [window EXCEPT !.bottom = Lesser(@, Rows - 1), !.right = Lesser(@, screen_cols - 1)]

\* The recursive function of video_scroll.
MovesOf(v, dir, w, m) ==
    CHOOSE g : g = [k \in 0 .. m |-> IF k = 0 THEN v ELSE MovesOne(g[k - 1], dir, w, k)]

LEMMA RowsMoved ==
    ASSUME NEW n, Fits(n), NEW v, IsCells(v, n), NEW dir \in {"up", "down"}, NEW w, IsWindow(w),
           w.bottom < Rows, w.lines > 0, NEW m \in Nat, m = w.bottom - w.top + 1 - w.lines,
           NEW f, f = MovesOf(v, dir, w, m)
    PROVE  f[m] = AfterRows(v, n, dir, w, m)
<1> DEFINE Step(g, k) == IF k = 0 THEN v ELSE MovesOne(g[k - 1], dir, w, k)
           after == [k \in 0 .. m |-> AfterRows(v, n, dir, w, k)]
<1>1. AfterRows(v, n, dir, w, 0) = v
  <2>1. \A i \in 0 .. n - 1 : Row(i) \notin MovedRows(dir, w, 0)
    <3> SUFFICES ASSUME NEW i \in 0 .. n - 1 PROVE Row(i) \notin MovedRows(dir, w, 0)
      OBVIOUS
    <3>1. Row(i) \in Nat /\ w.top \in Nat /\ w.bottom \in Int
      BY RowAndCol DEF IsWindow, Fits
    <3> QED BY <3>1 DEF MovedRows
  <2> QED BY <2>1 DEF AfterRows, IsCells
<1>2. \A k \in 1 .. m : MovesOne(AfterRows(v, n, dir, w, k - 1), dir, w, k) = AfterRows(v, n, dir, w, k)
  <2> SUFFICES ASSUME NEW k \in 1 .. m
               PROVE  MovesOne(AfterRows(v, n, dir, w, k - 1), dir, w, k) = AfterRows(v, n, dir, w, k)
    OBVIOUS
  <2>1. PICK j \in Nat : j = k - 1 /\ k = j + 1 /\ j + 1 <= w.bottom - w.top + 1 - w.lines
    <3>1. k - 1 \in Nat /\ k = (k - 1) + 1 /\ (k - 1) + 1 <= w.bottom - w.top + 1 - w.lines
      OBVIOUS
    <3> QED BY <3>1
  <2>2. MovesOne(AfterRows(v, n, dir, w, j), dir, w, j + 1) = AfterRows(v, n, dir, w, j + 1)
    BY <2>1, RowMoved
  <2> QED BY <2>1, <2>2
<1>3. after = [k \in 0 .. m |-> Step(after, k)]
  <2>1. ASSUME NEW k \in 0 .. m PROVE after[k] = Step(after, k)
    <3>1. CASE k = 0
      BY <1>1, <3>1
    <3>2. CASE k # 0
      <4>1. k \in 1 .. m /\ k - 1 \in 0 .. m
        BY <3>2
      <4>2. after[k] = AfterRows(v, n, dir, w, k) /\ after[k - 1] = AfterRows(v, n, dir, w, k - 1)
        BY <4>1
      <4> HIDE DEF after
      <4> QED BY <1>2, <3>2, <4>1, <4>2
    <3> QED BY <3>1, <3>2
  <2> QED BY <2>1
<1>4. f = [k \in 0 .. m |-> Step(f, k)]
  <2> HIDE DEF after, Step
  <2>1. f = CHOOSE g : g = [k \in 0 .. m |-> Step(g, k)]
    BY DEF Step, MovesOf
  <2> QED BY <1>3, <2>1, Zenon
<1>5. \A k \in 0 .. m : f[k] = Step(f, k)
  <2> HIDE DEF Step
  <2> QED BY <1>4
<1> DEFINE S == {k \in Nat : k <= m => f[k] = AfterRows(v, n, dir, w, k)}
<1>6. 0 \in S
  BY <1>1, <1>5
<1>7. \A k \in Nat : k \in S => k + 1 \in S
  <2> SUFFICES ASSUME NEW k \in Nat, k + 1 <= m, f[k] = AfterRows(v, n, dir, w, k)
               PROVE  f[k + 1] = AfterRows(v, n, dir, w, k + 1)
    OBVIOUS
  <2>1. k + 1 \in 1 .. m /\ k + 1 \in 0 .. m /\ (k + 1) - 1 = k /\ k + 1 # 0
    OBVIOUS
  <2>2. f[k + 1] = MovesOne(f[k], dir, w, k + 1)
    BY <1>5, <2>1
  <2>3. MovesOne(AfterRows(v, n, dir, w, k), dir, w, k + 1) = AfterRows(v, n, dir, w, k + 1)
    BY <1>2, <2>1
  <2> QED BY <2>2, <2>3
<1>8. \A k \in Nat : k \in S
  <2> HIDE DEF S
  <2> QED BY <1>6, <1>7, Induction
<1> QED BY <1>8

LEMMA CutIs ==
    ASSUME NEW n, Fits(n),
           NEW window \in [top : Nat, left : Nat, bottom : Nat, right : Nat, lines : Nat],
           NEW w, w = Cut(window)
    PROVE  /\ IsWindow(w) /\ w.bottom < Rows /\ w.top = window.top /\ w.left = window.left
           /\ w.lines = window.lines
           /\ \A r \in Int, col \in 0 .. screen_cols - 1 :
                 InWindow(window, r, col) <=> r \in w.top .. w.bottom /\ col \in w.left .. w.right
<1>1. screen_cols \in Nat /\ screen_cols > 0 /\ Rows \in Nat /\ Rows > 0
  BY TextSizes
<1>2. /\ w = [top |-> window.top, left |-> window.left, bottom |-> Lesser(window.bottom, Rows - 1),
              right |-> Lesser(window.right, screen_cols - 1), lines |-> window.lines]
      /\ window.top \in Nat /\ window.left \in Nat /\ window.bottom \in Nat /\ window.right \in Nat
      /\ window.lines \in Nat
  BY DEF Cut
<1>3. /\ w.top = window.top /\ w.left = window.left /\ w.lines = window.lines
      /\ w.bottom = Lesser(window.bottom, Rows - 1) /\ w.right = Lesser(window.right, screen_cols - 1)
  BY <1>2
<1>4. /\ w.bottom \in Int /\ w.right \in Int /\ w.bottom < Rows
      /\ \A r \in Int : r <= w.bottom <=> r <= window.bottom /\ r < Rows
      /\ \A col \in Int : col <= w.right <=> col <= window.right /\ col < screen_cols
  BY <1>1, <1>2, <1>3 DEF Lesser
<1>5. IsWindow(w)
  BY <1>2, <1>3, <1>4 DEF IsWindow
<1>6. ASSUME NEW r \in Int, NEW col \in 0 .. screen_cols - 1
      PROVE  InWindow(window, r, col) <=> r \in w.top .. w.bottom /\ col \in w.left .. w.right
  BY <1>1, <1>2, <1>3, <1>4 DEF InWindow
<1> QED BY <1>3, <1>4, <1>5, <1>6

LEMMA Scrolled ==
    ASSUME NEW n, Fits(n), NEW v, IsCells(v, n), NEW dir \in {"up", "down"}, NEW attr,
           NEW window \in [top : Nat, left : Nat, bottom : Nat, right : Nat, lines : Nat]
    PROVE  /\ IsCells(video_scroll(v, dir, window, attr), n)
           /\ \A i \in 0 .. n - 1 :
                 video_scroll(v, dir, window, attr)[i] = MovedCell(v, dir, window, attr, i)
<1> DEFINE w == Cut(window)
           m == w.bottom - w.top + 1 - w.lines
           u == video_scroll(v, dir, window, attr)
           MovedBy[k \in 0 .. m] == IF k = 0 THEN v ELSE MovesOne(MovedBy[k - 1], dir, w, k)
<1>1. /\ IsWindow(w) /\ w.bottom < Rows /\ w.top = window.top /\ w.left = window.left
      /\ w.lines = window.lines
      /\ \A r \in Int, col \in 0 .. screen_cols - 1 :
            InWindow(window, r, col) <=> r \in w.top .. w.bottom /\ col \in w.left .. w.right
  <2> HIDE DEF w
  <2>1. w = Cut(window)
    BY DEF w
  <2> QED BY <2>1, CutIs
<1>2. /\ w.top \in Nat /\ w.bottom \in Int /\ w.lines \in Nat /\ w.left \in Nat /\ w.right \in Int
      /\ window.bottom \in Nat /\ window.right \in Nat /\ DOMAIN v = 0 .. n - 1 /\ n \in Nat
  <2> HIDE DEF w
  <2> QED BY <1>1 DEF IsWindow, IsCells, Fits
<1>3. u = IF window.top > window.bottom \/ window.left > window.right THEN v
          ELSE IF w.lines = 0 \/ w.lines > w.bottom - w.top + 1
          THEN Cleared(v, w, w.top .. w.bottom, attr)
          ELSE Cleared(MovedBy[m], w, Clears(dir, w), attr)
  BY DEF video_scroll, Cut, MovesOne, Clears
<1> HIDE DEF w, MovedBy
<1>4. ASSUME NEW i \in 0 .. n - 1
      PROVE  /\ Row(i) \in Nat /\ Col(i) \in 0 .. screen_cols - 1
             /\ InWindow(window, Row(i), Col(i))
                  <=> Row(i) \in w.top .. w.bottom /\ Col(i) \in w.left .. w.right
             /\ InWindow(window, Row(i) + By(dir, window), Col(i))
                  <=> Row(i) + By(dir, window) \in w.top .. w.bottom /\ Col(i) \in w.left .. w.right
             /\ By(dir, window) = By(dir, w) /\ By(dir, w) \in Int
             /\ By(dir, w) = IF dir = "up" THEN w.lines ELSE - w.lines
  <2>1. Row(i) \in Nat /\ Col(i) \in 0 .. screen_cols - 1
    <3>1. i \in Nat
      BY <1>2
    <3> QED BY <3>1, RowAndCol
  <2>2. /\ By(dir, window) = By(dir, w) /\ By(dir, w) \in Int
        /\ By(dir, w) = IF dir = "up" THEN w.lines ELSE - w.lines
    BY <1>1, <1>2 DEF By
  <2>3. Row(i) + By(dir, window) \in Int
    BY <2>1, <2>2
  <2> QED BY <1>1, <2>1, <2>2, <2>3
<1> DEFINE d == By(dir, w)
<1>7. ASSUME NEW i \in 0 .. n - 1
      PROVE  /\ /\ w.lines > w.bottom - w.top + 1 /\ Row(i) \in w.top .. w.bottom
                => Row(i) + d \notin w.top .. w.bottom
             /\ w.lines # 0 /\ ~ (w.lines > w.bottom - w.top + 1) =>
                  /\ m \in Nat /\ w.lines > 0
                  /\ Row(i) \in w.top .. w.bottom
                       <=> Row(i) \in Clears(dir, w) \/ Row(i) \in MovedRows(dir, w, m)
                  /\ Row(i) \in MovedRows(dir, w, m) =>
                        Row(i) \notin Clears(dir, w) /\ Row(i) + d \in w.top .. w.bottom
                  /\ Row(i) \in Clears(dir, w) => Row(i) + d \notin w.top .. w.bottom
  <2>1. /\ w.top \in Nat /\ w.bottom \in Int /\ w.lines \in Nat /\ Row(i) \in Int
        /\ d = By(dir, w) /\ m = w.bottom - w.top + 1 - w.lines
    BY <1>2, <1>4
  <2> HIDE DEF d, m
  <2> QED BY <2>1, RowsSplit
<1>8. ASSUME NEW M, w.lines # 0, ~ (w.lines > w.bottom - w.top + 1), M = m
      PROVE  MovedBy[M] = AfterRows(v, n, dir, w, M)
  <2>1. M \in Nat /\ w.lines > 0 /\ M = w.bottom - w.top + 1 - w.lines
    <3> PICK a \in Nat, b \in Int, l \in Nat : w.top = a /\ w.bottom = b /\ w.lines = l
      BY <1>2
    <3>1. M = b - a + 1 - l /\ l # 0 /\ ~ (l > b - a + 1)
      BY <1>8
    <3> QED BY <3>1
  <2>2. MovedBy = MovesOf(v, dir, w, M)
    BY <1>8 DEF MovedBy, MovesOf
  <2> HIDE DEF m
  <2> QED BY <1>1, <2>1, <2>2, RowsMoved
<1>5. ASSUME NEW i \in 0 .. n - 1
      PROVE  u[i] = MovedCell(v, dir, window, attr, i)
  <2> HIDE DEF u
  <2> USE <1>4
  <2>1. CASE window.top > window.bottom \/ window.left > window.right
    <3>1. u = v
      BY <1>3, <2>1
    <3>2. ~ InWindow(window, Row(i), Col(i))
      BY <1>1, <1>2, <2>1, SMTT(30) DEF InWindow
    <3> QED BY <3>1, <3>2 DEF MovedCell
  <2>2. CASE /\ ~ (window.top > window.bottom \/ window.left > window.right)
             /\ w.lines = 0 \/ w.lines > w.bottom - w.top + 1
    <3>1. u = Cleared(v, w, w.top .. w.bottom, attr)
      BY <1>3, <2>2
    <3>2. u[i] = IF Row(i) \in w.top .. w.bottom /\ Col(i) \in w.left .. w.right
                 THEN Blank(attr) ELSE v[i]
      BY <1>2, <3>1 DEF Cleared, Row, Col
    <3> QED BY <1>1, <1>7, <2>2, <3>2 DEF MovedCell
  <2>3. CASE /\ ~ (window.top > window.bottom \/ window.left > window.right)
             /\ ~ (w.lines = 0 \/ w.lines > w.bottom - w.top + 1)
    <3>1. u = Cleared(MovedBy[m], w, Clears(dir, w), attr)
      BY <1>3, <2>3
    <3>2. MovedBy[m] = AfterRows(v, n, dir, w, m)
      BY <1>8, <2>3
    <3>3. u[i] = IF Row(i) \in Clears(dir, w) /\ Col(i) \in w.left .. w.right
                 THEN Blank(attr) ELSE AfterRows(v, n, dir, w, m)[i]
      <4>1. DOMAIN AfterRows(v, n, dir, w, m) = 0 .. n - 1
        BY DEF AfterRows
      <4> QED BY <3>1, <3>2, <4>1 DEF Cleared, Row, Col
    <3>4. AfterRows(v, n, dir, w, m)[i]
            = IF Row(i) \in MovedRows(dir, w, m) /\ Col(i) \in w.left .. w.right
              THEN v[i + By(dir, w) * screen_cols] ELSE v[i]
      BY DEF AfterRows
    <3>5. /\ Row(i) \in w.top .. w.bottom <=> Row(i) \in Clears(dir, w) \/ Row(i) \in MovedRows(dir, w, m)
          /\ Row(i) \in MovedRows(dir, w, m) =>
                Row(i) \notin Clears(dir, w) /\ Row(i) + By(dir, w) \in w.top .. w.bottom
          /\ Row(i) \in Clears(dir, w) => Row(i) + By(dir, w) \notin w.top .. w.bottom
      BY <1>7, <2>3
    <3>6. window.lines # 0
      BY <1>1, <2>3
    <3> HIDE DEF m
    <3> QED BY <3>3, <3>4, <3>5, <3>6 DEF MovedCell
  <2> QED BY <2>1, <2>2, <2>3
<1>6. IsCells(u, n)
  <2>1. DOMAIN MovedBy[m] = 0 .. n - 1 \/ w.lines = 0 \/ w.lines > w.bottom - w.top + 1
    <3> SUFFICES ASSUME w.lines # 0, ~ (w.lines > w.bottom - w.top + 1) PROVE DOMAIN MovedBy[m] = 0 .. n - 1
      OBVIOUS
    <3> QED BY <1>8 DEF AfterRows
  <2> HIDE DEF u, m
  <2> QED BY <1>2, <1>3, <2>1 DEF Cleared, IsCells
<1> QED BY <1>5, <1>6

-----------------------------------------------------------------------------
(* One character. *)

\* Memory and cursors in the course of a call, for a memory of n cells.
IsText(t, n) ==
    /\ t = [v |-> t.v, cur |-> t.cur] /\ IsCells(t.v, n)
    /\ t.cur = [q \in PageNumbers |-> t.cur[q]]
    /\ \A q \in PageNumbers : t.cur[q] \in [row : Nat, col : Nat]

\* The cell of page p at place s, and the cursor there.
Place(p, s) == p * PageSize + s
CursorAt(s) == [row |-> Row(s), col |-> Col(s)]

\* u is t when the cursor of page p goes to place y: behind the last row of the
\* screen the first one is scrolled off.
Rolled(t, u, n, p, y, attr) ==
    /\ IsText(u, n)
    /\ u.cur = [t.cur EXCEPT ![p] = IF y < PageSize THEN CursorAt(y)
                                    ELSE [row |-> Rows - 1, col |-> Col(y)]]
    /\ \A i \in 0 .. n - 1 :
          u.v[i] = IF y < PageSize \/ i >= PageSize THEN t.v[i]
                   ELSE IF i + screen_cols < PageSize THEN t.v[i + screen_cols]
                   ELSE Blank(attr)

LEMMA ScreenScrolled ==
    ASSUME NEW n, Fits(n), NEW v, IsCells(v, n), NEW attr,
           NEW u, u = video_scroll(v, "up", WholeScreen, attr)
    PROVE  /\ IsCells(u, n)
           /\ \A i \in 0 .. n - 1 :
                 u[i] = IF i >= PageSize THEN v[i]
                        ELSE IF i + screen_cols < PageSize THEN v[i + screen_cols]
                        ELSE Blank(attr)
<1> DEFINE w == WholeScreen
<1>1. /\ screen_cols \in Nat /\ screen_cols > 0 /\ Rows \in Nat /\ Rows > 0 /\ n \in Nat
      /\ PageSize \in Nat
      /\ w = [top |-> 0, left |-> 0, bottom |-> Rows - 1, right |-> screen_cols - 1, lines |-> 1]
  BY TextSizes DEF WholeScreen
<1> HIDE DEF w
<1>2. w \in [top : Nat, left : Nat, bottom : Nat, right : Nat, lines : Nat]
  <2>1. Rows - 1 \in Nat /\ screen_cols - 1 \in Nat
    BY <1>1
  <2> QED BY <1>1, <2>1
<1>3. IsCells(u, n) /\ \A i \in 0 .. n - 1 : u[i] = MovedCell(v, "up", w, attr, i)
  BY <1>2, Scrolled DEF w
<1>4. ASSUME NEW i \in 0 .. n - 1
      PROVE  MovedCell(v, "up", w, attr, i)
               = IF i >= PageSize THEN v[i]
                 ELSE IF i + screen_cols < PageSize THEN v[i + screen_cols] ELSE Blank(attr)
  <2>1. /\ i \in Nat /\ Row(i) \in Nat /\ Col(i) \in 0 .. screen_cols - 1
        /\ Row(i) < Rows <=> i < PageSize
    <3>1. i \in Nat
      BY <1>1
    <3> QED BY <3>1, RowAndCol, OnFirstPage
  <2>2. /\ i + screen_cols \in Nat /\ Row(i + screen_cols) = Row(i) + 1
        /\ Row(i) + 1 < Rows <=> i + screen_cols < PageSize
    <3>1. Row(i + 1 * screen_cols) = Row(i) + 1
      BY <2>1, RowsAway
    <3>2. i + screen_cols \in Nat /\ i + 1 * screen_cols = i + screen_cols
      BY <1>1, <2>1
    <3>3. Row(i + screen_cols) < Rows <=> i + screen_cols < PageSize
      BY <3>2, OnFirstPage
    <3> QED BY <3>1, <3>2, <3>3
  <2>3. By("up", w) = 1 /\ w.lines # 0
    BY <1>1 DEF By
  <2>4. \A r \in Nat : InWindow(w, r, Col(i)) <=> r < Rows
    BY <1>1, <2>1 DEF InWindow
  <2>5. MovedCell(v, "up", w, attr, i)
          = IF ~ (Row(i) < Rows) THEN v[i]
            ELSE IF Row(i) + 1 < Rows THEN v[i + 1 * screen_cols] ELSE Blank(attr)
    BY <2>1, <2>3, <2>4 DEF MovedCell
  <2>6. i + 1 * screen_cols = i + screen_cols
    BY <1>1, <2>1
  <2>7. i >= PageSize <=> ~ (i < PageSize)
    BY <1>1, <2>1
  <2> QED BY <2>1, <2>2, <2>5, <2>6, <2>7
<1> QED BY <1>3, <1>4

\* PlaceIs of the pages.
LEMMA PlaceIs ==
    ASSUME NEW n, Fits(n), NEW p \in PageNumbers, NEW s \in 0 .. PageSize - 1
    PROVE  /\ Place(p, s) \in 0 .. n - 1 /\ Place(p, s) \div PageSize = p
           /\ Place(0, s) = s
           /\ \A i \in Nat : i \div PageSize = p => i - p * PageSize \in 0 .. PageSize - 1
<1>1. /\ PageSize \in Nat /\ PageSize > 0 /\ NPages \in Nat /\ n \in Nat /\ NPages * PageSize <= n
      /\ p \in Nat /\ p < NPages
  BY TextSizes DEF Fits, PageNumbers
<1>2. PICK k \in Nat : NPages = p + 1 + k
  <2>1. NPages - p - 1 \in Nat /\ NPages = p + 1 + (NPages - p - 1)
    BY <1>1
  <2> QED BY <2>1
<1>3. /\ NPages * PageSize = p * PageSize + PageSize + k * PageSize
      /\ k * PageSize \in Nat /\ p * PageSize \in Nat
  BY <1>1, <1>2
<1>4. Place(p, s) \in 0 .. n - 1
  BY <1>1, <1>3 DEF Place
<1>5. (PageSize * p + s) \div PageSize = p /\ PageSize * p = p * PageSize
  BY <1>1, Quotient
<1>6. Place(0, s) = s
  BY <1>1 DEF Place
<1>7. ASSUME NEW i \in Nat, i \div PageSize = p PROVE i - p * PageSize \in 0 .. PageSize - 1
  <2>1. i % PageSize \in 0 .. PageSize - 1 /\ i = PageSize * p + (i % PageSize)
    BY <1>1, <1>7, Divided
  <2> QED BY <1>3, <1>5, <2>1
<1> QED BY <1>4, <1>5, <1>6, <1>7 DEF Place

LEMMA CursorIs ==
    ASSUME NEW n, Fits(n), NEW s \in 0 .. PageSize - 1
    PROVE  /\ s \in Nat /\ Row(s) \in 0 .. Rows - 1 /\ Col(s) \in 0 .. screen_cols - 1
           /\ s = screen_cols * Row(s) + Col(s)
           /\ CursorAt(s).row = Row(s) /\ CursorAt(s).col = Col(s)
           /\ \A p \in PageNumbers : CellAt(p, CursorAt(s)) = Place(p, s)
<1>1. s \in Nat /\ s < PageSize /\ screen_cols \in Nat /\ PageSize \in Nat /\ Rows \in Nat
  BY TextSizes
<1>2. Row(s) \in Nat /\ Col(s) \in 0 .. screen_cols - 1 /\ s = screen_cols * Row(s) + Col(s)
  BY <1>1, RowAndCol
<1>3. Row(s) < Rows
  BY <1>1, OnFirstPage
<1>4. CursorAt(s).row = Row(s) /\ CursorAt(s).col = Col(s)
  BY DEF CursorAt
<1>5. ASSUME NEW p \in PageNumbers PROVE CellAt(p, CursorAt(s)) = Place(p, s)
  <2>1. p * PageSize \in Int
    BY <1>1 DEF PageNumbers
  <2>2. CellAt(p, CursorAt(s)) = p * PageSize + Row(s) * screen_cols + Col(s)
    BY <1>4 DEF CellAt
  <2>3. Row(s) * screen_cols = screen_cols * Row(s) /\ screen_cols * Row(s) \in Int
    BY <1>1, <1>2
  <2> QED BY <1>1, <1>2, <2>1, <2>2, <2>3 DEF Place
<1> QED BY <1>1, <1>2, <1>3, <1>4, <1>5

LEMMA NextPlace ==
    ASSUME NEW n, Fits(n), NEW s \in 0 .. PageSize - 1
    PROVE  /\ Col(s) + 1 < screen_cols =>
                Row(s + 1) = Row(s) /\ Col(s + 1) = Col(s) + 1 /\ s + 1 < PageSize
           /\ ~ (Col(s) + 1 < screen_cols) =>
                Row(s + 1) = Row(s) + 1 /\ Col(s + 1) = 0 /\ (Row(s) + 1 < Rows <=> s + 1 < PageSize)
           /\ Row(s + screen_cols) = Row(s) + 1 /\ Col(s + screen_cols) = Col(s)
           /\ Row(s) + 1 < Rows <=> s + screen_cols < PageSize
<1>1. /\ s \in Nat /\ Row(s) \in 0 .. Rows - 1 /\ Col(s) \in 0 .. screen_cols - 1
      /\ s = screen_cols * Row(s) + Col(s)
      /\ screen_cols \in Nat /\ screen_cols > 0 /\ Rows \in Nat
  BY TextSizes, CursorIs
<1>2. PICK a \in Int : a = screen_cols * Row(s)
  BY <1>1
<1>3. ASSUME Col(s) + 1 < screen_cols
      PROVE  Row(s + 1) = Row(s) /\ Col(s + 1) = Col(s) + 1 /\ s + 1 < PageSize
  <2>1. s + 1 = screen_cols * Row(s) + (Col(s) + 1) /\ Col(s) + 1 \in 0 .. screen_cols - 1
    BY <1>1, <1>2, <1>3
  <2>2. Row(s) \in Nat /\ Row(s) < Rows
    BY <1>1
  <2> QED BY <2>1, <2>2, CellOf, FirstPage
<1>4. ASSUME ~ (Col(s) + 1 < screen_cols)
      PROVE  Row(s + 1) = Row(s) + 1 /\ Col(s + 1) = 0 /\ (Row(s) + 1 < Rows <=> s + 1 < PageSize)
  <2>1. screen_cols * (Row(s) + 1) = a + screen_cols
    BY <1>1, <1>2
  <2>2. s + 1 = screen_cols * (Row(s) + 1) + 0 /\ 0 \in 0 .. screen_cols - 1
    BY <1>1, <1>2, <1>4, <2>1
  <2>3. Row(s) + 1 \in Nat
    BY <1>1
  <2> QED BY <2>2, <2>3, CellOf, FirstPage
<1>5. Row(s + screen_cols) = Row(s) + 1 /\ Col(s + screen_cols) = Col(s)
      /\ (Row(s) + 1 < Rows <=> s + screen_cols < PageSize)
  <2>1. screen_cols * (Row(s) + 1) = a + screen_cols
    BY <1>1, <1>2
  <2>2. s + screen_cols = screen_cols * (Row(s) + 1) + Col(s)
    <3>1. s = a + Col(s) /\ Col(s) \in Int /\ screen_cols \in Int
      BY <1>1, <1>2
    <3> QED BY <2>1, <3>1
  <2>3. Row(s) + 1 \in Nat /\ Col(s) \in 0 .. screen_cols - 1
    BY <1>1
  <2>4. PICK r \in Nat : r = Row(s) + 1
    BY <2>3
  <2>5. Row(screen_cols * r + Col(s)) = r /\ Col(screen_cols * r + Col(s)) = Col(s)
        /\ (r < Rows <=> screen_cols * r + Col(s) < PageSize)
    BY <2>3, CellOf, FirstPage
  <2> QED BY <2>2, <2>4, <2>5
<1> QED BY <1>3, <1>4, <1>5

\* The cursor goes to y, and the screen scrolls once if that is behind it.
LEMMA Rolls ==
    ASSUME NEW n, Fits(n), NEW t, IsText(t, n), NEW p \in PageNumbers, NEW attr,
           NEW y \in Nat,
           NEW pos, pos = IF y < PageSize THEN CursorAt(y) ELSE [row |-> Rows - 1, col |-> Col(y)],
           NEW u, u = [v |-> IF y < PageSize THEN t.v ELSE video_scroll(t.v, "up", WholeScreen, attr),
                       cur |-> [t.cur EXCEPT ![p] = pos]]
    PROVE  Rolled(t, u, n, p, y, attr)
<1>1. /\ IsCells(t.v, n) /\ t.cur = [q \in PageNumbers |-> t.cur[q]]
      /\ \A q \in PageNumbers : t.cur[q] \in [row : Nat, col : Nat]
  BY DEF IsText
<1>2. pos \in [row : Nat, col : Nat]
  <2>1. Row(y) \in Nat /\ Col(y) \in Nat
    BY RowAndCol, TextSizes
  <2>2. Rows - 1 \in Nat
    BY TextSizes
  <2> QED BY <2>1, <2>2 DEF CursorAt
<1>3. /\ IsCells(u.v, n)
      /\ \A i \in 0 .. n - 1 :
            u.v[i] = IF y < PageSize \/ i >= PageSize THEN t.v[i]
                     ELSE IF i + screen_cols < PageSize THEN t.v[i + screen_cols]
                     ELSE Blank(attr)
  <2>1. CASE y < PageSize
    BY <1>1, <2>1
  <2>2. CASE ~ (y < PageSize)
    <3>1. u.v = video_scroll(t.v, "up", WholeScreen, attr)
      BY <2>2
    <3>2. /\ IsCells(u.v, n)
          /\ \A i \in 0 .. n - 1 :
                u.v[i] = IF i >= PageSize THEN t.v[i]
                         ELSE IF i + screen_cols < PageSize THEN t.v[i + screen_cols]
                         ELSE Blank(attr)
      BY <1>1, <3>1, ScreenScrolled
    <3> QED BY <2>2, <3>2
  <2> QED BY <2>1, <2>2
<1>4. u.cur = [t.cur EXCEPT ![p] = pos] /\ u = [v |-> u.v, cur |-> u.cur]
  OBVIOUS
<1>5. u.cur = [q \in PageNumbers |-> u.cur[q]] /\ \A q \in PageNumbers : u.cur[q] \in [row : Nat, col : Nat]
  BY <1>1, <1>2, <1>4
<1> QED BY <1>3, <1>4, <1>5 DEF Rolled, IsText

LEMMA Settles ==
    ASSUME NEW n, Fits(n), NEW t, IsText(t, n), NEW p \in PageNumbers, NEW s \in 0 .. PageSize - 1,
           t.cur[p] = [row |-> Row(s), col |-> Col(s) + 1], NEW attr,
           NEW u, u = Settled(t, p, attr)
    PROVE  Rolled(t, u, n, p, s + 1, attr)
<1> DEFINE wrapped == IF t.cur[p].col >= screen_cols THEN [row |-> t.cur[p].row + 1, col |-> 0] ELSE t.cur[p]
           y == s + 1
           pos == IF y < PageSize THEN CursorAt(y) ELSE [row |-> Rows - 1, col |-> Col(y)]
<1>1. /\ s \in Nat /\ Row(s) \in Nat /\ Row(s) < Rows /\ Col(s) \in 0 .. screen_cols - 1
      /\ screen_cols \in Nat /\ Rows \in Nat
  BY TextSizes, CursorIs
<1>2. /\ t.cur[p].row = Row(s) /\ t.cur[p].col = Col(s) + 1
      /\ t = [v |-> t.v, cur |-> t.cur] /\ t.cur = [q \in PageNumbers |-> t.cur[q]]
  BY DEF IsText
<1>3. wrapped = CursorAt(y) /\ (wrapped.row < Rows <=> y < PageSize) /\ wrapped.col = Col(y)
  <2>1. CASE Col(s) + 1 < screen_cols
    <3>1. Row(y) = Row(s) /\ Col(y) = Col(s) + 1 /\ y < PageSize
      BY <2>1, NextPlace
    <3>2. wrapped = [row |-> Row(s), col |-> Col(s) + 1]
      BY <1>1, <1>2, <2>1
    <3> HIDE DEF wrapped, y
    <3> QED BY <1>1, <3>1, <3>2 DEF CursorAt
  <2>2. CASE ~ (Col(s) + 1 < screen_cols)
    <3>1. Row(y) = Row(s) + 1 /\ Col(y) = 0 /\ (Row(s) + 1 < Rows <=> y < PageSize)
      BY <2>2, NextPlace
    <3>2. wrapped = [row |-> Row(s) + 1, col |-> 0]
      BY <1>1, <1>2, <2>2
    <3> HIDE DEF wrapped, y
    <3> QED BY <1>1, <3>1, <3>2 DEF CursorAt
  <2> QED BY <2>1, <2>2
<1>4. u = IF wrapped.row < Rows THEN [t EXCEPT !.cur[p] = wrapped]
          ELSE [v |-> video_scroll(t.v, "up", WholeScreen, attr),
                cur |-> [t.cur EXCEPT ![p] = [row |-> Rows - 1, col |-> wrapped.col]]]
  BY DEF Settled
<1> HIDE DEF wrapped
<1>5. u = [v |-> IF y < PageSize THEN t.v ELSE video_scroll(t.v, "up", WholeScreen, attr),
           cur |-> [t.cur EXCEPT ![p] = pos]]
  <2>1. CASE y < PageSize
    <3>1. u = [t EXCEPT !.cur[p] = pos]
      BY <1>3, <1>4, <2>1
    <3> HIDE DEF pos, y
    <3> QED BY <1>2, <2>1, <3>1
  <2>2. CASE ~ (y < PageSize)
    <3>1. pos = [row |-> Rows - 1, col |-> wrapped.col]
      BY <1>3, <2>2
    <3>2. u = [v |-> video_scroll(t.v, "up", WholeScreen, attr), cur |-> [t.cur EXCEPT ![p] = pos]]
      BY <1>3, <1>4, <2>2, <3>1
    <3> HIDE DEF pos, y
    <3> QED BY <2>2, <3>2
  <2> QED BY <2>1, <2>2
<1>6. y \in Nat
  BY <1>1
<1> HIDE DEF y
<1> QED BY <1>5, <1>6, Rolls DEF y

\* t with ch printed at place s of page p.
Printed(t, p, s, ch, at) ==
    [v |-> [i \in DOMAIN t.v |-> IF i = Place(p, s) /\ ch \notin Controls
                                 THEN [ch |-> ch, at |-> at] ELSE t.v[i]],
     cur |-> t.cur]

LEMMA PrintedIs ==
    ASSUME NEW n, Fits(n), NEW t, IsText(t, n), NEW p \in PageNumbers, NEW s \in 0 .. PageSize - 1,
           NEW ch, NEW at
    PROVE  /\ IsText(Printed(t, p, s, ch, at), n) /\ Printed(t, p, s, ch, at).cur = t.cur
           /\ ch \in Controls => Printed(t, p, s, ch, at) = t
           /\ ch \notin Controls =>
                Printed(t, p, s, ch, at).v = WithCell(t.v, Place(p, s), [ch |-> ch, at |-> at])
           /\ \A i \in 0 .. n - 1 :
                 Printed(t, p, s, ch, at).v[i] = IF i = Place(p, s) /\ ch \notin Controls
                                                 THEN [ch |-> ch, at |-> at] ELSE t.v[i]
<1> DEFINE w == Printed(t, p, s, ch, at)
           cell == [ch |-> ch, at |-> at]
<1>1. /\ t = [v |-> t.v, cur |-> t.cur] /\ t.v = [i \in 0 .. n - 1 |-> t.v[i]]
      /\ t.cur = [q \in PageNumbers |-> t.cur[q]]
      /\ \A q \in PageNumbers : t.cur[q] \in [row : Nat, col : Nat]
  BY DEF IsText, IsCells
<1>2. w = [v |-> w.v, cur |-> w.cur] /\ w.cur = t.cur
  BY DEF Printed
<1>3. w.v = [i \in 0 .. n - 1 |-> IF i = Place(p, s) /\ ch \notin Controls THEN cell ELSE t.v[i]]
  BY <1>1 DEF Printed
<1> HIDE DEF w
<1>4. IsText(w, n)
  BY <1>1, <1>2, <1>3 DEF IsText, IsCells
<1>5. ASSUME ch \in Controls PROVE w = t
  <2>1. w.v = t.v
    BY <1>1, <1>3, <1>5
  <2> QED BY <1>1, <1>2, <2>1
<1>6. ASSUME ch \notin Controls PROVE w.v = WithCell(t.v, Place(p, s), cell)
  <2>1. Place(p, s) \in 0 .. n - 1
    BY PlaceIs
  <2> HIDE DEF cell
  <2> QED BY <1>1, <1>3, <1>6, <2>1 DEF WithCell
<1> QED BY <1>2, <1>3, <1>4, <1>5, <1>6 DEF w

LEMMA NextPlaces ==
    ASSUME NEW n, Fits(n), NEW s \in 0 .. PageSize - 1, NEW ch, NEW y, y = Next1(s, ch)
    PROVE  /\ y \in Nat /\ y < PageSize + screen_cols /\ Row(s) <= Row(y)
           /\ ch = "BEL" => y = s
           /\ ch = "BS" => y < PageSize /\ CursorAt(y) = [row |-> Row(s), col |-> IF Col(s) > 0 THEN Col(s) - 1 ELSE Col(s)]
           /\ ch = "CR" => y < PageSize /\ CursorAt(y) = [row |-> Row(s), col |-> 0]
           /\ ch = "LF" => y = s + screen_cols
           /\ ch \notin Controls => y = s + 1
<1>1. /\ s \in Nat /\ Row(s) \in Nat /\ Row(s) < Rows /\ Col(s) \in 0 .. screen_cols - 1
      /\ s = screen_cols * Row(s) + Col(s) /\ s < PageSize /\ PageSize \in Nat
      /\ screen_cols \in Nat /\ screen_cols > 0 /\ Rows \in Nat
  BY TextSizes, CursorIs
<1>2. PICK a \in Int : a = screen_cols * Row(s) /\ s = a + Col(s)
  BY <1>1
<1>3. a \in Nat
  BY <1>1, <1>2
<1>4. ASSUME NEW col \in 0 .. screen_cols - 1 PROVE Row(a + col) = Row(s) /\ Col(a + col) = col
  <2>1. Row(s) \in Int
    BY <1>1
  <2>2. Row(screen_cols * Row(s) + col) = Row(s) /\ Col(screen_cols * Row(s) + col) = col
    BY <2>1, CellOf
  <2> QED BY <1>2, <2>2
<1>5. CASE ch = "BEL"
  BY <1>1, <1>5 DEF Next1, Controls
<1>6. CASE ch = "BS"
  <2>1. y = IF Col(s) > 0 THEN s - 1 ELSE s
    BY <1>6 DEF Next1, Col
  <2> DEFINE col == IF Col(s) > 0 THEN Col(s) - 1 ELSE Col(s)
  <2>2. col \in 0 .. screen_cols - 1 /\ y = a + col /\ col <= Col(s)
    BY <1>1, <1>2, <2>1
  <2>3. Row(y) = Row(s) /\ Col(y) = col /\ y \in Nat /\ y <= s
    BY <1>1, <1>2, <1>3, <1>4, <2>2
  <2> HIDE DEF col
  <2>4. CursorAt(y) = [row |-> Row(s), col |-> col] /\ y < PageSize /\ y < PageSize + screen_cols
    BY <1>1, <2>3 DEF CursorAt
  <2>5. ch # "BEL" /\ ch # "CR" /\ ch # "LF" /\ ch \in Controls
    BY <1>6 DEF Controls
  <2> QED BY <1>1, <2>3, <2>4, <2>5 DEF col
<1>7. CASE ch = "CR"
  <2>1. y = s - Col(s)
    BY <1>7 DEF Next1, Col
  <2>2. 0 \in 0 .. screen_cols - 1 /\ y = a + 0 /\ y \in Nat /\ y <= s
    BY <1>1, <1>2, <1>3, <2>1
  <2>3. Row(y) = Row(s) /\ Col(y) = 0
    BY <1>4, <2>2
  <2>4. CursorAt(y) = [row |-> Row(s), col |-> 0] /\ y < PageSize /\ y < PageSize + screen_cols
    BY <1>1, <2>2, <2>3 DEF CursorAt
  <2>5. ch # "BEL" /\ ch # "BS" /\ ch # "LF" /\ ch \in Controls
    BY <1>7 DEF Controls
  <2> QED BY <1>1, <2>2, <2>3, <2>4, <2>5
<1>8. CASE ch = "LF"
  <2>1. y = s + screen_cols
    BY <1>8 DEF Next1
  <2>2. Row(y) = Row(s) + 1
    BY <2>1, NextPlace
  <2>3. ch # "BEL" /\ ch # "BS" /\ ch # "CR" /\ ch \in Controls
    BY <1>8 DEF Controls
  <2> QED BY <1>1, <2>1, <2>2, <2>3
<1>9. CASE ch \notin Controls
  <2>1. ch # "BEL" /\ ch # "BS" /\ ch # "CR" /\ ch # "LF"
    BY <1>9 DEF Controls
  <2>2. y = s + 1
    BY <2>1 DEF Next1
  <2>3. Row(y) >= Row(s)
    <3>1. Row(s + 1) = Row(s) \/ Row(s + 1) = Row(s) + 1
      BY NextPlace
    <3> QED BY <1>1, <2>2, <3>1
  <2> QED BY <1>1, <1>9, <2>1, <2>2, <2>3
<1> QED BY <1>5, <1>6, <1>7, <1>8, <1>9 DEF Controls

\* What the services do with a character: tty prints it with the attribute of the
\* cell, or goes where the control character says.
LEMMA TtyTypes ==
    ASSUME NEW n, Fits(n), NEW t, IsText(t, n), active \in PageNumbers, NEW s \in 0 .. PageSize - 1,
           t.cur[active] = CursorAt(s), NEW ch, NEW u, u = video_tty(t, ch)
    PROVE  Rolled(Printed(t, active, s, ch, t.v[Place(active, s)].at), u, n, active, Next1(s, ch), Normal)
<1> DEFINE p == active
           at == t.v[Place(p, s)].at
           w == Printed(t, p, s, ch, at)
           y == Next1(s, ch)
           pos == IF y < PageSize THEN CursorAt(y) ELSE [row |-> Rows - 1, col |-> Col(y)]
           goal == [v |-> IF y < PageSize THEN w.v ELSE video_scroll(w.v, "up", WholeScreen, Normal),
                    cur |-> [w.cur EXCEPT ![p] = pos]]
<1>1. /\ s \in Nat /\ Row(s) \in 0 .. Rows - 1 /\ Col(s) \in 0 .. screen_cols - 1
      /\ CursorAt(s).row = Row(s) /\ CursorAt(s).col = Col(s) /\ CellAt(p, CursorAt(s)) = Place(p, s)
      /\ Place(p, s) \in 0 .. n - 1 /\ s < PageSize /\ PageSize \in Nat
      /\ screen_cols \in Nat /\ screen_cols > 0 /\ Rows \in Nat
  BY TextSizes, CursorIs, PlaceIs
<1>2. /\ t = [v |-> t.v, cur |-> t.cur] /\ t.v = [i \in 0 .. n - 1 |-> t.v[i]]
      /\ t.cur = [q \in PageNumbers |-> t.cur[q]]
      /\ t.cur[p] = CursorAt(s)
  BY DEF IsText, IsCells
<1>3. /\ y \in Nat /\ y < PageSize + screen_cols
      /\ ch = "BEL" => y = s
      /\ ch = "BS" => y < PageSize /\ CursorAt(y) = [row |-> Row(s), col |-> IF Col(s) > 0 THEN Col(s) - 1 ELSE Col(s)]
      /\ ch = "CR" => y < PageSize /\ CursorAt(y) = [row |-> Row(s), col |-> 0]
      /\ ch = "LF" => y = s + screen_cols
      /\ ch \notin Controls => y = s + 1
  BY NextPlaces
<1>4. /\ IsText(w, n) /\ w.cur = t.cur /\ (ch \in Controls => w = t)
      /\ ch \notin Controls => w.v = WithCell(t.v, Place(p, s), [ch |-> ch, at |-> at])
  BY PrintedIs
<1> HIDE DEF w, y, at
<1>5. ASSUME u = goal PROVE Rolled(w, u, n, p, y, Normal)
  <2> HIDE DEF pos
  <2>1. pos = IF y < PageSize THEN CursorAt(y) ELSE [row |-> Rows - 1, col |-> Col(y)]
    BY DEF pos
  <2> QED BY <1>3, <1>4, <1>5, <2>1, Rolls
<1>6. ASSUME ch \in Controls, y < PageSize, u = [t EXCEPT !.cur[p] = CursorAt(y)]
      PROVE  u = goal
  <2>1. pos = CursorAt(y) /\ w = t
    BY <1>4, <1>6
  <2> HIDE DEF pos
  <2> QED BY <1>2, <1>6, <2>1
<1>7. ASSUME ch = "BEL" PROVE Rolled(w, u, n, p, y, Normal)
  <2>1. u = t
    BY <1>7 DEF video_tty
  <2>2. [t EXCEPT !.cur[p] = CursorAt(s)] = t
    BY <1>2
  <2>3. ch \in Controls /\ y = s /\ y < PageSize
    BY <1>1, <1>3, <1>7 DEF Controls
  <2> QED BY <1>5, <1>6, <2>1, <2>2, <2>3
<1>8. ASSUME ch = "BS" PROVE Rolled(w, u, n, p, y, Normal)
  <2>1. u = [t EXCEPT !.cur[p].col = IF @ > 0 THEN @ - 1 ELSE @]
    BY <1>8 DEF video_tty
  <2>2. [CursorAt(s) EXCEPT !.col = IF @ > 0 THEN @ - 1 ELSE @] = CursorAt(y)
    <3>1. CursorAt(s) = [row |-> Row(s), col |-> Col(s)]
      BY DEF CursorAt
    <3> QED BY <1>3, <1>8, <3>1
  <2>3. u = [t EXCEPT !.cur[p] = CursorAt(y)]
    BY <1>2, <2>1, <2>2
  <2>4. ch \in Controls /\ y < PageSize
    BY <1>3, <1>8 DEF Controls
  <2> QED BY <1>5, <1>6, <2>3, <2>4
<1>9. ASSUME ch = "CR" PROVE Rolled(w, u, n, p, y, Normal)
  <2>1. u = [t EXCEPT !.cur[p].col = 0]
    BY <1>9 DEF video_tty
  <2>2. [CursorAt(s) EXCEPT !.col = 0] = CursorAt(y)
    <3>1. CursorAt(s) = [row |-> Row(s), col |-> Col(s)]
      BY DEF CursorAt
    <3> QED BY <1>3, <1>9, <3>1
  <2>3. u = [t EXCEPT !.cur[p] = CursorAt(y)]
    BY <1>2, <2>1, <2>2
  <2>4. ch \in Controls /\ y < PageSize
    BY <1>3, <1>9 DEF Controls
  <2> QED BY <1>5, <1>6, <2>3, <2>4
<1>10. ASSUME ch = "LF" PROVE Rolled(w, u, n, p, y, Normal)
  <2>1. u = IF Row(s) + 1 < Rows THEN [t EXCEPT !.cur[p].row = @ + 1]
            ELSE [v |-> video_scroll(t.v, "up", WholeScreen, Normal),
                  cur |-> [t.cur EXCEPT ![p].row = Rows - 1]]
    BY <1>1, <1>2, <1>10 DEF video_tty
  <2>2. /\ y = s + screen_cols /\ Row(y) = Row(s) + 1 /\ Col(y) = Col(s)
        /\ Row(s) + 1 < Rows <=> y < PageSize
    BY <1>3, <1>10, NextPlace
  <2>3. CursorAt(s) = [row |-> Row(s), col |-> Col(s)] /\ CursorAt(y) = [row |-> Row(s) + 1, col |-> Col(s)]
    BY <2>2 DEF CursorAt
  <2>4. w = t /\ ch \in Controls
    BY <1>4, <1>10 DEF Controls
  <2>5. CASE y < PageSize
    <3>1. [CursorAt(s) EXCEPT !.row = @ + 1] = CursorAt(y)
      BY <2>3
    <3>2. u = [t EXCEPT !.cur[p].row = @ + 1]
      BY <2>1, <2>2, <2>5
    <3>3. u = [t EXCEPT !.cur[p] = CursorAt(y)]
      BY <1>2, <3>1, <3>2
    <3> QED BY <1>5, <1>6, <2>4, <2>5, <3>3
  <2>6. CASE ~ (y < PageSize)
    <3>1. [CursorAt(s) EXCEPT !.row = Rows - 1] = [row |-> Rows - 1, col |-> Col(y)]
      BY <2>2, <2>3
    <3>2. u = [v |-> video_scroll(t.v, "up", WholeScreen, Normal),
               cur |-> [t.cur EXCEPT ![p].row = Rows - 1]]
      BY <2>1, <2>2, <2>6
    <3>3. [t.cur EXCEPT ![p].row = Rows - 1] = [t.cur EXCEPT ![p] = pos]
      BY <1>2, <2>6, <3>1
    <3>4. u = goal
      <4> HIDE DEF pos
      <4> QED BY <2>4, <2>6, <3>2, <3>3
    <3> QED BY <1>5, <3>4
  <2> QED BY <2>5, <2>6
<1>11. ASSUME ch \notin Controls PROVE Rolled(w, u, n, p, y, Normal)
  <2> DEFINE cell == [ch |-> ch, at |-> at]
             x == [v |-> WithCell(t.v, Place(p, s), cell), cur |-> [t.cur EXCEPT ![p].col = @ + 1]]
  <2>1. ch # "BEL" /\ ch # "BS" /\ ch # "CR" /\ ch # "LF"
    BY <1>11 DEF Controls
  <2>2. u = Settled(x, p, Normal)
    <3>1. u = Advanced(t, p, [ch |-> ch, at |-> IF Place(p, s) \in DOMAIN t.v THEN t.v[Place(p, s)].at
                                               ELSE Normal], Normal)
      BY <1>1, <1>2, <2>1 DEF video_tty
    <3>2. u = Advanced(t, p, cell, Normal)
      BY <1>1, <1>2, <3>1 DEF at
    <3> HIDE DEF cell
    <3> QED BY <1>1, <1>2, <3>2 DEF Advanced
  <2>3. x.v = w.v /\ x.cur = [t.cur EXCEPT ![p] = [row |-> Row(s), col |-> Col(s) + 1]]
    <3>1. x.v = w.v
      BY <1>4, <1>11
    <3>2. [CursorAt(s) EXCEPT !.col = @ + 1] = [row |-> Row(s), col |-> Col(s) + 1]
      BY DEF CursorAt
    <3> QED BY <1>2, <3>1, <3>2
  <2>4. x = [v |-> x.v, cur |-> x.cur]
    OBVIOUS
  <2> HIDE DEF x
  <2>5. IsText(x, n) /\ x.cur[p] = [row |-> Row(s), col |-> Col(s) + 1]
    <3>1. Row(s) \in Nat /\ Col(s) + 1 \in Nat
      BY <1>1
    <3>2. IsCells(x.v, n)
      BY <1>4, <2>3 DEF IsText
    <3>3. \A q \in PageNumbers : t.cur[q] \in [row : Nat, col : Nat]
      BY DEF IsText
    <3> QED BY <1>2, <2>3, <2>4, <3>1, <3>2, <3>3 DEF IsText
  <2>6. Rolled(x, u, n, p, s + 1, Normal)
    BY <2>2, <2>5, Settles
  <2>7. Rolled(w, u, n, p, s + 1, Normal)
    <3>1. \A z : [x.cur EXCEPT ![p] = z] = [w.cur EXCEPT ![p] = z]
      BY <1>2, <1>4, <2>3
    <3> QED BY <2>3, <2>6, <3>1 DEF Rolled
  <2> QED BY <1>3, <1>11, <2>7
<1> QED BY <1>7, <1>8, <1>9, <1>10, <1>11 DEF Controls, w, y, at

LEMMA StringTypes ==
    ASSUME NEW n, Fits(n), NEW t, IsText(t, n), NEW p \in PageNumbers, NEW s \in 0 .. PageSize - 1,
           t.cur[p] = CursorAt(s), NEW ch, NEW attr, p = active \/ ch \notin Controls,
           NEW u, u = IF ch \in Controls THEN video_tty(t, ch)
                      ELSE Advanced(t, p, [ch |-> ch, at |-> attr], attr)
    PROVE  \E b \in {Normal, attr} : Rolled(Printed(t, p, s, ch, attr), u, n, p, Next1(s, ch), b)
<1> DEFINE w == Printed(t, p, s, ch, attr)
<1>1. CASE ch \in Controls
  <2>1. p = active /\ u = video_tty(t, ch)
    BY <1>1
  <2>2. /\ w = t /\ Printed(t, active, s, ch, t.v[Place(active, s)].at) = t
    <3>1. ASSUME NEW at PROVE Printed(t, p, s, ch, at) = t
      <4>1. t = [v |-> t.v, cur |-> t.cur] /\ t.v = [i \in DOMAIN t.v |-> t.v[i]]
        BY DEF IsText, IsCells
      <4> QED BY <1>1, <4>1 DEF Printed
    <3> QED BY <2>1, <3>1
  <2>3. Rolled(t, u, n, p, Next1(s, ch), Normal)
    BY <2>1, <2>2, TtyTypes
  <2> QED BY <2>2, <2>3
<1>2. CASE ch \notin Controls
  <2> DEFINE cell == [ch |-> ch, at |-> attr]
             x == [v |-> WithCell(t.v, Place(p, s), cell), cur |-> [t.cur EXCEPT ![p].col = @ + 1]]
  <2>1. /\ Row(s) \in Nat /\ Col(s) \in Nat /\ CellAt(p, CursorAt(s)) = Place(p, s)
        /\ Next1(s, ch) = s + 1 /\ t.cur = [q \in PageNumbers |-> t.cur[q]]
        /\ \A q \in PageNumbers : t.cur[q] \in [row : Nat, col : Nat]
    BY <1>2, CursorIs, NextPlaces, TextSizes DEF IsText
  <2>2. IsText(w, n) /\ w.cur = t.cur /\ w.v = WithCell(t.v, Place(p, s), cell)
    BY <1>2, PrintedIs
  <2> HIDE DEF w
  <2>3. u = Settled(x, p, attr)
    <3>1. u = Advanced(t, p, cell, attr)
      BY <1>2
    <3> HIDE DEF cell
    <3> QED BY <2>1, <3>1 DEF Advanced
  <2>4. x.v = w.v /\ x.cur = [t.cur EXCEPT ![p] = [row |-> Row(s), col |-> Col(s) + 1]]
    <3>1. [CursorAt(s) EXCEPT !.col = @ + 1] = [row |-> Row(s), col |-> Col(s) + 1]
      BY DEF CursorAt
    <3> QED BY <2>1, <2>2, <3>1
  <2>5. x = [v |-> x.v, cur |-> x.cur]
    OBVIOUS
  <2> HIDE DEF x
  <2>6. IsText(x, n) /\ x.cur[p] = [row |-> Row(s), col |-> Col(s) + 1]
    <3>1. Row(s) \in Nat /\ Col(s) + 1 \in Nat
      BY <2>1
    <3>2. IsCells(x.v, n)
      BY <2>2, <2>4 DEF IsText
    <3> QED BY <2>1, <2>4, <2>5, <3>1, <3>2 DEF IsText
  <2>7. Rolled(x, u, n, p, s + 1, attr)
    BY <2>3, <2>6, Settles
  <2>8. Rolled(w, u, n, p, s + 1, attr)
    <3>1. \A z : [x.cur EXCEPT ![p] = z] = [w.cur EXCEPT ![p] = z]
      BY <2>1, <2>2, <2>4
    <3> QED BY <2>4, <2>7, <3>1 DEF Rolled
  <2> QED BY <2>1, <2>8 DEF w
<1> QED BY <1>1, <1>2

\* The shape is kept wherever the cursor is.
LEMMA SettledText ==
    ASSUME NEW n, Fits(n), NEW t, IsText(t, n), NEW p \in PageNumbers, NEW attr
    PROVE  IsText(Settled(t, p, attr), n)
<1> DEFINE u == Settled(t, p, attr)
           wrapped == IF t.cur[p].col >= screen_cols THEN [row |-> t.cur[p].row + 1, col |-> 0] ELSE t.cur[p]
<1>1. /\ t = [v |-> t.v, cur |-> t.cur] /\ IsCells(t.v, n) /\ t.cur = [q \in PageNumbers |-> t.cur[q]]
      /\ \A q \in PageNumbers : t.cur[q] \in [row : Nat, col : Nat]
  BY DEF IsText
<1>2. u = IF wrapped.row < Rows THEN [t EXCEPT !.cur[p] = wrapped]
          ELSE [v |-> video_scroll(t.v, "up", WholeScreen, attr),
                cur |-> [t.cur EXCEPT ![p] = [row |-> Rows - 1, col |-> wrapped.col]]]
  BY DEF Settled
<1>3. wrapped \in [row : Nat, col : Nat] /\ Rows - 1 \in Nat
  <2>1. t.cur[p].row + 1 \in Nat /\ t.cur[p] \in [row : Nat, col : Nat]
    BY <1>1
  <2> QED BY <2>1, TextSizes
<1> HIDE DEF wrapped, u
<1>4. [row |-> Rows - 1, col |-> wrapped.col] \in [row : Nat, col : Nat]
  BY <1>3
<1>5. IsCells(video_scroll(t.v, "up", WholeScreen, attr), n)
  BY <1>1, ScreenScrolled
<1>6. PICK z \in [row : Nat, col : Nat] :
        u.cur = [t.cur EXCEPT ![p] = z] /\ u = [v |-> u.v, cur |-> u.cur] /\ IsCells(u.v, n)
  <2>1. CASE wrapped.row < Rows
    BY <1>1, <1>2, <1>3, <2>1
  <2>2. CASE ~ (wrapped.row < Rows)
    BY <1>1, <1>2, <1>4, <1>5, <2>2
  <2> QED BY <2>1, <2>2
<1>7. u.cur = [q \in PageNumbers |-> u.cur[q]] /\ \A q \in PageNumbers : u.cur[q] \in [row : Nat, col : Nat]
  BY <1>1, <1>6
<1> QED BY <1>6, <1>7 DEF IsText, u

LEMMA AdvancedText ==
    ASSUME NEW n, Fits(n), NEW t, IsText(t, n), NEW p \in PageNumbers, NEW attr, NEW cell
    PROVE  IsText(Advanced(t, p, cell, attr), n)
<1> DEFINE x == [v |-> WithCell(t.v, CellAt(p, t.cur[p]), cell), cur |-> [t.cur EXCEPT ![p].col = @ + 1]]
<1>1. /\ t.v = [i \in 0 .. n - 1 |-> t.v[i]] /\ t.cur = [q \in PageNumbers |-> t.cur[q]]
      /\ \A q \in PageNumbers : t.cur[q] \in [row : Nat, col : Nat]
  BY DEF IsText, IsCells
<1>2. Advanced(t, p, cell, attr) = Settled(x, p, attr)
  BY DEF Advanced
<1>3. IsCells(x.v, n)
  BY <1>1 DEF WithCell, IsCells
<1>4. [t.cur[p] EXCEPT !.col = @ + 1] \in [row : Nat, col : Nat]
  BY <1>1
<1>5. x.cur = [t.cur EXCEPT ![p] = [t.cur[p] EXCEPT !.col = @ + 1]] /\ x = [v |-> x.v, cur |-> x.cur]
  OBVIOUS
<1> HIDE DEF x
<1>6. IsText(x, n)
  BY <1>1, <1>3, <1>4, <1>5 DEF IsText
<1> QED BY <1>2, <1>6, SettledText

LEMMA TtyText ==
    ASSUME NEW n, Fits(n), NEW t, IsText(t, n), active \in PageNumbers, NEW ch
    PROVE  IsText(video_tty(t, ch), n)
<1> DEFINE u == video_tty(t, ch)
           p == active
<1>1. /\ t = [v |-> t.v, cur |-> t.cur] /\ IsCells(t.v, n) /\ t.cur = [q \in PageNumbers |-> t.cur[q]]
      /\ \A q \in PageNumbers : t.cur[q] \in [row : Nat, col : Nat]
  BY DEF IsText
<1>2. t.cur[p] = [row |-> t.cur[p].row, col |-> t.cur[p].col] /\ t.cur[p].row \in Nat /\ t.cur[p].col \in Nat
      /\ Rows - 1 \in Nat
  BY <1>1, TextSizes
<1>3. ASSUME NEW z \in [row : Nat, col : Nat], NEW v, IsCells(v, n)
      PROVE  IsText([v |-> v, cur |-> [t.cur EXCEPT ![p] = z]], n)
  BY <1>1, <1>3 DEF IsText
<1>4. CASE ch = "BEL"
  BY <1>4 DEF video_tty
<1>5. CASE ch = "BS"
  <2> DEFINE z == [t.cur[p] EXCEPT !.col = IF @ > 0 THEN @ - 1 ELSE @]
  <2>1. u = [v |-> t.v, cur |-> [t.cur EXCEPT ![p] = z]]
    BY <1>1, <1>5 DEF video_tty
  <2>2. z \in [row : Nat, col : Nat]
    BY <1>2
  <2> QED BY <1>1, <1>3, <2>1, <2>2
<1>6. CASE ch = "CR"
  <2> DEFINE z == [t.cur[p] EXCEPT !.col = 0]
  <2>1. u = [v |-> t.v, cur |-> [t.cur EXCEPT ![p] = z]]
    BY <1>1, <1>6 DEF video_tty
  <2>2. z \in [row : Nat, col : Nat]
    BY <1>2
  <2> QED BY <1>1, <1>3, <2>1, <2>2
<1>7. CASE ch = "LF"
  <2> DEFINE z == [t.cur[p] EXCEPT !.row = @ + 1]
             x == [t.cur[p] EXCEPT !.row = Rows - 1]
  <2>1. u = IF t.cur[p].row + 1 < Rows THEN [v |-> t.v, cur |-> [t.cur EXCEPT ![p] = z]]
            ELSE [v |-> video_scroll(t.v, "up", WholeScreen, Normal), cur |-> [t.cur EXCEPT ![p] = x]]
    BY <1>1, <1>7 DEF video_tty
  <2>2. z \in [row : Nat, col : Nat] /\ x \in [row : Nat, col : Nat]
    BY <1>2
  <2>3. IsCells(video_scroll(t.v, "up", WholeScreen, Normal), n)
    BY <1>1, ScreenScrolled
  <2> HIDE DEF z, x
  <2> QED BY <1>1, <1>3, <2>1, <2>2, <2>3
<1>8. CASE ch \notin Controls
  <2>1. \E cell : u = Advanced(t, p, cell, Normal)
    BY <1>8 DEF video_tty, Controls
  <2> QED BY <2>1, AdvancedText
<1> QED BY <1>4, <1>5, <1>6, <1>7, <1>8 DEF Controls

-----------------------------------------------------------------------------
(* Paper. *)

\* Lines of the paper that are above the screen when position x is on it.
Over(x) == IF Row(x) < Rows THEN 0 ELSE Row(x) - (Rows - 1)
OnPage(x) == x - Over(x) * screen_cols

LEMMA OnPaper ==
    ASSUME NEW n, Fits(n), NEW x \in Nat
    PROVE  /\ Over(x) \in Nat /\ OnPage(x) \in 0 .. PageSize - 1
           /\ Row(OnPage(x)) = Row(x) - Over(x) /\ Col(OnPage(x)) = Col(x)
           /\ Over(x) * screen_cols \in Nat /\ x = OnPage(x) + Over(x) * screen_cols
<1>1. /\ Row(x) \in Nat /\ Rows \in Nat /\ Rows > 0 /\ screen_cols \in Nat /\ PageSize \in Nat
  BY RowAndCol, TextSizes
<1>2. Over(x) \in Nat /\ Row(x) - Over(x) \in 0 .. Rows - 1
  BY <1>1 DEF Over
<1>3. PICK d \in Int : d = - Over(x)
  BY <1>2
<1>4. /\ Row(x + d * screen_cols) = Row(x) + d /\ Col(x + d * screen_cols) = Col(x)
      /\ x + d * screen_cols \in Int /\ (Row(x) + d >= 0 => x + d * screen_cols \in Nat)
  BY <1>3, RowsAway
<1>5. OnPage(x) = x + d * screen_cols /\ Over(x) * screen_cols \in Nat
      /\ x = OnPage(x) + Over(x) * screen_cols
  <2>1. PICK a \in Nat : a = Over(x) * screen_cols
    BY <1>1, <1>2
  <2>2. d * screen_cols = - a
    BY <1>1, <1>2, <1>3, <2>1
  <2> QED BY <2>1, <2>2 DEF OnPage
<1>6. OnPage(x) \in Nat /\ Row(OnPage(x)) < Rows
  BY <1>1, <1>2, <1>3, <1>4, <1>5
<1>7. OnPage(x) < PageSize
  BY <1>6, OnFirstPage
<1> QED BY <1>1, <1>2, <1>3, <1>4, <1>5, <1>6, <1>7

\* The next position, on the paper and on the screen.
LEMMA NextOnPaper ==
    ASSUME NEW n, Fits(n), NEW x \in Nat, NEW ch, NEW y, y = Next1(OnPage(x), ch),
           NEW z, z = Next1(x, ch)
    PROVE  /\ z \in Nat /\ z = y + Over(x) * screen_cols /\ Row(x) <= Row(z)
           /\ y \in Nat
           /\ Over(z) = IF y < PageSize THEN Over(x) ELSE Over(x) + 1
           /\ CursorAt(OnPage(z)) = IF y < PageSize THEN CursorAt(y)
                                    ELSE [row |-> Rows - 1, col |-> Col(y)]
<1> DEFINE s == OnPage(x)
           k == Over(x)
<1>1. /\ k \in Nat /\ s \in 0 .. PageSize - 1 /\ Row(s) = Row(x) - k /\ Col(s) = Col(x)
      /\ k * screen_cols \in Nat /\ x = s + k * screen_cols
  BY OnPaper
<1>2. k = IF Row(x) < Rows THEN 0 ELSE Row(x) - (Rows - 1)
  BY DEF Over
<1> HIDE DEF s, k
<1>3. /\ y \in Nat /\ y < PageSize + screen_cols /\ Row(s) <= Row(y)
  BY <1>1, NextPlaces DEF s
<1>4. /\ PageSize \in Nat /\ screen_cols \in Nat /\ screen_cols > 0 /\ Rows \in Nat /\ Rows > 0
      /\ Row(x) \in Nat /\ Row(y) \in Nat /\ Col(y) \in 0 .. screen_cols - 1
      /\ Col(x) \in 0 .. screen_cols - 1
      /\ y = screen_cols * Row(y) + Col(y)
  BY <1>3, RowAndCol, TextSizes
<1>5. z = y + k * screen_cols
  <2>1. Col(s) = s % screen_cols /\ Col(x) = x % screen_cols /\ y = Next1(s, ch)
    BY DEF Col, s
  <2>2. PICK a \in Nat : a = k * screen_cols
    BY <1>1
  <2>3. x = s + a /\ s % screen_cols = x % screen_cols /\ s \in Int /\ s % screen_cols \in Int
    BY <1>1, <1>4, <2>1, <2>2
  <2>4. ASSUME NEW v
        PROVE  /\ ch = "BEL" => Next1(v, ch) = v
               /\ ch = "BS" => Next1(v, ch) = IF v % screen_cols > 0 THEN v - 1 ELSE v
               /\ ch = "CR" => Next1(v, ch) = v - (v % screen_cols)
               /\ ch = "LF" => Next1(v, ch) = v + screen_cols
               /\ ch \notin {"BEL", "BS", "CR", "LF"} => Next1(v, ch) = v + 1
    BY DEF Next1
  <2>5. z = y + a
    <3>1. /\ ch = "BEL" => z = x /\ y = s
          /\ ch = "BS" => /\ z = IF x % screen_cols > 0 THEN x - 1 ELSE x
                          /\ y = IF s % screen_cols > 0 THEN s - 1 ELSE s
          /\ ch = "CR" => z = x - (x % screen_cols) /\ y = s - (s % screen_cols)
          /\ ch = "LF" => z = x + screen_cols /\ y = s + screen_cols
          /\ ch \notin {"BEL", "BS", "CR", "LF"} => z = x + 1 /\ y = s + 1
      BY <2>1, <2>4
    <3> QED BY <1>4, <2>3, <3>1
  <2> QED BY <2>2, <2>5
<1>6. z \in Nat /\ Row(z) = Row(y) + k /\ Col(z) = Col(y)
  <2>1. /\ Row(y + k * screen_cols) = Row(y) + k /\ Col(y + k * screen_cols) = Col(y)
        /\ y + k * screen_cols \in Int /\ (Row(y) + k >= 0 => y + k * screen_cols \in Nat)
    BY <1>1, <1>3, RowsAway
  <2> QED BY <1>1, <1>4, <1>5, <2>1
<1>7. Row(y) < Rows <=> y < PageSize
  BY <1>3, OnFirstPage
<1>8. Row(y) <= Rows
  <2>1. CASE Row(y) < Rows
    BY <1>4, <2>1
  <2>2. CASE ~ (Row(y) < Rows)
    <3>1. y - screen_cols \in Int /\ y - screen_cols < PageSize
      BY <1>3, <1>4
    <3>2. PageSize >= screen_cols /\ y - screen_cols \in Nat
      <4>1. PageSize = screen_cols * Rows /\ y >= PageSize
        BY <1>3, <1>4, <1>7, <2>2, TextSizes
      <4>2. PICK r \in Nat : Rows = r + 1
        <5>1. Rows - 1 \in Nat /\ Rows = (Rows - 1) + 1
          BY <1>4
        <5> QED BY <5>1
      <4>3. screen_cols * (r + 1) = screen_cols * r + screen_cols /\ screen_cols * r \in Nat
        BY <1>4
      <4> QED BY <1>3, <1>4, <4>1, <4>2, <4>3
    <3>3. /\ Row(y + (-1) * screen_cols) = Row(y) - 1
      <4>1. -1 \in Int /\ Row(y) + (-1) = Row(y) - 1
        BY <1>4
      <4> QED BY <1>3, <4>1, RowsAway
    <3>4. y + (-1) * screen_cols = y - screen_cols
      BY <1>3, <1>4
    <3>5. Row(y - screen_cols) < Rows
      BY <3>1, <3>2, OnFirstPage
    <3> QED BY <1>4, <3>3, <3>4, <3>5
  <2> QED BY <2>1, <2>2
<1>9. Over(z) = IF y < PageSize THEN k ELSE k + 1
  BY <1>1, <1>2, <1>3, <1>4, <1>6, <1>7, <1>8 DEF Over
<1>10. Row(OnPage(z)) = Row(z) - Over(z) /\ Col(OnPage(z)) = Col(z)
  BY <1>6, OnPaper
<1>11. Row(OnPage(z)) = IF y < PageSize THEN Row(y) ELSE Rows - 1
  BY <1>1, <1>3, <1>4, <1>6, <1>7, <1>8, <1>9, <1>10
<1>12. CursorAt(OnPage(z)) = IF y < PageSize THEN CursorAt(y) ELSE [row |-> Rows - 1, col |-> Col(y)]
  BY <1>6, <1>10, <1>11 DEF CursorAt
<1>13. Row(x) <= Row(z)
  BY <1>1, <1>3, <1>4, <1>6
<1> QED BY <1>3, <1>5, <1>6, <1>9, <1>12, <1>13 DEF k

\* A character is typed at position x, and the next one will be at z.
LEMMA OneCharacter ==
    ASSUME NEW n, Fits(n), NEW t, IsText(t, n), NEW p \in PageNumbers, NEW x \in Nat, NEW ch,
           NEW at, NEW b, NEW z, z = Next1(x, ch),
           NEW u, Rolled(Printed(t, p, OnPage(x), ch, at), u, n, p, Next1(OnPage(x), ch), b)
    PROVE  /\ IsText(u, n) /\ u.cur[p] = CursorAt(OnPage(z)) /\ z \in Nat /\ Row(x) <= Row(z)
           /\ \A q \in PageNumbers \ {p} : u.cur[q] = t.cur[q]
           /\ Over(z) = Over(x) \/ Over(z) = Over(x) + 1
           /\ p = 0 \/ Over(z) = 0 =>
                /\ \A i \in 0 .. PageSize - 1 :
                      u.v[Place(p, i)] =
                        IF i + Over(z) * screen_cols = x /\ ch \notin Controls THEN [ch |-> ch, at |-> at]
                        ELSE IF Over(z) = Over(x) THEN t.v[Place(p, i)]
                        ELSE IF i + screen_cols < PageSize THEN t.v[Place(p, i + screen_cols)]
                        ELSE Blank(b)
                /\ \A i \in 0 .. n - 1 : i \div PageSize # p => u.v[i] = t.v[i]
<1> DEFINE s == OnPage(x)
           y == Next1(s, ch)
           w == Printed(t, p, s, ch, at)
           k == Over(x)
<1>1. /\ k \in Nat /\ s \in 0 .. PageSize - 1 /\ k * screen_cols \in Nat /\ x = s + k * screen_cols
  BY OnPaper
<1>2. /\ z \in Nat /\ Row(x) <= Row(z) /\ y \in Nat
      /\ Over(z) = IF y < PageSize THEN k ELSE k + 1
      /\ CursorAt(OnPage(z)) = IF y < PageSize THEN CursorAt(y) ELSE [row |-> Rows - 1, col |-> Col(y)]
  BY NextOnPaper
<1> HIDE DEF y, w, s, k
<1>3. /\ w.cur = t.cur
      /\ \A i \in 0 .. n - 1 : w.v[i] = IF i = Place(p, s) /\ ch \notin Controls
                                        THEN [ch |-> ch, at |-> at] ELSE t.v[i]
  BY <1>1, PrintedIs DEF w
<1>4. /\ IsText(u, n) /\ u.cur = [w.cur EXCEPT ![p] = CursorAt(OnPage(z))]
      /\ \A i \in 0 .. n - 1 :
            u.v[i] = IF y < PageSize \/ i >= PageSize THEN w.v[i]
                     ELSE IF i + screen_cols < PageSize THEN w.v[i + screen_cols] ELSE Blank(b)
  BY <1>2 DEF Rolled, w, y, s
<1>5. u.cur[p] = CursorAt(OnPage(z)) /\ \A q \in PageNumbers \ {p} : u.cur[q] = t.cur[q]
  BY <1>3, <1>4 DEF IsText
<1>6. /\ PageSize \in Nat /\ PageSize > 0 /\ PageSize <= n /\ n \in Nat /\ screen_cols \in Nat
      /\ screen_cols > 0
      /\ p \in Nat
  BY TextSizes DEF PageNumbers
<1>7. ASSUME NEW i \in 0 .. PageSize - 1
      PROVE  Place(p, i) \in 0 .. n - 1 /\ Place(p, i) \div PageSize = p /\ (i = s <=> Place(p, i) = Place(p, s))
  <2>1. Place(p, i) \in 0 .. n - 1 /\ Place(p, i) \div PageSize = p
    BY PlaceIs
  <2>2. PICK a \in Int : a = p * PageSize
    BY <1>6
  <2>3. i = s <=> Place(p, i) = Place(p, s)
    BY <1>1, <2>2 DEF Place
  <2> QED BY <2>1, <2>3
<1>8. ASSUME p = 0 \/ Over(z) = 0, NEW i \in 0 .. PageSize - 1
      PROVE  u.v[Place(p, i)] =
                IF i + Over(z) * screen_cols = x /\ ch \notin Controls THEN [ch |-> ch, at |-> at]
                ELSE IF Over(z) = k THEN t.v[Place(p, i)]
                ELSE IF i + screen_cols < PageSize THEN t.v[Place(p, i + screen_cols)]
                ELSE Blank(b)
  <2>1. CASE y < PageSize
    <3>1. Over(z) = k /\ (i + Over(z) * screen_cols = x <=> i = s)
      <4>1. PICK a \in Nat : a = k * screen_cols
        BY <1>1
      <4>2. x = s + a /\ i \in Int /\ s \in Int /\ Over(z) = k
        BY <1>1, <1>2, <2>1, <4>1
      <4> QED BY <4>1, <4>2
    <3>2. u.v[Place(p, i)] = w.v[Place(p, i)]
      BY <1>4, <1>7, <2>1
    <3> QED BY <1>3, <1>7, <3>1, <3>2
  <2>2. CASE ~ (y < PageSize)
    <3>1. Over(z) = k + 1 /\ p = 0
      BY <1>1, <1>2, <1>8, <2>2
    <3>2. \A j \in 0 .. PageSize - 1 : Place(p, j) = j
      BY <1>6, <3>1 DEF Place
    <3>3. Over(z) # k /\ (i + Over(z) * screen_cols = x <=> i + screen_cols = s)
      <4>1. PICK a \in Nat : a = k * screen_cols
        BY <1>1
      <4>2. (k + 1) * screen_cols = a + screen_cols
        BY <1>1, <1>6, <4>1
      <4>3. x = s + a /\ i \in Int /\ s \in Int
        BY <1>1, <4>1
      <4> QED BY <1>1, <1>6, <3>1, <4>2, <4>3
    <3>4. /\ i \in 0 .. n - 1 /\ i < PageSize /\ Place(p, i) = i
          /\ Place(p, s) = s /\ s < PageSize
      BY <1>1, <1>6, <3>2
    <3>5. u.v[i] = IF i + screen_cols < PageSize THEN w.v[i + screen_cols] ELSE Blank(b)
      BY <1>4, <1>6, <2>2, <3>4
    <3>6. CASE i + screen_cols < PageSize
      <4>1. i + screen_cols \in 0 .. PageSize - 1 /\ i + screen_cols \in 0 .. n - 1
        BY <1>6, <3>6
      <4>2. Place(p, i + screen_cols) = i + screen_cols
        BY <3>2, <4>1
      <4> QED BY <1>3, <3>3, <3>4, <3>5, <3>6, <4>1, <4>2
    <3>7. CASE ~ (i + screen_cols < PageSize)
      <4>1. i + screen_cols # s
        BY <1>1, <1>6, <3>7
      <4> QED BY <3>3, <3>4, <3>5, <3>7, <4>1
    <3> QED BY <3>6, <3>7
  <2> QED BY <2>1, <2>2
<1>9. ASSUME p = 0 \/ Over(z) = 0, NEW i \in 0 .. n - 1, i \div PageSize # p
      PROVE  u.v[i] = t.v[i]
  <2>1. i # Place(p, s)
    BY <1>1, <1>7, <1>9
  <2>2. y < PageSize \/ i >= PageSize
    <3>1. CASE p = 0
      <4>1. i < PageSize => i \div PageSize = 0
        <5>1. i < PageSize => PageSize * 0 + i = i /\ i \in 0 .. PageSize - 1 /\ 0 \in Int
          BY <1>6
        <5>2. i < PageSize => (PageSize * 0 + i) \div PageSize = 0
          BY <1>6, <5>1, Quotient
        <5> QED BY <5>1, <5>2
      <4> QED BY <1>6, <1>9, <3>1, <4>1
    <3>2. CASE Over(z) = 0
      BY <1>1, <1>2, <3>2
    <3> QED BY <1>9, <3>1, <3>2
  <2> QED BY <1>3, <1>4, <2>1, <2>2
<1>10. Over(z) = k \/ Over(z) = k + 1
  BY <1>2
<1> QED BY <1>2, <1>4, <1>5, <1>8, <1>9, <1>10 DEF k

\* The paper that the screen shows: V is the memory when the call req begins, and P
\* the positions before and after each of its characters; m have been printed.
OldCell(V, p, v) == IF v < PageSize THEN V[Place(p, v)] ELSE Blank(Normal)
PaperAt(req, V, v) == IF req.keeps THEN OldCell(V, req.page, v).at ELSE req.attr
Writers(req, P, m, v) == {l \in 1 .. m : req.text[l] \notin Controls /\ P[l - 1] = v}
ShowsCell(z, req, V, P, m, v) ==
    IF Writers(req, P, m, v) # {}
    THEN \E l \in Writers(req, P, m, v) : /\ \A j \in Writers(req, P, m, v) : j <= l
                                        /\ z = [ch |-> req.text[l], at |-> PaperAt(req, V, v)]
    ELSE IF v < PageSize THEN z = OldCell(V, req.page, v)
    ELSE z.ch = " " /\ z.at \in {Normal, PaperAt(req, V, v)}
ShowsPaper(t, n, req, V, C, P, m) ==
    /\ IsText(t, n)
    /\ t.cur[req.page] = CursorAt(OnPage(P[m]))
    /\ \A q \in PageNumbers \ {req.page} : t.cur[q] = C[q]
    /\ \A l \in 0 .. m : P[l] \in Nat /\ Row(P[l]) <= Row(P[m])
    /\ req.page = 0 \/ Over(P[m]) = 0 =>
         /\ \A i \in 0 .. PageSize - 1 :
               ShowsCell(t.v[Place(req.page, i)], req, V, P, m, i + Over(P[m]) * screen_cols)
         /\ \A i \in 0 .. n - 1 : i \div PageSize # req.page => t.v[i] = V[i]

\* A call that keeps attributes keeps them on the paper.
LEMMA KeepsAttributes ==
    ASSUME NEW req, req.keeps, NEW V, NEW P, NEW m, NEW v, NEW z, ShowsCell(z, req, V, P, m, v)
    PROVE  z.at = PaperAt(req, V, v)
<1> DEFINE a == PaperAt(req, V, v)
           W == Writers(req, P, m, v)
<1>1. CASE W # {}
  <2>1. PICK l \in W : z = [ch |-> req.text[l], at |-> a]
    BY <1>1 DEF ShowsCell
  <2> HIDE DEF a
  <2> QED BY <2>1 DEF a
<1>2. CASE W = {}
  <2>1. a = OldCell(V, req.page, v).at
    BY DEF PaperAt
  <2>2. CASE v < PageSize
    BY <1>2, <2>1, <2>2 DEF ShowsCell
  <2>3. CASE ~ (v < PageSize)
    <3>1. a = Normal
      BY <2>1, <2>3 DEF OldCell, Blank
    <3>2. z.at \in {Normal, a}
      BY <1>2, <2>3 DEF ShowsCell
    <3> QED BY <3>1, <3>2
  <2> QED BY <2>2, <2>3
<1> QED BY <1>1, <1>2

\* The writers of a position, one character on.
LEMMA NextWriters ==
    ASSUME NEW req, NEW P, NEW m \in Nat, NEW v
    PROVE  /\ req.text[m + 1] \notin Controls /\ P[m] = v =>
                /\ m + 1 \in Writers(req, P, m + 1, v)
                /\ \A j \in Writers(req, P, m + 1, v) : j <= m + 1
           /\ ~ (req.text[m + 1] \notin Controls /\ P[m] = v) =>
                Writers(req, P, m + 1, v) = Writers(req, P, m, v)
<1>1. /\ m + 1 \in 1 .. m + 1 /\ (m + 1) - 1 = m
      /\ \A l \in 1 .. m + 1 : l <= m + 1 /\ (l # m + 1 => l \in 1 .. m)
      /\ \A l \in 1 .. m : l \in 1 .. m + 1 /\ l # m + 1
  OBVIOUS
<1> QED BY <1>1, Zenon DEF Writers

\* Positions are never behind the row of the next one.
LEMMA LatestRow ==
    ASSUME NEW n, Fits(n), NEW req, NEW P, NEW m \in Nat, NEW v \in Nat,
           \A l \in 0 .. m : P[l] \in Nat /\ Row(P[l]) <= Row(P[m]), Row(P[m]) < Row(v)
    PROVE  Writers(req, P, m, v) = {}
<1> SUFFICES ASSUME NEW l \in Writers(req, P, m, v) PROVE FALSE
  OBVIOUS
<1>1. l \in 1 .. m /\ P[l - 1] = v
  BY DEF Writers
<1>2. l - 1 \in 0 .. m /\ m \in 0 .. m
  BY <1>1
<1>3. Row(v) <= Row(P[m]) /\ P[m] \in Nat
  BY <1>1, <1>2
<1>4. Row(v) \in Nat /\ Row(P[m]) \in Nat
  BY <1>3, RowAndCol, SMTT(30)
<1> QED BY <1>3, <1>4

LEMMA PaperStep ==
    ASSUME NEW n, Fits(n), NEW req, NEW V, NEW C, NEW P, NEW m \in Nat, NEW t,
           ShowsPaper(t, n, req, V, C, P, m), req.page \in PageNumbers,
           NEW ch, ch = req.text[m + 1], P[m + 1] = Next1(P[m], ch),
           NEW at, at = IF req.keeps THEN t.v[Place(req.page, OnPage(P[m]))].at ELSE req.attr,
           NEW b, b = Normal \/ (~ req.keeps /\ b = req.attr),
           NEW u, Rolled(Printed(t, req.page, OnPage(P[m]), ch, at), u, n, req.page, Next1(OnPage(P[m]), ch), b)
    PROVE  ShowsPaper(u, n, req, V, C, P, m + 1)
<1> DEFINE p == req.page
           x == P[m]
           z == P[m + 1]
<1>1. /\ IsText(t, n) /\ \A l \in 0 .. m : P[l] \in Nat /\ Row(P[l]) <= Row(x)
      /\ \A q \in PageNumbers \ {p} : t.cur[q] = C[q]
  BY DEF ShowsPaper
<1>2. p = 0 \/ Over(x) = 0 =>
         /\ \A i \in 0 .. PageSize - 1 :
               ShowsCell(t.v[Place(p, i)], req, V, P, m, i + Over(x) * screen_cols)
         /\ \A i \in 0 .. n - 1 : i \div PageSize # p => t.v[i] = V[i]
  BY DEF ShowsPaper
<1>3. x \in Nat
  <2>1. m \in 0 .. m
    OBVIOUS
  <2> QED BY <1>1, <2>1
<1>4. p \in PageNumbers /\ z = Next1(x, ch) /\ Rolled(Printed(t, p, OnPage(x), ch, at), u, n, p, Next1(OnPage(x), ch), b)
  OBVIOUS
<1>9. p = req.page /\ x = P[m] /\ z = P[m + 1]
  BY SMTT(30)
<1> HIDE DEF p, x, z
<1>5. /\ IsText(u, n) /\ u.cur[p] = CursorAt(OnPage(z)) /\ z \in Nat /\ Row(x) <= Row(z)
      /\ \A q \in PageNumbers \ {p} : u.cur[q] = t.cur[q]
      /\ Over(z) = Over(x) \/ Over(z) = Over(x) + 1
      /\ p = 0 \/ Over(z) = 0 =>
           /\ \A i \in 0 .. PageSize - 1 :
                 u.v[Place(p, i)] =
                   IF i + Over(z) * screen_cols = x /\ ch \notin Controls THEN [ch |-> ch, at |-> at]
                   ELSE IF Over(z) = Over(x) THEN t.v[Place(p, i)]
                   ELSE IF i + screen_cols < PageSize THEN t.v[Place(p, i + screen_cols)]
                   ELSE Blank(b)
           /\ \A i \in 0 .. n - 1 : i \div PageSize # p => u.v[i] = t.v[i]
  BY <1>1, <1>3, <1>4, OneCharacter, SMTT(30)
<1>6. \A l \in 0 .. m + 1 : P[l] \in Nat /\ Row(P[l]) <= Row(z)
  <2> SUFFICES ASSUME NEW l \in 0 .. m + 1 PROVE P[l] \in Nat /\ Row(P[l]) <= Row(z)
    OBVIOUS
  <2>1. CASE l = m + 1
    <3>1. Row(z) \in Nat
      BY <1>5, RowAndCol
    <3> QED BY <1>5, <1>9, <2>1, <3>1
  <2>2. CASE l # m + 1
    <3>1. l \in 0 .. m
      BY <2>2
    <3>2. P[l] \in Nat /\ Row(P[l]) <= Row(x)
      BY <1>1, <3>1
    <3>3. Row(P[l]) \in Nat /\ Row(x) \in Nat /\ Row(z) \in Nat
      BY <1>3, <1>5, <3>2, RowAndCol
    <3> QED BY <1>5, <3>2, <3>3
  <2> QED BY <2>1, <2>2
<1>7. ASSUME p = 0 \/ Over(z) = 0
      PROVE  /\ \A i \in 0 .. PageSize - 1 :
                   ShowsCell(u.v[Place(p, i)], req, V, P, m + 1, i + Over(z) * screen_cols)
             /\ \A i \in 0 .. n - 1 : i \div PageSize # p => u.v[i] = V[i]
  <2>1. /\ Over(x) \in Nat /\ OnPage(x) \in 0 .. PageSize - 1 /\ x = OnPage(x) + Over(x) * screen_cols
        /\ Over(x) * screen_cols \in Nat
    BY <1>3, OnPaper
  <2>2. Over(z) \in Nat /\ Over(z) * screen_cols \in Nat
    BY <1>5, OnPaper
  <2>3. p = 0 \/ Over(x) = 0
    BY <1>5, <1>7, <2>1, <2>2
  <2>4. /\ \A i \in 0 .. PageSize - 1 :
              ShowsCell(t.v[Place(p, i)], req, V, P, m, i + Over(x) * screen_cols)
        /\ \A i \in 0 .. n - 1 : i \div PageSize # p => t.v[i] = V[i]
    BY <1>2, <2>3
  <2>5. at = PaperAt(req, V, x)
    <3>1. CASE req.keeps
      <4>1. ShowsCell(t.v[Place(p, OnPage(x))], req, V, P, m, x)
        BY <2>1, <2>4
      <4>2. t.v[Place(p, OnPage(x))].at = PaperAt(req, V, x)
        BY <3>1, <4>1, KeepsAttributes
      <4> QED BY <1>9, <3>1, <4>2
    <3>2. CASE ~ req.keeps
      BY <3>2 DEF PaperAt
    <3> QED BY <3>1, <3>2
  <2>6. ASSUME NEW i \in 0 .. PageSize - 1
        PROVE  ShowsCell(u.v[Place(p, i)], req, V, P, m + 1, i + Over(z) * screen_cols)
    <3>1. PICK v \in Nat : v = i + Over(z) * screen_cols
      BY <2>2
    <3>2. u.v[Place(p, i)] =
             IF v = x /\ ch \notin Controls THEN [ch |-> ch, at |-> at]
             ELSE IF Over(z) = Over(x) THEN t.v[Place(p, i)]
             ELSE IF i + screen_cols < PageSize THEN t.v[Place(p, i + screen_cols)]
             ELSE Blank(b)
      BY <1>5, <1>7, <3>1
    <3>3. CASE v = x /\ ch \notin Controls
      <4>1. /\ m + 1 \in Writers(req, P, m + 1, v) /\ \A j \in Writers(req, P, m + 1, v) : j <= m + 1
        BY <1>9, <3>3, NextWriters
      <4>2. u.v[Place(p, i)] = [ch |-> req.text[m + 1], at |-> PaperAt(req, V, v)]
        BY <2>5, <3>2, <3>3
      <4> QED BY <3>1, <4>1, <4>2 DEF ShowsCell
    <3>4. CASE ~ (v = x /\ ch \notin Controls)
      <4>1. Writers(req, P, m + 1, v) = Writers(req, P, m, v)
        BY <1>9, <3>4, NextWriters
      <4>2. ShowsCell(u.v[Place(p, i)], req, V, P, m, v)
        <5>1. CASE Over(z) = Over(x)
          BY <2>4, <3>1, <3>2, <3>4, <5>1
        <5>2. CASE Over(z) # Over(x)
          <6>0. /\ Over(z) = Over(x) + 1 /\ screen_cols \in Nat /\ screen_cols > 0 /\ Rows \in Nat
                /\ Row(i) \in Nat /\ PageSize \in Nat /\ Row(x) \in Nat
            BY <1>3, <1>5, <5>2, RowAndCol, TextSizes
          <6>1. CASE i + screen_cols < PageSize
            <7>1. i + screen_cols \in 0 .. PageSize - 1
              BY <6>0, <6>1
            <7>2. i + screen_cols + Over(x) * screen_cols = v
              <8>1. PICK a \in Nat : a = Over(x) * screen_cols
                BY <2>1
              <8>2. (Over(x) + 1) * screen_cols = a + screen_cols
                BY <2>1, <6>0, <8>1
              <8> QED BY <3>1, <6>0, <8>1, <8>2
            <7>3. ShowsCell(t.v[Place(p, i + screen_cols)], req, V, P, m, i + screen_cols + Over(x) * screen_cols)
              BY <2>4, <7>1
            <7> QED BY <3>2, <3>4, <5>2, <6>1, <7>2, <7>3
          <6>2. CASE ~ (i + screen_cols < PageSize)
            <7>1. Row(i) + 1 >= Rows
              <8>1. Row(i + 1 * screen_cols) = Row(i) + 1
                BY RowsAway
              <8>2. i + 1 * screen_cols = i + screen_cols /\ i + screen_cols \in Nat
                BY <6>0
              <8>3. ~ (Row(i + screen_cols) < Rows)
                BY <6>2, <8>2, OnFirstPage
              <8> QED BY <6>0, <8>1, <8>2, <8>3
            <7>2. Row(v) = Row(i) + Over(z)
              <8>1. Row(i + Over(z) * screen_cols) = Row(i) + Over(z)
                BY <2>2, RowsAway
              <8> QED BY <3>1, <8>1
            <7>3. Row(x) <= Over(x) + Rows - 1
              BY <2>1, <6>0 DEF Over
            <7>4. Row(x) < Row(v) /\ ~ (Row(v) < Rows)
              BY <2>1, <6>0, <7>1, <7>2, <7>3
            <7>5. Writers(req, P, m, v) = {}
              BY <1>1, <1>9, <7>4, LatestRow
            <7>6. ~ (v < PageSize)
              BY <7>4, OnFirstPage
            <7>7. u.v[Place(p, i)] = Blank(b)
              BY <3>2, <3>4, <5>2, <6>2
            <7>8. b \in {Normal, PaperAt(req, V, v)}
              BY DEF PaperAt
            <7>9. Blank(b).ch = " " /\ Blank(b).at = b
              BY DEF Blank
            <7>10. ShowsCell(Blank(b), req, V, P, m, v)
              BY <7>5, <7>6, <7>8, <7>9 DEF ShowsCell
            <7> QED BY <7>7, <7>10
          <6> QED BY <6>1, <6>2
        <5> QED BY <5>1, <5>2
      <4> QED BY <3>1, <4>1, <4>2 DEF ShowsCell
    <3> QED BY <3>3, <3>4
  <2>7. \A i \in 0 .. n - 1 : i \div PageSize # p => u.v[i] = V[i]
    BY <1>5, <1>7, <2>4
  <2> QED BY <2>6, <2>7
<1>8. \A q \in PageNumbers \ {p} : u.cur[q] = C[q]
  BY <1>1, <1>5, <1>9
<1> QED BY <1>5, <1>6, <1>7, <1>8, <1>9 DEF ShowsPaper

-----------------------------------------------------------------------------
(* Calls, one character after the other. *)

StringOne(t, page, attr, ch) ==
    IF ch \in Controls THEN video_tty(t, ch) ELSE Advanced(t, page, [ch |-> ch, at |-> attr], attr)
RunOne(t, ch, attr) ==
    [v |-> WithCell(t.v, CellAt(active, t.pos),
                    [ch |-> ch,
                     at |-> IF attr = Keep /\ CellAt(active, t.pos) \in DOMAIN t.v
                            THEN t.v[CellAt(active, t.pos)].at ELSE attr]),
     pos |-> IF t.pos.col + 1 < screen_cols THEN [t.pos EXCEPT !.col = @ + 1]
             ELSE [row |-> Lesser(t.pos.row + 1, Rows - 1), col |-> 0]]
StepOf(kind, req, e, k) ==
    IF kind = "typing" THEN video_tty(e, req.text[k])
    ELSE IF kind = "string" THEN StringOne(e, req.page, req.attr, req.text[k])
    ELSE IF kind = "paper" THEN Next1(e, req.text[k])
    ELSE RunOne(e, req.ch, req.attr)

\* The functions that the calls define by recursion.
HasSteps(kind, req, a, n) ==
    \E f : f = [k \in 0 .. n |-> IF k = 0 THEN a ELSE StepOf(kind, req, f[k - 1], k)]

LEMMA StepsExist ==
    ASSUME NEW kind, NEW req, NEW a, NEW n \in Nat
    PROVE  HasSteps(kind, req, a, n)
<1> DEFINE Upto(m) == \E f : f = [k \in 0 .. m |-> IF k = 0 THEN a ELSE StepOf(kind, req, f[k - 1], k)]
           S == {m \in Nat : Upto(m)}
<1>1. Upto(0)
  <2> DEFINE f == [k \in 0 .. 0 |-> a]
  <2>1. f = [k \in 0 .. 0 |-> IF k = 0 THEN a ELSE StepOf(kind, req, f[k - 1], k)]
    OBVIOUS
  <2> QED BY <2>1
<1>2. ASSUME NEW m \in Nat, Upto(m) PROVE Upto(m + 1)
  <2>1. PICK f : f = [k \in 0 .. m |-> IF k = 0 THEN a ELSE StepOf(kind, req, f[k - 1], k)]
    BY <1>2
  <2> DEFINE h == [k \in 0 .. m + 1 |-> IF k <= m THEN f[k] ELSE StepOf(kind, req, f[m], k)]
  <2>2. h = [k \in 0 .. m + 1 |-> IF k = 0 THEN a ELSE StepOf(kind, req, h[k - 1], k)]
    <3>1. ASSUME NEW k \in 0 .. m + 1
          PROVE  h[k] = IF k = 0 THEN a ELSE StepOf(kind, req, h[k - 1], k)
      <4>1. CASE k <= m
        BY <2>1, <4>1
      <4>2. CASE k = m + 1
        BY <4>2
      <4> QED BY <4>1, <4>2
    <3> HIDE DEF h
    <3>2. h = [k \in 0 .. m + 1 |-> h[k]]
      BY DEF h
    <3> QED BY <3>1, <3>2
  <2> HIDE DEF h
  <2> QED BY <2>2
<1> HIDE DEF Upto
<1>3. \A m \in Nat : m \in S
  <2>1. 0 \in S /\ \A m \in Nat : m \in S => m + 1 \in S
    BY <1>1, <1>2
  <2> HIDE DEF S
  <2> QED BY <2>1, Induction
<1>4. Upto(n)
  BY <1>3
<1> QED BY <1>4 DEF Upto, HasSteps

TypingOf(text, a, m) ==
    CHOOSE g : g = [k \in 0 .. m |-> IF k = 0 THEN a ELSE video_tty(g[k - 1], text[k])]

LEMMA TypingIs ==
    ASSUME NEW text, NEW a, NEW m \in Nat,
           NEW f, f = TypingOf(text, a, m)
    PROVE  f[0] = a /\ \A k \in 1 .. m : f[k] = video_tty(f[k - 1], text[k])
<1>1. PICK req, kind : req = [text |-> text] /\ kind = "typing"
  OBVIOUS
<1>2. PICK h : h = [k \in 0 .. m |-> IF k = 0 THEN a ELSE StepOf(kind, req, h[k - 1], k)]
  <2>1. HasSteps(kind, req, a, m)
    BY StepsExist
  <2> QED BY <2>1 DEF HasSteps
<1>3. \A e, k : StepOf(kind, req, e, k) = video_tty(e, text[k])
  BY <1>1 DEF StepOf
<1>4. h = [k \in 0 .. m |-> IF k = 0 THEN a ELSE video_tty(h[k - 1], text[k])]
  BY <1>2, <1>3
<1>5. f = [k \in 0 .. m |-> IF k = 0 THEN a ELSE video_tty(f[k - 1], text[k])]
  BY <1>4 DEF TypingOf
<1>6. 0 \in 0 .. m /\ \A k \in 1 .. m : k \in 0 .. m /\ k # 0
  OBVIOUS
<1> QED BY <1>5, <1>6, Zenon

StringOf(text, page, attr, a, m) ==
    CHOOSE g : g = [k \in 0 .. m |-> IF k = 0 THEN a ELSE StringOne(g[k - 1], page, attr, text[k])]

LEMMA StringIs ==
    ASSUME NEW text, NEW page, NEW attr, NEW a, NEW m \in Nat,
           NEW f, f = StringOf(text, page, attr, a, m)
    PROVE  f[0] = a /\ \A k \in 1 .. m : f[k] = StringOne(f[k - 1], page, attr, text[k])
<1>1. PICK req, kind : req = [text |-> text, page |-> page, attr |-> attr] /\ kind = "string"
  OBVIOUS
<1>2. PICK h : h = [k \in 0 .. m |-> IF k = 0 THEN a ELSE StepOf(kind, req, h[k - 1], k)]
  <2>1. HasSteps(kind, req, a, m)
    BY StepsExist
  <2> QED BY <2>1 DEF HasSteps
<1>3. \A e, k : StepOf(kind, req, e, k) = StringOne(e, page, attr, text[k])
  BY <1>1 DEF StepOf
<1>4. h = [k \in 0 .. m |-> IF k = 0 THEN a ELSE StringOne(h[k - 1], page, attr, text[k])]
  BY <1>2, <1>3
<1>5. f = [k \in 0 .. m |-> IF k = 0 THEN a ELSE StringOne(f[k - 1], page, attr, text[k])]
  BY <1>4 DEF StringOf
<1>6. 0 \in 0 .. m /\ \A k \in 1 .. m : k \in 0 .. m /\ k # 0
  OBVIOUS
<1> QED BY <1>5, <1>6, Zenon

PaperOf(text, a, m) ==
    CHOOSE g : g = [k \in 0 .. m |-> IF k = 0 THEN a ELSE Next1(g[k - 1], text[k])]

LEMMA PaperIs ==
    ASSUME NEW text, NEW a, NEW m \in Nat,
           NEW f, f = PaperOf(text, a, m)
    PROVE  DOMAIN f = 0 .. m /\ f[0] = a /\ \A k \in 1 .. m : f[k] = Next1(f[k - 1], text[k])
<1>1. PICK req, kind : req = [text |-> text] /\ kind = "paper"
  OBVIOUS
<1>2. PICK h : h = [k \in 0 .. m |-> IF k = 0 THEN a ELSE StepOf(kind, req, h[k - 1], k)]
  <2>1. HasSteps(kind, req, a, m)
    BY StepsExist
  <2> QED BY <2>1 DEF HasSteps
<1>3. \A e, k : StepOf(kind, req, e, k) = Next1(e, text[k])
  BY <1>1 DEF StepOf
<1>4. h = [k \in 0 .. m |-> IF k = 0 THEN a ELSE Next1(h[k - 1], text[k])]
  BY <1>2, <1>3
<1>5. f = [k \in 0 .. m |-> IF k = 0 THEN a ELSE Next1(f[k - 1], text[k])]
  BY <1>4 DEF PaperOf
<1>6. 0 \in 0 .. m /\ \A k \in 1 .. m : k \in 0 .. m /\ k # 0
  OBVIOUS
<1>7. DOMAIN f = 0 .. m
  BY <1>5
<1> QED BY <1>5, <1>6, <1>7, Zenon

RunOf(ch, attr, a, m) ==
    CHOOSE g : g = [k \in 0 .. m |-> IF k = 0 THEN a ELSE RunOne(g[k - 1], ch, attr)]

LEMMA RunIs ==
    ASSUME NEW ch, NEW attr, NEW a, NEW m \in Nat,
           NEW f, f = RunOf(ch, attr, a, m)
    PROVE  f[0] = a /\ \A k \in 1 .. m : f[k] = RunOne(f[k - 1], ch, attr)
<1>1. PICK req, kind : req = [ch |-> ch, attr |-> attr] /\ kind = "run"
  OBVIOUS
<1>2. PICK h : h = [k \in 0 .. m |-> IF k = 0 THEN a ELSE StepOf(kind, req, h[k - 1], k)]
  <2>1. HasSteps(kind, req, a, m)
    BY StepsExist
  <2> QED BY <2>1 DEF HasSteps
<1>3. \A e, k : StepOf(kind, req, e, k) = RunOne(e, ch, attr)
  BY <1>1 DEF StepOf
<1>4. h = [k \in 0 .. m |-> IF k = 0 THEN a ELSE RunOne(h[k - 1], ch, attr)]
  BY <1>2, <1>3
<1>5. f = [k \in 0 .. m |-> IF k = 0 THEN a ELSE RunOne(f[k - 1], ch, attr)]
  BY <1>4 DEF RunOf
<1>6. 0 \in 0 .. m /\ \A k \in 1 .. m : k \in 0 .. m /\ k # 0
  OBVIOUS
<1> QED BY <1>5, <1>6, Zenon

\* Whatever is typed, the screen keeps its shape.
Types(T, L, p, attr, text) ==
    \A k \in 1 .. L : T[k] = video_tty(T[k - 1], text[k]) \/ T[k] = StringOne(T[k - 1], p, attr, text[k])

LEMMA TypedText ==
    ASSUME NEW n, Fits(n), active \in PageNumbers, NEW L \in Nat, NEW T, IsText(T[0], n),
           NEW p \in PageNumbers, NEW attr, NEW text, Types(T, L, p, attr, text)
    PROVE  IsText(T[L], n)
<1> DEFINE S == {k \in Nat : k <= L => IsText(T[k], n)}
<1>1. 0 \in S
  OBVIOUS
<1>2. ASSUME NEW k \in Nat, k \in S PROVE k + 1 \in S
  <2> SUFFICES ASSUME k + 1 <= L PROVE IsText(T[k + 1], n)
    OBVIOUS
  <2>1. k + 1 \in 1 .. L /\ (k + 1) - 1 = k /\ IsText(T[k], n)
    BY <1>2
  <2>2. PICK t, ch : t = T[k] /\ ch = text[k + 1]
    OBVIOUS
  <2>3. T[k + 1] = video_tty(t, ch) \/ T[k + 1] = StringOne(t, p, attr, ch)
    BY <2>1, <2>2 DEF Types
  <2>4. IsText(t, n)
    BY <2>1, <2>2
  <2>5. IsText(video_tty(t, ch), n)
    BY <2>4, TtyText
  <2>6. IsText(StringOne(t, p, attr, ch), n)
    <3>1. ASSUME NEW cell PROVE IsText(Advanced(t, p, cell, attr), n)
      BY <2>4, AdvancedText
    <3> QED BY <2>5, <3>1 DEF StringOne
  <2> QED BY <2>3, <2>5, <2>6
<1> HIDE DEF S
<1>3. L \in S
  BY <1>1, <1>2, Induction
<1> QED BY <1>3 DEF S

\* Before the first character the paper is the screen.
LEMMA PaperInit ==
    ASSUME NEW n, Fits(n), NEW req, req.page \in PageNumbers, NEW t, IsText(t, n), NEW P,
           P[0] \in 0 .. PageSize - 1, t.cur[req.page] = CursorAt(P[0])
    PROVE  ShowsPaper(t, n, req, t.v, t.cur, P, 0)
<1>1. P[0] \in Nat /\ Row(P[0]) < Rows /\ Row(P[0]) \in Nat /\ PageSize \in Nat /\ screen_cols \in Nat
  BY CursorIs, TextSizes
<1>2. Over(P[0]) = 0 /\ OnPage(P[0]) = P[0]
  <2>1. Over(P[0]) = 0
    BY <1>1 DEF Over
  <2> QED BY <1>1, <2>1 DEF OnPage
<1>3. \A l \in 0 .. 0 : P[l] \in Nat /\ Row(P[l]) <= Row(P[0])
  BY <1>1
<1>4. ASSUME NEW i \in 0 .. PageSize - 1
      PROVE  ShowsCell(t.v[Place(req.page, i)], req, t.v, P, 0, i + Over(P[0]) * screen_cols)
  <2>1. i + Over(P[0]) * screen_cols = i /\ i < PageSize
    BY <1>1, <1>2
  <2>2. Writers(req, P, 0, i) = {}
    BY DEF Writers
  <2> QED BY <2>1, <2>2 DEF ShowsCell, OldCell
<1> QED BY <1>2, <1>3, <1>4 DEF ShowsPaper

\* After each character of a call the screen shows the paper.
LEMMA TypedShows ==
    ASSUME NEW n, Fits(n), active \in PageNumbers, NEW req, req.page \in PageNumbers,
           NEW L \in Nat, NEW T, IsText(T[0], n),
           NEW P, P[0] \in 0 .. PageSize - 1, T[0].cur[req.page] = CursorAt(P[0]),
           \A k \in 1 .. L : P[k] = Next1(P[k - 1], req.text[k]),
           \/ /\ req.keeps /\ req.page = active
              /\ \A k \in 1 .. L : T[k] = video_tty(T[k - 1], req.text[k])
           \/ /\ ~ req.keeps
              /\ req.page = active \/ \A k \in 1 .. L : req.text[k] \notin Controls
              /\ \A k \in 1 .. L : T[k] = StringOne(T[k - 1], req.page, req.attr, req.text[k])
    PROVE  ShowsPaper(T[L], n, req, T[0].v, T[0].cur, P, L)
<1> DEFINE V == T[0].v
           C == T[0].cur
           S == {k \in Nat : k <= L => ShowsPaper(T[k], n, req, V, C, P, k)}
<1>1. 0 \in S
  BY PaperInit
<1>2. ASSUME NEW k \in Nat, k \in S PROVE k + 1 \in S
  <2> SUFFICES ASSUME k + 1 <= L PROVE ShowsPaper(T[k + 1], n, req, V, C, P, k + 1)
    OBVIOUS
  <2>1. k + 1 \in 1 .. L /\ (k + 1) - 1 = k /\ ShowsPaper(T[k], n, req, V, C, P, k)
    BY <1>2
  <2>2. PICK t, ch, u, s : t = T[k] /\ ch = req.text[k + 1] /\ u = T[k + 1] /\ s = OnPage(P[k])
    OBVIOUS
  <2>3. P[k + 1] = Next1(P[k], ch)
    BY <2>1, <2>2
  <2>4. P[k] \in Nat /\ IsText(t, n) /\ t.cur[req.page] = CursorAt(s)
    <3>1. k \in 0 .. k
      OBVIOUS
    <3> QED BY <2>1, <2>2, <3>1 DEF ShowsPaper
  <2>5. s \in 0 .. PageSize - 1
    BY <2>2, <2>4, OnPaper
  <2> HIDE DEF V, C
  <2>6. CASE req.keeps
    <3>1. req.page = active /\ u = video_tty(t, ch)
      BY <2>1, <2>2, <2>6
    <3>2. PICK at : at = t.v[Place(active, s)].at
      OBVIOUS
    <3>3. Rolled(Printed(t, active, s, ch, at), u, n, active, Next1(s, ch), Normal)
      BY <2>4, <2>5, <3>1, <3>2, TtyTypes
    <3>4. /\ ShowsPaper(t, n, req, V, C, P, k)
          /\ at = IF req.keeps THEN t.v[Place(req.page, OnPage(P[k]))].at ELSE req.attr
          /\ ch = req.text[k + 1] /\ P[k + 1] = Next1(P[k], ch)
          /\ Rolled(Printed(t, req.page, OnPage(P[k]), ch, at), u, n, req.page, Next1(OnPage(P[k]), ch), Normal)
      BY <2>1, <2>2, <2>3, <2>6, <3>1, <3>2, <3>3
    <3>5. ShowsPaper(u, n, req, V, C, P, k + 1)
      BY <3>4, PaperStep
    <3> QED BY <2>2, <3>5
  <2>7. CASE ~ req.keeps
    <3>1. req.page = active \/ ch \notin Controls
      BY <2>1, <2>2, <2>7
    <3>2. u = StringOne(t, req.page, req.attr, ch)
      BY <2>1, <2>2, <2>7
    <3>3. PICK p, attr : p = req.page /\ attr = req.attr
      OBVIOUS
    <3>4. /\ p \in PageNumbers /\ t.cur[p] = CursorAt(s)
          /\ p = active \/ ch \notin Controls
          /\ u = IF ch \in Controls THEN video_tty(t, ch) ELSE Advanced(t, p, [ch |-> ch, at |-> attr], attr)
      BY <2>4, <3>1, <3>2, <3>3 DEF StringOne
    <3>5. PICK b \in {Normal, attr} : Rolled(Printed(t, p, s, ch, attr), u, n, p, Next1(s, ch), b)
      <4>1. \E b \in {Normal, attr} : Rolled(Printed(t, p, s, ch, attr), u, n, p, Next1(s, ch), b)
        BY <2>4, <2>5, <3>4, StringTypes
      <4> QED BY <4>1
    <3>6. /\ ShowsPaper(t, n, req, V, C, P, k)
          /\ attr = IF req.keeps THEN t.v[Place(req.page, OnPage(P[k]))].at ELSE req.attr
          /\ ch = req.text[k + 1] /\ P[k + 1] = Next1(P[k], ch)
          /\ b = Normal \/ (~ req.keeps /\ b = req.attr)
          /\ Rolled(Printed(t, req.page, OnPage(P[k]), ch, attr), u, n, req.page, Next1(OnPage(P[k]), ch), b)
      BY <2>1, <2>2, <2>3, <2>7, <3>3, <3>5
    <3>7. ShowsPaper(u, n, req, V, C, P, k + 1)
      BY <3>6, PaperStep
    <3> QED BY <2>2, <3>7
  <2> QED BY <2>6, <2>7
<1> HIDE DEF S
<1>3. L \in S
  BY <1>1, <1>2, Induction
<1> QED BY <1>3 DEF S

-----------------------------------------------------------------------------
(* The calls. *)

\* A memory of n cells holds the pages of every mode.
ScreenFits(n) ==
    /\ n \in Nat /\ \A w \in Widths : NPages * (w * Rows) <= n
    /\ screen_cols \in Widths /\ active \in PageNumbers
    /\ IsText([v |-> vram, cur |-> cursor], n)
ScreenInv == \E n : ScreenFits(n)

LEMMA ScreenFitsIs ==
    ASSUME NEW n, ScreenFits(n)
    PROVE  /\ Fits(n) /\ active \in PageNumbers /\ IsCells(vram, n)
           /\ cursor = [q \in PageNumbers |-> cursor[q]]
           /\ \A q \in PageNumbers : cursor[q] \in [row : Nat, col : Nat]
<1>1. screen_cols \in Nat \ {0} /\ NPages * PageSize <= n
  BY TextScreenAssumption DEF ScreenFits, PageSize
<1> QED BY <1>1 DEF ScreenFits, Fits, IsText

LEMMA OnScreenIs ==
    ASSUME NEW n, Fits(n), NEW pos \in [row : Nat, col : Nat], OnScreen(pos)
    PROVE  /\ pos.row * screen_cols + pos.col \in 0 .. PageSize - 1
           /\ pos = CursorAt(pos.row * screen_cols + pos.col)
<1>1. /\ pos.row \in Nat /\ pos.row < Rows /\ pos.col \in 0 .. screen_cols - 1
      /\ screen_cols \in Nat /\ PageSize \in Nat
  BY TextSizes DEF OnScreen
<1>2. PICK r \in Nat, col \in 0 .. screen_cols - 1 : r = pos.row /\ col = pos.col
  BY <1>1
<1>3. /\ Row(screen_cols * r + col) = r /\ Col(screen_cols * r + col) = col
      /\ screen_cols * r + col \in Int /\ (r >= 0 => screen_cols * r + col \in Nat)
  BY CellOf
<1>4. screen_cols * r + col < PageSize
  BY <1>1, <1>2, FirstPage
<1>5. pos.row * screen_cols + pos.col = screen_cols * r + col
  BY <1>1, <1>2
<1>6. pos = [row |-> r, col |-> col]
  BY <1>2
<1> QED BY <1>1, <1>2, <1>3, <1>4, <1>5, <1>6 DEF CursorAt

LEMMA PositionsIs ==
    ASSUME NEW req, NEW L \in Nat, L = Len(req.text), NEW P, P = Positions(req)
    PROVE  /\ DOMAIN P = 0 .. L /\ P[0] = req.from.row * screen_cols + req.from.col
           /\ \A k \in 1 .. L : P[k] = Next1(P[k - 1], req.text[k])
<1> DEFINE a == req.from.row * screen_cols + req.from.col
           p[l \in 0 .. Len(req.text)] == IF l = 0 THEN a ELSE Next1(p[l - 1], req.text[l])
<1>1. P = p
  BY DEF Positions
<1>2. P = PaperOf(req.text, a, L)
  <2> HIDE DEF a
  <2> QED BY <1>1 DEF PaperOf
<1> HIDE DEF p, a
<1>3. DOMAIN P = 0 .. L /\ P[0] = a /\ \A k \in 1 .. L : P[k] = Next1(P[k - 1], req.text[k])
  BY <1>2, PaperIs
<1> QED BY <1>3 DEF a

LEMMA AboveIs ==
    ASSUME NEW n, Fits(n), NEW req, NEW L \in Nat, NEW P, P = Positions(req), DOMAIN P = 0 .. L,
           \A l \in 0 .. L : P[l] \in Nat /\ Row(P[l]) <= Row(P[L])
    PROVE  Above(req) = Over(P[L])
<1> DEFINE over == {(P[l] \div screen_cols) - (Rows - 1) : l \in DOMAIN P}
           k == Over(P[L])
           Most(x) == x \in over \cup {0} /\ \A j \in over \cup {0} : j <= x
<1>1. Above(req) = CHOOSE x \in over \cup {0} : \A j \in over \cup {0} : j <= x
  BY DEF Above
<1>2. over = {Row(P[l]) - (Rows - 1) : l \in 0 .. L}
  BY DEF Row
<1>3. /\ Rows \in Nat /\ L \in 0 .. L /\ P[L] \in Nat /\ Row(P[L]) \in Nat
  BY RowAndCol, TextSizes, SMTT(30)
<1>4. k \in over \cup {0}
  BY <1>2, <1>3 DEF Over
<1>5. k \in Nat /\ Row(P[L]) - (Rows - 1) <= k
  BY <1>3 DEF Over
<1> HIDE DEF k, over
<1>6. ASSUME NEW j \in over \cup {0} PROVE j <= k /\ j \in Int
  <2>1. CASE j = 0
    BY <1>5, <2>1
  <2>2. CASE j \in over
    <3>1. PICK l \in 0 .. L : j = Row(P[l]) - (Rows - 1)
      BY <1>2, <2>2
    <3>2. P[l] \in Nat /\ Row(P[l]) <= Row(P[L])
      OBVIOUS
    <3>3. Row(P[l]) \in Nat
      BY <3>2, RowAndCol
    <3> QED BY <1>3, <1>5, <3>1, <3>2, <3>3
  <2> QED BY <2>1, <2>2
<1>7. \A j \in over \cup {0} : j <= k
  BY <1>6
<1>8. Above(req) \in over \cup {0} /\ \A j \in over \cup {0} : j <= Above(req)
  BY <1>1, <1>4, <1>7
<1>9. Above(req) <= k /\ k <= Above(req) /\ Above(req) \in Int
  BY <1>4, <1>6, <1>8
<1> QED BY <1>5, <1>9 DEF k

\* When the screen shows the paper the text has been printed.
LEMMA PaperPrinted ==
    ASSUME NEW n, Fits(n), NEW req, req.page \in PageNumbers, NEW L \in Nat, L = Len(req.text),
           NEW P, P = Positions(req), DOMAIN P = 0 .. L,
           IsCells(vram, n), NEW C, \A q \in PageNumbers \ {req.page} : C[q] = cursor[q],
           NEW t, ShowsPaper(t, n, req, vram, C, P, L), req.page = 0 \/ Above(req) = 0,
           vram' = t.v, \A q \in PageNumbers \ {req.page} : cursor'[q] = t.cur[q],
           cursor'[req.page] = IF req.moves THEN t.cur[req.page] ELSE cursor[req.page]
    PROVE  PrintedOnPaper(req)
<1> DEFINE p == req.page
           x == P[L]
           k == Above(req)
<1>1. /\ IsText(t, n) /\ t.cur[p] = CursorAt(OnPage(x)) /\ \A q \in PageNumbers \ {p} : t.cur[q] = C[q]
      /\ \A l \in 0 .. L : P[l] \in Nat /\ Row(P[l]) <= Row(x)
  BY DEF ShowsPaper
<1>2. k = Over(x) /\ x \in Nat
  <2>1. L \in 0 .. L
    OBVIOUS
  <2> QED BY <1>1, <2>1, AboveIs, ZenonT(40)
<1>3. /\ \A i \in 0 .. PageSize - 1 : ShowsCell(t.v[Place(p, i)], req, vram, P, L, i + k * screen_cols)
      /\ \A i \in 0 .. n - 1 : i \div PageSize # p => t.v[i] = vram[i]
  BY <1>2 DEF ShowsPaper
<1>4. DOMAIN vram = 0 .. n - 1
  BY DEF IsCells
<1>5. /\ OnPage(x) \in 0 .. PageSize - 1 /\ OnPage(x) = x - k * screen_cols
  BY <1>2, OnPaper DEF OnPage
<1>6. CursorAt(OnPage(x)).row * screen_cols + CursorAt(OnPage(x)).col = x - k * screen_cols
  <2>1. PICK s \in 0 .. PageSize - 1 : s = OnPage(x)
    BY <1>5
  <2>2. /\ Row(s) \in 0 .. Rows - 1 /\ Col(s) \in 0 .. screen_cols - 1
        /\ s = screen_cols * Row(s) + Col(s)
        /\ CursorAt(s).row = Row(s) /\ CursorAt(s).col = Col(s) /\ screen_cols \in Nat
    BY CursorIs, TextSizes
  <2>3. Row(s) * screen_cols = screen_cols * Row(s)
    BY <2>2
  <2> QED BY <1>5, <2>1, <2>2, <2>3
<1>7. IF req.moves
      THEN cursor'[p].row * screen_cols + cursor'[p].col = P[L] - k * screen_cols
      ELSE cursor'[p] = cursor[p]
  BY <1>1, <1>6
<1>8. \A q \in PageNumbers \ {p} : cursor'[q] = cursor[q]
  BY <1>1
<1>9. \A i \in DOMAIN vram : i \div PageSize # p => vram'[i] = vram[i]
  BY <1>3, <1>4
<1> DEFINE Old(v) == IF v < PageSize THEN vram[p * PageSize + v] ELSE Blank(Normal)
           Wrote(v) == {l \in 1 .. Len(req.text) : req.text[l] \notin Controls /\ P[l - 1] = v}
           at(v) == IF req.keeps THEN Old(v).at ELSE req.attr
<1>10. \A i \in 0 .. PageSize - 1 :
          LET v == i + k * screen_cols
          IN  IF Wrote(v) # {}
              THEN \E l \in Wrote(v) : /\ \A m \in Wrote(v) : m <= l
                                         /\ vram'[p * PageSize + i] = [ch |-> req.text[l], at |-> at(v)]
              ELSE IF v < PageSize THEN vram'[p * PageSize + i] = Old(v)
              ELSE vram'[p * PageSize + i].ch = " " /\ vram'[p * PageSize + i].at \in {Normal, at(v)}
  <2>1. \A v : Old(v) = OldCell(vram, p, v)
    BY DEF OldCell, Place
  <2>2. \A v : Wrote(v) = Writers(req, P, L, v)
    BY DEF Writers
  <2>3. \A v : at(v) = PaperAt(req, vram, v)
    BY <2>1 DEF PaperAt
  <2>4. \A i : Place(p, i) = p * PageSize + i
    BY DEF Place
  <2> HIDE DEF Old, Wrote, at, k, p
  <2> SUFFICES ASSUME NEW i \in 0 .. PageSize - 1, NEW v, v = i + k * screen_cols
               PROVE  IF Wrote(v) # {}
                      THEN \E l \in Wrote(v) : /\ \A m \in Wrote(v) : m <= l
                                                 /\ vram'[p * PageSize + i] = [ch |-> req.text[l], at |-> at(v)]
                      ELSE IF v < PageSize THEN vram'[p * PageSize + i] = Old(v)
                      ELSE vram'[p * PageSize + i].ch = " " /\ vram'[p * PageSize + i].at \in {Normal, at(v)}
    BY Zenon
  <2>5. PICK z : z = vram'[p * PageSize + i]
    OBVIOUS
  <2>6. ShowsCell(z, req, vram, P, L, v)
    BY <1>3, <2>4, <2>5
  <2>7. IF Wrote(v) # {}
        THEN \E l \in Wrote(v) : /\ \A m \in Wrote(v) : m <= l
                                   /\ z = [ch |-> req.text[l], at |-> at(v)]
        ELSE IF v < PageSize THEN z = Old(v)
        ELSE z.ch = " " /\ z.at \in {Normal, at(v)}
    BY <2>1, <2>2, <2>3, <2>6 DEF ShowsCell, p
  <2> QED BY <2>5, <2>7
<1> QED BY <1>7, <1>8, <1>9, <1>10, ZenonT(60) DEF PrintedOnPaper

\* What the property says of text.
TextShown(req) ==
    /\ OnScreen(req.from)
    /\ req.page = 0 \/ Above(req) = 0
    /\ req.page = active \/ \A k \in DOMAIN req.text : req.text[k] \notin Controls
    => PrintedOnPaper(req)

LEMMA CursorMoved ==
    ASSUME NEW n, NEW v, IsCells(v, n), NEW cur, cur = [q \in PageNumbers |-> cur[q]],
           \A q \in PageNumbers : cur[q] \in [row : Nat, col : Nat],
           NEW p \in PageNumbers, NEW z \in [row : Nat, col : Nat]
    PROVE  IsText([v |-> v, cur |-> [cur EXCEPT ![p] = z]], n)
<1> DEFINE C == [cur EXCEPT ![p] = z]
<1>1. C = [q \in PageNumbers |-> C[q]] /\ \A q \in PageNumbers : C[q] \in [row : Nat, col : Nat]
  OBVIOUS
<1> HIDE DEF C
<1> QED BY <1>1 DEF IsText

LEMMA CallPrinted ==
    ASSUME NEW n, ScreenFits(n), NEW req, req.page \in PageNumbers, req.from \in [row : Nat, col : Nat],
           NEW L \in Nat, L = Len(req.text), DOMAIN req.text = 1 .. L,
           NEW T, T[0] = [v |-> vram, cur |-> [cursor EXCEPT ![req.page] = req.from]],
           \/ /\ req.keeps /\ req.page = active
              /\ \A k \in 1 .. L : T[k] = video_tty(T[k - 1], req.text[k])
           \/ /\ ~ req.keeps
              /\ \A k \in 1 .. L : T[k] = StringOne(T[k - 1], req.page, req.attr, req.text[k]),
           vram' = T[L].v,
           cursor' = IF req.moves THEN T[L].cur ELSE [T[L].cur EXCEPT ![req.page] = cursor[req.page]]
    PROVE  TextShown(req) /\ IsText([v |-> vram', cur |-> cursor'], n)
<1>1. /\ Fits(n) /\ active \in PageNumbers /\ IsCells(vram, n)
      /\ cursor = [q \in PageNumbers |-> cursor[q]]
      /\ \A q \in PageNumbers : cursor[q] \in [row : Nat, col : Nat]
  BY ScreenFitsIs
<1>2. /\ T[0].v = vram /\ T[0].cur = [cursor EXCEPT ![req.page] = req.from]
      /\ T[0].cur[req.page] = req.from /\ \A q \in PageNumbers \ {req.page} : T[0].cur[q] = cursor[q]
  BY <1>1
<1>3. IsText(T[0], n)
  BY <1>1, CursorMoved, SMTT(30)
<1>4. IsText(T[L], n)
  <2>1. PICK p, attr, text : p = req.page /\ attr = req.attr /\ text = req.text
    OBVIOUS
  <2>2. Types(T, L, p, attr, text)
    BY <2>1 DEF Types
  <2>3. p \in PageNumbers
    BY <2>1
  <2> QED BY <1>1, <1>3, <2>2, <2>3, TypedText
<1>5. IsText([v |-> vram', cur |-> cursor'], n)
  <2>1. PICK t, page : t = T[L] /\ page = req.page /\ page \in PageNumbers
    OBVIOUS
  <2>2. /\ IsText(t, n) /\ vram' = t.v
        /\ cursor' = t.cur \/ cursor' = [t.cur EXCEPT ![page] = cursor[page]]
    BY <1>4, <2>1
  <2>3. IsText([v |-> t.v, cur |-> t.cur], n)
    BY <2>2 DEF IsText
  <2>4. IsText([v |-> t.v, cur |-> [t.cur EXCEPT ![page] = cursor[page]]], n)
    <3>1. /\ IsCells(t.v, n) /\ t.cur = [q \in PageNumbers |-> t.cur[q]]
          /\ \A q \in PageNumbers : t.cur[q] \in [row : Nat, col : Nat]
      BY <2>2 DEF IsText
    <3>2. PICK z \in [row : Nat, col : Nat] : z = cursor[page] /\ page \in PageNumbers
      BY <1>1, <2>1
    <3>3. IsText([v |-> t.v, cur |-> [t.cur EXCEPT ![page] = z]], n)
      BY <3>1, <3>2, CursorMoved
    <3> QED BY <3>2, <3>3
  <2> QED BY <2>2, <2>3, <2>4
<1>6. TextShown(req)
  <2> SUFFICES ASSUME OnScreen(req.from), req.page = 0 \/ Above(req) = 0,
                      req.page = active \/ \A k \in DOMAIN req.text : req.text[k] \notin Controls
               PROVE  PrintedOnPaper(req)
    BY DEF TextShown
  <2>1. PICK P : P = Positions(req)
    OBVIOUS
  <2>2. /\ DOMAIN P = 0 .. L /\ P[0] = req.from.row * screen_cols + req.from.col
        /\ \A k \in 1 .. L : P[k] = Next1(P[k - 1], req.text[k])
    BY <2>1, PositionsIs
  <2>3. P[0] \in 0 .. PageSize - 1 /\ req.from = CursorAt(P[0])
    <3>1. PICK pos \in [row : Nat, col : Nat] : pos = req.from
      OBVIOUS
    <3>2. OnScreen(pos)
      BY <3>1
    <3>3. /\ pos.row * screen_cols + pos.col \in 0 .. PageSize - 1
          /\ pos = CursorAt(pos.row * screen_cols + pos.col)
      BY <1>1, <3>2, OnScreenIs
    <3> QED BY <2>2, <3>1, <3>3
  <2>4. T[0].cur[req.page] = CursorAt(P[0])
    BY <1>2, <2>3
  <2>5. \/ /\ req.keeps /\ req.page = active
           /\ \A k \in 1 .. L : T[k] = video_tty(T[k - 1], req.text[k])
        \/ /\ ~ req.keeps
           /\ req.page = active \/ \A k \in 1 .. L : req.text[k] \notin Controls
           /\ \A k \in 1 .. L : T[k] = StringOne(T[k - 1], req.page, req.attr, req.text[k])
    OBVIOUS
  <2>6. ShowsPaper(T[L], n, req, T[0].v, T[0].cur, P, L)
    BY <1>1, <1>3, <2>2, <2>3, <2>4, <2>5, TypedShows
  <2>7. PICK t, C : t = T[L] /\ C = T[0].cur
    OBVIOUS
  <2>8. ShowsPaper(t, n, req, vram, C, P, L) /\ vram' = t.v
        /\ \A q \in PageNumbers \ {req.page} : C[q] = cursor[q]
    BY <1>2, <2>6, <2>7, SMTT(30)
  <2>9. /\ \A q \in PageNumbers \ {req.page} : cursor'[q] = t.cur[q]
        /\ cursor'[req.page] = IF req.moves THEN t.cur[req.page] ELSE cursor[req.page]
    BY <1>4, <2>7 DEF IsText
  <2> QED BY <1>1, <2>1, <2>2, <2>8, <2>9, PaperPrinted
<1> QED BY <1>5, <1>6

\* The text of a call is a sequence of characters.
IsLine(text) == text = [k \in 1 .. Len(text) |-> text[k]] /\ Len(text) \in Nat

LEMMA LongerLine ==
    ASSUME NEW text, IsLine(text), NEW ch
    PROVE  IsLine(Append(text, ch))
<1> DEFINE S == {text[k] : k \in 1 .. Len(text)} \cup {ch}
<1>1. text \in Seq(S)
  BY DEF IsLine
<1>2. Append(text, ch) \in Seq(S) /\ Len(Append(text, ch)) \in Nat
  BY <1>1
<1>3. \A s \in Seq(S) : s = [k \in 1 .. Len(s) |-> s[k]]
  OBVIOUS
<1> QED BY <1>2, <1>3 DEF IsLine

LEMMA TtyPrints ==
    ASSUME NEW n, ScreenFits(n), NEW ch, TtyOutput(ch)
    PROVE  /\ TextShown(shown') /\ shown'.op = "text"
           /\ IsText([v |-> vram', cur |-> cursor'], n) /\ UNCHANGED <<active, screen_cols>>
<1> DEFINE text == IF ~ banner_shown /\ ch \notin Controls THEN Append(Banner, ch) ELSE <<ch>>
           a == [v |-> vram, cur |-> cursor]
           Typed[k \in 0 .. Len(text)] == IF k = 0 THEN a ELSE video_tty(Typed[k - 1], text[k])
<1>1. /\ shown' = [op |-> "text", page |-> active, text |-> text, keeps |-> TRUE,
                   from |-> cursor[active], moves |-> TRUE]
      /\ vram' = Typed[Len(text)].v /\ cursor' = Typed[Len(text)].cur
      /\ UNCHANGED <<active, screen_cols>>
  BY DEF TtyOutput, Serves
<1>2. IsLine(text)
  <2>1. IsLine(Banner)
    BY TextScreenAssumption DEF IsLine
  <2>2. IsLine(Append(Banner, ch))
    BY <2>1, LongerLine
  <2>3. IsLine(<<ch>>)
    <3>1. <<ch>> \in Seq({ch}) /\ Len(<<ch>>) = 1
      OBVIOUS
    <3> QED BY <3>1 DEF IsLine
  <2> QED BY <2>2, <2>3
<1> HIDE DEF text
<1>3a. PICK L \in Nat : L = Len(text)
  BY <1>2 DEF IsLine
<1>3. PICK T : L = Len(text) /\ T = Typed
  BY <1>3a
<1>4. T = TypingOf(text, a, L)
  <2> HIDE DEF a
  <2> QED BY <1>3 DEF TypingOf
<1> HIDE DEF Typed
<1>5. T[0] = a /\ \A k \in 1 .. L : T[k] = video_tty(T[k - 1], text[k])
  BY <1>4, TypingIs
<1>6. PICK req : req = shown'
  OBVIOUS
<1>7. /\ req.op = "text" /\ req.page = active /\ req.text = text /\ req.keeps
      /\ req.from = cursor[active] /\ req.moves
  BY <1>1, <1>6
<1>8. /\ active \in PageNumbers /\ cursor = [q \in PageNumbers |-> cursor[q]]
      /\ \A q \in PageNumbers : cursor[q] \in [row : Nat, col : Nat]
  BY ScreenFitsIs
<1>9. [cursor EXCEPT ![active] = cursor[active]] = cursor
  BY <1>8
<1>10. /\ req.page \in PageNumbers /\ req.from \in [row : Nat, col : Nat]
       /\ L = Len(req.text) /\ DOMAIN req.text = 1 .. L
       /\ T[0] = [v |-> vram, cur |-> [cursor EXCEPT ![req.page] = req.from]]
       /\ \/ /\ req.keeps /\ req.page = active
             /\ \A k \in 1 .. L : T[k] = video_tty(T[k - 1], req.text[k])
          \/ /\ ~ req.keeps
             /\ \A k \in 1 .. L : T[k] = StringOne(T[k - 1], req.page, req.attr, req.text[k])
       /\ vram' = T[L].v
       /\ cursor' = IF req.moves THEN T[L].cur ELSE [T[L].cur EXCEPT ![req.page] = cursor[req.page]]
  <2>1. req.page \in PageNumbers /\ req.from \in [row : Nat, col : Nat]
    BY <1>7, <1>8
  <2>2. L = Len(req.text) /\ DOMAIN req.text = 1 .. L
    BY <1>2, <1>3, <1>7 DEF IsLine
  <2>3. T[0] = [v |-> vram, cur |-> [cursor EXCEPT ![req.page] = req.from]]
    BY <1>5, <1>7, <1>9
  <2>4. req.keeps /\ req.page = active /\ \A k \in 1 .. L : T[k] = video_tty(T[k - 1], req.text[k])
    BY <1>5, <1>7
  <2>5. vram' = T[L].v /\ cursor' = IF req.moves THEN T[L].cur ELSE [T[L].cur EXCEPT ![req.page] = cursor[req.page]]
    BY <1>1, <1>3, <1>7
  <2> QED BY <2>1, <2>2, <2>3, <2>4, <2>5
<1>11. TextShown(req) /\ IsText([v |-> vram', cur |-> cursor'], n)
  BY <1>10, CallPrinted
<1> QED BY <1>1, <1>6, <1>7, <1>11

LEMMA StringPrints ==
    ASSUME NEW n, ScreenFits(n), NEW page \in PageNumbers, NEW pos \in Spots, NEW text \in Strings,
           NEW updates \in BOOLEAN, NEW attr, WriteString(page, pos, text, attr, updates)
    PROVE  /\ TextShown(shown') /\ shown'.op = "text"
           /\ IsText([v |-> vram', cur |-> cursor'], n) /\ UNCHANGED <<active, screen_cols>>
<1> DEFINE a == [v |-> vram, cur |-> [cursor EXCEPT ![page] = pos]]
           Typed[k \in 0 .. Len(text)] == IF k = 0 THEN a ELSE StringOne(Typed[k - 1], page, attr, text[k])
<1>1. /\ shown' = [op |-> "text", page |-> page, text |-> text, keeps |-> FALSE,
                   attr |-> attr, from |-> pos, moves |-> updates]
      /\ vram' = Typed[Len(text)].v
      /\ cursor' = IF updates THEN Typed[Len(text)].cur ELSE [Typed[Len(text)].cur EXCEPT ![page] = cursor[page]]
      /\ UNCHANGED <<active, screen_cols>>
  BY DEF WriteString, Serves, StringOne
<1>2. IsLine(text) /\ pos \in [row : Nat, col : Nat]
  BY TextScreenAssumption DEF IsLine
<1>3a. PICK L \in Nat : L = Len(text)
  BY <1>2 DEF IsLine
<1>3. PICK T : L = Len(text) /\ T = Typed
  BY <1>3a
<1>4. T = StringOf(text, page, attr, a, L)
  <2> HIDE DEF a
  <2> QED BY <1>3 DEF StringOf
<1> HIDE DEF Typed
<1>5. T[0] = a /\ \A k \in 1 .. L : T[k] = StringOne(T[k - 1], page, attr, text[k])
  BY <1>4, StringIs
<1>6. PICK req : req = shown'
  OBVIOUS
<1>7. /\ req.op = "text" /\ req.page = page /\ req.text = text /\ ~ req.keeps /\ req.attr = attr
      /\ req.from = pos
      /\ req.moves = updates
  BY <1>1, <1>6
<1>8. /\ req.page \in PageNumbers /\ req.from \in [row : Nat, col : Nat]
      /\ L = Len(req.text) /\ DOMAIN req.text = 1 .. L
      /\ T[0] = [v |-> vram, cur |-> [cursor EXCEPT ![req.page] = req.from]]
      /\ \/ /\ req.keeps /\ req.page = active
            /\ \A k \in 1 .. L : T[k] = video_tty(T[k - 1], req.text[k])
         \/ /\ ~ req.keeps
            /\ \A k \in 1 .. L : T[k] = StringOne(T[k - 1], req.page, req.attr, req.text[k])
      /\ vram' = T[L].v
      /\ cursor' = IF req.moves THEN T[L].cur ELSE [T[L].cur EXCEPT ![req.page] = cursor[req.page]]
  <2>1. req.page \in PageNumbers /\ req.from \in [row : Nat, col : Nat]
    BY <1>2, <1>7
  <2>2. L = Len(req.text) /\ DOMAIN req.text = 1 .. L
    BY <1>2, <1>3, <1>7 DEF IsLine
  <2>3. T[0] = [v |-> vram, cur |-> [cursor EXCEPT ![req.page] = req.from]]
    BY <1>5, <1>7
  <2>4. ~ req.keeps /\ \A k \in 1 .. L : T[k] = StringOne(T[k - 1], req.page, req.attr, req.text[k])
    BY <1>5, <1>7
  <2>5. vram' = T[L].v /\ cursor' = IF req.moves THEN T[L].cur ELSE [T[L].cur EXCEPT ![req.page] = cursor[req.page]]
    BY <1>1, <1>3, <1>7
  <2> QED BY <2>1, <2>2, <2>3, <2>4, <2>5
<1>9. TextShown(req) /\ IsText([v |-> vram', cur |-> cursor'], n)
  BY <1>8, CallPrinted
<1> QED BY <1>1, <1>6, <1>7, <1>9

LEMMA ScrollMoves ==
    ASSUME NEW n, ScreenFits(n), NEW dir \in {"up", "down"}, NEW window \in Windows, NEW attr,
           Scroll(dir, window, attr)
    PROVE  /\ shown'.op = "scroll" /\ WindowMoved(shown')
           /\ IsText([v |-> vram', cur |-> cursor'], n) /\ UNCHANGED <<active, screen_cols>>
<1>1. /\ Fits(n) /\ IsCells(vram, n) /\ cursor = [q \in PageNumbers |-> cursor[q]]
      /\ \A q \in PageNumbers : cursor[q] \in [row : Nat, col : Nat]
  BY ScreenFitsIs
<1>2. window \in [top : Nat, left : Nat, bottom : Nat, right : Nat, lines : Nat]
  BY TextScreenAssumption
<1>3. /\ shown' = [op |-> "scroll", dir |-> dir, window |-> window, attr |-> attr]
      /\ vram' = video_scroll(vram, dir, window, attr) /\ cursor' = cursor
      /\ UNCHANGED <<active, screen_cols>>
  BY DEF Scroll, Serves
<1>4. /\ IsCells(vram', n) /\ \A i \in 0 .. n - 1 : vram'[i] = MovedCell(vram, dir, window, attr, i)
  BY <1>1, <1>2, <1>3, Scrolled
<1>5. IsText([v |-> vram', cur |-> cursor'], n)
  BY <1>1, <1>3, <1>4 DEF IsText
<1>6. PICK req : req = shown'
  OBVIOUS
<1>7. /\ req.op = "scroll" /\ req.dir = dir /\ req.window = window /\ req.attr = attr
  BY <1>3, <1>6
<1>8. WindowMoved(req)
  <2> DEFINE d == IF dir = "up" THEN window.lines ELSE - window.lines
             in(r, col) == r \in window.top .. window.bottom /\ col \in window.left .. window.right /\ r < Rows
  <2>1. DOMAIN vram = 0 .. n - 1
    BY <1>1 DEF IsCells
  <2>2. d = By(dir, window) /\ \A r, col : in(r, col) <=> InWindow(window, r, col)
    BY DEF By, InWindow
  <2>3. \A i \in DOMAIN vram :
           vram'[i] = IF ~ in(i \div screen_cols, i % screen_cols) THEN vram[i]
                      ELSE IF window.lines # 0 /\ in(i \div screen_cols + d, i % screen_cols)
                      THEN vram[i + d * screen_cols]
                      ELSE Blank(attr)
    <3> SUFFICES ASSUME NEW i \in 0 .. n - 1
                 PROVE  vram'[i] = IF ~ in(i \div screen_cols, i % screen_cols) THEN vram[i]
                                   ELSE IF window.lines # 0 /\ in(i \div screen_cols + d, i % screen_cols)
                                   THEN vram[i + d * screen_cols]
                                   ELSE Blank(attr)
      BY <2>1
    <3>1. vram'[i] = MovedCell(vram, dir, window, attr, i)
      BY <1>4
    <3>2. Row(i) = i \div screen_cols /\ Col(i) = i % screen_cols
      BY DEF Row, Col
    <3> HIDE DEF in, d
    <3> QED BY <2>2, <3>1, <3>2 DEF MovedCell
  <2> QED BY <1>7, <2>3 DEF WindowMoved
<1> QED BY <1>3, <1>5, <1>6, <1>7, <1>8

\* A run of characters, k of which have been written: cells from place x of the
\* active page, and the last row again when the page is full.
RunStart(x) == Place(active, x)
RunEnd == Place(active, PageSize)
RunShown(t, n, x, ch, attr, V, k) ==
    /\ t = [v |-> t.v, pos |-> t.pos] /\ IsCells(t.v, n)
    /\ \E y \in 0 .. PageSize - 1 :
          /\ t.pos = CursorAt(y)
          /\ IF x + k < PageSize THEN y = x + k ELSE y >= PageSize - screen_cols
    /\ \A i \in 0 .. n - 1 :
          IF i \in RunStart(x) .. Lesser(RunStart(x) + k, RunEnd) - 1
          THEN t.v[i].ch = ch /\ t.v[i].at = IF attr = Keep THEN V[i].at ELSE attr
          ELSE \/ t.v[i] = V[i]
               \/ RunStart(x) + k > RunEnd /\ i \in RunEnd - screen_cols .. RunEnd - 1

\* The cursor's next place in a run.
LEMMA RunPlace ==
    ASSUME NEW n, Fits(n), NEW y \in 0 .. PageSize - 1, NEW pos, pos = CursorAt(y)
    PROVE  \E z \in 0 .. PageSize - 1 :
              /\ CursorAt(z) = IF pos.col + 1 < screen_cols THEN [pos EXCEPT !.col = @ + 1]
                               ELSE [row |-> Lesser(pos.row + 1, Rows - 1), col |-> 0]
              /\ IF y + 1 < PageSize THEN z = y + 1 ELSE z = PageSize - screen_cols
<1>1. /\ y \in Nat /\ Row(y) \in 0 .. Rows - 1 /\ Col(y) \in 0 .. screen_cols - 1
      /\ pos.row = Row(y) /\ pos.col = Col(y)
      /\ screen_cols \in Nat /\ screen_cols > 0 /\ Rows \in Nat /\ Rows > 0 /\ PageSize \in Nat
      /\ PageSize = screen_cols * Rows
  BY CursorIs, TextSizes
<1>2. /\ Col(y) + 1 < screen_cols =>
            Row(y + 1) = Row(y) /\ Col(y + 1) = Col(y) + 1 /\ y + 1 < PageSize
      /\ ~ (Col(y) + 1 < screen_cols) =>
            Row(y + 1) = Row(y) + 1 /\ Col(y + 1) = 0 /\ (Row(y) + 1 < Rows <=> y + 1 < PageSize)
  BY NextPlace
<1>3. CASE y + 1 < PageSize
  <2>1. y + 1 \in 0 .. PageSize - 1
    BY <1>1, <1>3
  <2>2. CursorAt(y + 1) = IF pos.col + 1 < screen_cols THEN [pos EXCEPT !.col = @ + 1]
                          ELSE [row |-> Lesser(pos.row + 1, Rows - 1), col |-> 0]
    <3>1. CASE Col(y) + 1 < screen_cols
      <4>1. [pos EXCEPT !.col = @ + 1] = [row |-> Row(y), col |-> Col(y) + 1]
        BY DEF CursorAt
      <4> QED BY <1>1, <1>2, <3>1, <4>1 DEF CursorAt
    <3>2. CASE ~ (Col(y) + 1 < screen_cols)
      <4>1. Lesser(pos.row + 1, Rows - 1) = Row(y) + 1
        BY <1>1, <1>2, <1>3, <3>2 DEF Lesser
      <4> QED BY <1>1, <1>2, <3>2, <4>1 DEF CursorAt
    <3> QED BY <3>1, <3>2
  <2> QED BY <1>3, <2>1, <2>2
<1>4. CASE ~ (y + 1 < PageSize)
  <2>1. ~ (pos.col + 1 < screen_cols) /\ Lesser(pos.row + 1, Rows - 1) = Rows - 1
    BY <1>1, <1>2, <1>4 DEF Lesser
  <2>2. PICK r \in Nat : r = Rows - 1 /\ Rows = r + 1
    <3>1. Rows - 1 \in Nat /\ Rows = (Rows - 1) + 1
      BY <1>1
    <3> QED BY <3>1
  <2>3. PageSize - screen_cols = screen_cols * r + 0 /\ screen_cols * r \in Nat
    <3>1. screen_cols * (r + 1) = screen_cols * r + screen_cols /\ screen_cols * r \in Nat
      BY <1>1
    <3> QED BY <1>1, <2>2, <3>1
  <2>4. 0 \in 0 .. screen_cols - 1 /\ r \in Int
    BY <1>1
  <2>5. Row(screen_cols * r + 0) = r /\ Col(screen_cols * r + 0) = 0
    BY <2>4, CellOf
  <2>6. CursorAt(PageSize - screen_cols) = [row |-> Rows - 1, col |-> 0]
    BY <2>2, <2>3, <2>5 DEF CursorAt
  <2>7. PageSize - screen_cols \in 0 .. PageSize - 1
    BY <1>1, <2>3
  <2> QED BY <1>4, <2>1, <2>6, <2>7
<1> QED BY <1>3, <1>4

LEMMA RunStep ==
    ASSUME NEW n, Fits(n), active \in PageNumbers, NEW x \in 0 .. PageSize - 1, NEW ch, NEW attr,
           NEW V, NEW k \in Nat, NEW t, RunShown(t, n, x, ch, attr, V, k)
    PROVE  RunShown(RunOne(t, ch, attr), n, x, ch, attr, V, k + 1)
<1>1. /\ t = [v |-> t.v, pos |-> t.pos] /\ t.v = [i \in 0 .. n - 1 |-> t.v[i]]
      /\ DOMAIN t.v = 0 .. n - 1
  BY DEF RunShown, IsCells
<1>2. PICK y \in 0 .. PageSize - 1 :
         /\ t.pos = CursorAt(y)
         /\ IF x + k < PageSize THEN y = x + k ELSE y >= PageSize - screen_cols
  BY DEF RunShown
<1>3. PICK z \in 0 .. PageSize - 1 :
         /\ CursorAt(z) = IF t.pos.col + 1 < screen_cols THEN [t.pos EXCEPT !.col = @ + 1]
                          ELSE [row |-> Lesser(t.pos.row + 1, Rows - 1), col |-> 0]
         /\ IF y + 1 < PageSize THEN z = y + 1 ELSE z = PageSize - screen_cols
  BY <1>2, RunPlace
<1>4. /\ PageSize \in Nat /\ PageSize > 0 /\ screen_cols \in Nat /\ screen_cols > 0
      /\ PageSize <= n /\ n \in Nat
      /\ active \in Nat
  BY TextSizes DEF PageNumbers
<1>5. PICK b \in Nat, j \in 0 .. n - 1 :
         /\ RunStart(x) = b + x /\ RunEnd = b + PageSize /\ j = b + y /\ CellAt(active, t.pos) = j
  <2>1. PICK b \in Nat : b = active * PageSize
    BY <1>4
  <2>2. CellAt(active, CursorAt(y)) = Place(active, y)
    BY CursorIs
  <2>3. Place(active, y) \in 0 .. n - 1
    BY PlaceIs
  <2> QED BY <1>2, <2>1, <2>2, <2>3 DEF RunStart, RunEnd, Place
<1> DEFINE at == IF attr = Keep THEN t.v[j].at ELSE attr
           cell == [ch |-> ch, at |-> at]
           u == RunOne(t, ch, attr)
<1>6. u.v = [t.v EXCEPT ![j] = cell] /\ u.pos = CursorAt(z) /\ u = [v |-> u.v, pos |-> u.pos]
  <2>1. WithCell(t.v, j, cell) = [t.v EXCEPT ![j] = cell]
    BY <1>1 DEF WithCell
  <2>2. cell = [ch |-> ch, at |-> IF attr = Keep /\ j \in DOMAIN t.v THEN t.v[j].at ELSE attr]
    BY <1>1
  <2> HIDE DEF cell
  <2> QED BY <1>3, <1>5, <2>1, <2>2 DEF RunOne
<1>7. u.v = [i \in 0 .. n - 1 |-> IF i = j THEN cell ELSE t.v[i]]
  BY <1>1, <1>6
<1>8. cell.ch = ch /\ cell.at = at
  OBVIOUS
<1> HIDE DEF u, cell
<1>9. IF x + (k + 1) < PageSize THEN z = x + (k + 1) ELSE z >= PageSize - screen_cols
  BY <1>2, <1>3, <1>4
<1>10. \A i \in 0 .. n - 1 :
          IF i \in RunStart(x) .. Lesser(RunStart(x) + k, RunEnd) - 1
          THEN t.v[i].ch = ch /\ t.v[i].at = IF attr = Keep THEN V[i].at ELSE attr
          ELSE \/ t.v[i] = V[i]
               \/ RunStart(x) + k > RunEnd /\ i \in RunEnd - screen_cols .. RunEnd - 1
  BY DEF RunShown
<1>11. ASSUME NEW i \in 0 .. n - 1
       PROVE  IF i \in RunStart(x) .. Lesser(RunStart(x) + (k + 1), RunEnd) - 1
              THEN u.v[i].ch = ch /\ u.v[i].at = IF attr = Keep THEN V[i].at ELSE attr
              ELSE \/ u.v[i] = V[i]
                   \/ RunStart(x) + (k + 1) > RunEnd /\ i \in RunEnd - screen_cols .. RunEnd - 1
  <2> DEFINE before == i \in RunStart(x) .. Lesser(RunStart(x) + k, RunEnd) - 1
             after == i \in RunStart(x) .. Lesser(RunStart(x) + (k + 1), RunEnd) - 1
             over == RunStart(x) + k > RunEnd /\ i \in RunEnd - screen_cols .. RunEnd - 1
             over1 == RunStart(x) + (k + 1) > RunEnd /\ i \in RunEnd - screen_cols .. RunEnd - 1
  <2>1. /\ i # j => (after <=> before) /\ (over => over1)
        /\ i = j /\ after /\ ~ before => ~ over
        /\ i = j /\ ~ after => over1
        /\ before => after
    <3>1. /\ RunStart(x) = b + x /\ RunEnd = b + PageSize /\ j = b + y
          /\ Lesser(RunStart(x) + k, RunEnd) = IF b + x + k < b + PageSize THEN b + x + k ELSE b + PageSize
          /\ Lesser(RunStart(x) + (k + 1), RunEnd)
               = IF b + x + k + 1 < b + PageSize THEN b + x + k + 1 ELSE b + PageSize
      BY <1>4, <1>5 DEF Lesser
    <3>2. x \in Int /\ y \in Int /\ b \in Int /\ i \in Int /\ k \in Nat /\ x >= 0 /\ x < PageSize
          /\ y < PageSize /\ y >= 0
      BY <1>4
    <3> QED BY <1>2, <1>4, <3>1, <3>2
  <2>2. IF before THEN t.v[i].ch = ch /\ t.v[i].at = IF attr = Keep THEN V[i].at ELSE attr
        ELSE t.v[i] = V[i] \/ over
    BY <1>10
  <2>3. u.v[i] = IF i = j THEN cell ELSE t.v[i]
    BY <1>7
  <2> SUFFICES IF after THEN u.v[i].ch = ch /\ u.v[i].at = IF attr = Keep THEN V[i].at ELSE attr
               ELSE u.v[i] = V[i] \/ over1
    OBVIOUS
  <2> HIDE DEF before, after, over, over1
  <2>4. CASE i # j
    BY <2>1, <2>2, <2>3, <2>4
  <2>5. CASE i = j
    <3>1. after => t.v[i].at = V[i].at \/ t.v[i].at = attr \/ attr # Keep
      BY <2>1, <2>2, <2>5
    <3>2. after /\ attr = Keep => t.v[i].at = V[i].at
      BY <2>1, <2>2, <2>5
    <3>3. u.v[i].ch = ch /\ u.v[i].at = IF attr = Keep THEN t.v[i].at ELSE attr
      BY <1>8, <2>3, <2>5
    <3> QED BY <2>1, <2>5, <3>2, <3>3
  <2> QED BY <2>4, <2>5
<1>12. IsCells(u.v, n)
  BY <1>7 DEF IsCells
<1> QED BY <1>6, <1>9, <1>11, <1>12 DEF RunShown, u

\* What the property says of a run.
RunIsShown(req) ==
    OnScreen(cursor[active]) =>
      \A i \in DOMAIN vram :
        IF i \in CellAt(active, cursor[active])
                 .. Lesser(CellAt(active, cursor[active]) + req.count, (active + 1) * PageSize) - 1
        THEN /\ vram'[i].ch = req.ch
             /\ vram'[i].at = IF req.attr = Keep THEN vram[i].at ELSE req.attr
        ELSE \/ vram'[i] = vram[i]
             \/ CellAt(active, cursor[active]) + req.count > (active + 1) * PageSize
                /\ i \in (active + 1) * PageSize - screen_cols .. (active + 1) * PageSize - 1

LEMMA RunPrints ==
    ASSUME NEW n, ScreenFits(n), NEW ch, NEW attr, NEW many \in Runs, video_write_char(ch, attr, many)
    PROVE  /\ RunIsShown(shown') /\ shown'.op = "run"
           /\ IsText([v |-> vram', cur |-> cursor'], n) /\ UNCHANGED <<active, screen_cols>>
<1> DEFINE a == [v |-> vram, pos |-> cursor[active]]
           Ran[k \in 0 .. many] == IF k = 0 THEN a ELSE RunOne(Ran[k - 1], ch, attr)
<1>1. /\ shown' = [op |-> "run", ch |-> ch, attr |-> attr, count |-> many]
      /\ vram' = Ran[many].v /\ cursor' = cursor /\ UNCHANGED <<active, screen_cols>>
  BY DEF video_write_char, Serves, RunOne
<1>2. /\ Fits(n) /\ active \in PageNumbers /\ IsCells(vram, n)
      /\ cursor = [q \in PageNumbers |-> cursor[q]]
      /\ \A q \in PageNumbers : cursor[q] \in [row : Nat, col : Nat]
  BY ScreenFitsIs
<1>3a. PICK L \in Nat : L = many
  BY TextScreenAssumption
<1>3. PICK T : L = many /\ T = Ran
  BY <1>3a
<1>4. T = RunOf(ch, attr, a, L)
  <2> HIDE DEF a
  <2> QED BY <1>3 DEF RunOf
<1> HIDE DEF Ran
<1>5. T[0] = a /\ \A k \in 1 .. L : T[k] = RunOne(T[k - 1], ch, attr)
  BY <1>4, RunIs
<1>6. IsCells(T[L].v, n)
  <2> DEFINE S == {k \in Nat : k <= L => IsCells(T[k].v, n)}
  <2>1. 0 \in S
    BY <1>2, <1>5
  <2>2. ASSUME NEW k \in Nat, k \in S PROVE k + 1 \in S
    <3> SUFFICES ASSUME k + 1 <= L PROVE IsCells(T[k + 1].v, n)
      OBVIOUS
    <3>1. k + 1 \in 1 .. L /\ (k + 1) - 1 = k /\ IsCells(T[k].v, n)
      BY <2>2
    <3>2. PICK t : t = T[k] /\ T[k + 1] = RunOne(t, ch, attr)
      BY <1>5, <3>1
    <3>3. PICK j, cell : RunOne(t, ch, attr).v = WithCell(t.v, j, cell)
      BY DEF RunOne
    <3>4. IsCells(WithCell(t.v, j, cell), n)
      BY <3>1, <3>2 DEF WithCell, IsCells
    <3> QED BY <3>2, <3>3, <3>4
  <2> HIDE DEF S
  <2>3. L \in S
    BY <2>1, <2>2, Induction
  <2> QED BY <2>3 DEF S
<1>7. IsText([v |-> vram', cur |-> cursor'], n)
  BY <1>1, <1>2, <1>3, <1>6 DEF IsText
<1>8. ASSUME OnScreen(cursor[active])
      PROVE  \E x \in 0 .. PageSize - 1 :
                cursor[active] = CursorAt(x) /\ RunShown(T[L], n, x, ch, attr, vram, L)
  <2>1. PICK pos \in [row : Nat, col : Nat] : pos = cursor[active]
    BY <1>2
  <2>2. PICK x \in 0 .. PageSize - 1 : cursor[active] = CursorAt(x)
    BY <1>2, <1>8, <2>1, OnScreenIs
  <2>3. PICK V : V = vram
    OBVIOUS
  <2> DEFINE S == {k \in Nat : k <= L => RunShown(T[k], n, x, ch, attr, V, k)}
  <2>4. 0 \in S
    <3>1. x + 0 = x /\ x < PageSize /\ RunStart(x) \in Int
      <4>1. Place(active, x) \in 0 .. n - 1 /\ PageSize \in Nat
        BY <1>2, PlaceIs, TextSizes
      <4> QED BY <1>2, <4>1 DEF RunStart, Fits
    <3>2. RunStart(x) + 0 = RunStart(x) /\ RunStart(x) < RunEnd /\ RunEnd \in Int
      <4>1. active \in Nat /\ PageSize \in Nat
        BY <1>2, TextSizes DEF PageNumbers
      <4>2. PICK b \in Nat : b = active * PageSize
        BY <4>1
      <4> QED BY <3>1, <4>1, <4>2 DEF RunStart, RunEnd, Place
    <3>3. \A i \in Int : i \notin RunStart(x) .. Lesser(RunStart(x) + 0, RunEnd) - 1
      BY <3>1, <3>2 DEF Lesser
    <3>4. /\ T[0] = [v |-> T[0].v, pos |-> T[0].pos] /\ T[0].v = V /\ IsCells(T[0].v, n)
          /\ T[0].pos = CursorAt(x)
      BY <1>2, <1>5, <2>2, <2>3
    <3>5. \A i \in 0 .. n - 1 : i \in Int
      BY <1>2 DEF Fits
    <3>6. RunShown(T[0], n, x, ch, attr, V, 0)
      BY <3>1, <3>3, <3>4, <3>5 DEF RunShown
    <3> QED BY <3>6
  <2>5. ASSUME NEW k \in Nat, k \in S PROVE k + 1 \in S
    <3> SUFFICES ASSUME k + 1 <= L PROVE RunShown(T[k + 1], n, x, ch, attr, V, k + 1)
      OBVIOUS
    <3>1. k + 1 \in 1 .. L /\ (k + 1) - 1 = k /\ RunShown(T[k], n, x, ch, attr, V, k)
      BY <2>5
    <3>2. T[k + 1] = RunOne(T[k], ch, attr)
      BY <1>5, <3>1
    <3>3. RunShown(RunOne(T[k], ch, attr), n, x, ch, attr, V, k + 1)
      BY <1>2, <3>1, RunStep
    <3> QED BY <3>2, <3>3
  <2> HIDE DEF S
  <2>6. L \in S
    BY <2>4, <2>5, Induction
  <2>7. RunShown(T[L], n, x, ch, attr, V, L)
    BY <2>6 DEF S
  <2> QED BY <2>2, <2>3, <2>7
<1>9. RunIsShown(shown')
  <2>1. PICK req : req = shown' /\ req.ch = ch /\ req.attr = attr /\ req.count = L
    BY <1>1, <1>3
  <2> SUFFICES ASSUME OnScreen(cursor[active]) PROVE RunIsShown(req)
    BY <2>1 DEF RunIsShown
  <2>2. PICK x \in 0 .. PageSize - 1 :
           cursor[active] = CursorAt(x) /\ RunShown(T[L], n, x, ch, attr, vram, L)
    BY <1>8
  <2>3. PICK start, end : start = RunStart(x) /\ end = RunEnd
    OBVIOUS
  <2>4. \A i \in 0 .. n - 1 :
           IF i \in start .. Lesser(start + L, end) - 1
           THEN vram'[i].ch = ch /\ vram'[i].at = IF attr = Keep THEN vram[i].at ELSE attr
           ELSE \/ vram'[i] = vram[i]
                \/ start + L > end /\ i \in end - screen_cols .. end - 1
    BY <1>1, <1>3, <2>2, <2>3 DEF RunShown
  <2>5. CellAt(active, cursor[active]) = start
    <3>1. CellAt(active, CursorAt(x)) = Place(active, x)
      BY <1>2, CursorIs
    <3> QED BY <2>2, <2>3, <3>1 DEF RunStart
  <2>6. (active + 1) * PageSize = end
    <3>1. active \in Nat /\ PageSize \in Nat
      BY <1>2, TextSizes DEF PageNumbers
    <3>2. (active + 1) * PageSize = active * PageSize + PageSize
      BY <3>1
    <3> QED BY <2>3, <3>2 DEF RunEnd, Place
  <2>7. DOMAIN vram = 0 .. n - 1
    BY <1>2 DEF IsCells
  <2> QED BY <2>1, <2>4, <2>5, <2>6, <2>7 DEF RunIsShown
<1> QED BY <1>1, <1>7, <1>9, SMTT(30)

\* The other services.
LEMMA OthersFit ==
    ASSUME NEW n, ScreenFits(n),
           \/ \E page \in PageNumbers : SetActivePage(page) \/ \E pos \in Spots : SetCursor(page, pos)
           \/ \E width \in Widths, keep \in BOOLEAN : SetMode(width, keep)
    PROVE  ScreenFits(n)' /\ shown'.op = "other"
<1>1. /\ Fits(n) /\ active \in PageNumbers /\ IsCells(vram, n)
      /\ cursor = [q \in PageNumbers |-> cursor[q]]
      /\ \A q \in PageNumbers : cursor[q] \in [row : Nat, col : Nat]
      /\ n \in Nat /\ \A w \in Widths : NPages * (w * Rows) <= n
      /\ screen_cols \in Widths
  BY ScreenFitsIs DEF ScreenFits
<1>2. ASSUME screen_cols' \in Widths, active' \in PageNumbers, IsText([v |-> vram', cur |-> cursor'], n)
      PROVE  ScreenFits(n)'
  BY <1>1, <1>2 DEF ScreenFits, IsText, IsCells, PageNumbers
<1>3. ASSUME NEW page \in PageNumbers, SetActivePage(page)
      PROVE  ScreenFits(n)' /\ shown'.op = "other"
  <2>1. /\ vram' = vram /\ cursor' = cursor /\ active' = page /\ screen_cols' = screen_cols
        /\ shown' = [op |-> "other"]
    BY <1>3 DEF SetActivePage, Serves
  <2>2. IsText([v |-> vram', cur |-> cursor'], n)
    BY <1>1, <2>1 DEF IsText
  <2> QED BY <1>1, <1>2, <2>1, <2>2
<1>4. ASSUME NEW page \in PageNumbers, NEW pos \in Spots, SetCursor(page, pos)
      PROVE  ScreenFits(n)' /\ shown'.op = "other"
  <2>1. /\ vram' = vram /\ cursor' = [cursor EXCEPT ![page] = pos] /\ active' = active
        /\ screen_cols' = screen_cols /\ shown' = [op |-> "other"]
    BY <1>4 DEF SetCursor, Serves
  <2>2. pos \in [row : Nat, col : Nat]
    BY TextScreenAssumption
  <2>3. IsText([v |-> vram', cur |-> cursor'], n)
    BY <1>1, <2>1, <2>2, CursorMoved
  <2> QED BY <1>1, <1>2, <2>1, <2>3
<1>5. ASSUME NEW width \in Widths, NEW keep \in BOOLEAN, SetMode(width, keep)
      PROVE  ScreenFits(n)' /\ shown'.op = "other"
  <2>1. /\ vram' = IF keep THEN vram
                   ELSE [i \in DOMAIN vram |-> IF i < width * Rows THEN Blank(Normal) ELSE vram[i]]
        /\ cursor' = [p \in PageNumbers |-> [row |-> 0, col |-> 0]] /\ active' = 0
        /\ screen_cols' = width /\ shown' = [op |-> "other"]
    BY <1>5 DEF SetMode, Serves
  <2>2. IsCells(vram', n)
    BY <1>1, <2>1 DEF IsCells
  <2>3. IsText([v |-> vram', cur |-> cursor'], n)
    BY <2>1, <2>2 DEF IsText
  <2>4. 0 \in PageNumbers
    BY <1>1, TextSizes DEF PageNumbers
  <2> QED BY <1>2, <2>1, <2>3, <2>4
<1> QED BY <1>3, <1>4, <1>5

LEMMA ScreenStep ==
    ASSUME NEW n, ScreenFits(n), ScreenNext
    PROVE  /\ ScreenFits(n)'
           /\ shown'.op = "text" => TextShown(shown')
           /\ shown'.op = "scroll" => WindowMoved(shown')
           /\ shown'.op = "run" => RunIsShown(shown')
<1>1. ASSUME IsText([v |-> vram', cur |-> cursor'], n), UNCHANGED <<active, screen_cols>>
      PROVE  ScreenFits(n)'
  BY <1>1 DEF ScreenFits, IsText, IsCells, PageNumbers
<1>2. ASSUME NEW ch \in Typing, TtyOutput(ch)
      PROVE  ScreenFits(n)' /\ shown'.op = "text" /\ TextShown(shown')
  BY <1>1, <1>2, TtyPrints
<1>3. ASSUME NEW page \in PageNumbers, NEW pos \in Spots, NEW text \in Strings, NEW updates \in BOOLEAN,
             NEW attr \in Attrs, WriteString(page, pos, text, attr, updates)
      PROVE  ScreenFits(n)' /\ shown'.op = "text" /\ TextShown(shown')
  BY <1>1, <1>3, StringPrints
<1>4. ASSUME NEW attr \in Attrs \cup {Keep}, NEW many \in Runs, video_write_char("x", attr, many)
      PROVE  ScreenFits(n)' /\ shown'.op = "run" /\ RunIsShown(shown')
  <2>1. PICK ch : ch = "x"
    OBVIOUS
  <2>2. video_write_char(ch, attr, many)
    BY <1>4, <2>1
  <2>3. /\ RunIsShown(shown') /\ shown'.op = "run"
        /\ IsText([v |-> vram', cur |-> cursor'], n) /\ UNCHANGED <<active, screen_cols>>
    BY <2>2, RunPrints
  <2> QED BY <1>1, <2>3
<1>5. ASSUME NEW dir \in {"up", "down"}, NEW window \in Windows, NEW attr \in Attrs, Scroll(dir, window, attr)
      PROVE  ScreenFits(n)' /\ shown'.op = "scroll" /\ WindowMoved(shown')
  BY <1>1, <1>5, ScrollMoves
<1>6. CASE \/ \E page \in PageNumbers : SetActivePage(page) \/ \E pos \in Spots : SetCursor(page, pos)
           \/ \E width \in Widths, keep \in BOOLEAN : SetMode(width, keep)
  BY <1>6, OthersFit
<1> QED BY <1>2, <1>3, <1>4, <1>5, <1>6 DEF ScreenNext

LEMMA ScreenStarts ==
    ASSUME ScreenInit
    PROVE  ScreenInv
<1> DEFINE n == NPages * PageSize
<1>1. /\ screen_cols \in Widths /\ \A w \in Widths : w <= screen_cols
      /\ vram = [i \in 0 .. n - 1 |-> [ch |-> ToString(i), at |-> Normal]]
      /\ cursor = [p \in PageNumbers |-> [row |-> 0, col |-> 0]] /\ active = 0
  BY DEF ScreenInit
<1>2. /\ screen_cols \in Nat /\ Rows \in Nat /\ NPages \in Nat /\ NPages > 0 /\ \A w \in Widths : w \in Nat
      /\ PageSize = screen_cols * Rows
  BY <1>1, TextScreenAssumption DEF PageSize
<1>3. n \in Nat
  <2>1. PageSize \in Nat
    BY <1>2
  <2> QED BY <1>2, <2>1
<1>4. ASSUME NEW w \in Widths PROVE NPages * (w * Rows) <= n
  <2>1. PICK d \in Nat : screen_cols = w + d
    <3>1. screen_cols - w \in Nat /\ screen_cols = w + (screen_cols - w)
      BY <1>1, <1>2
    <3> QED BY <3>1
  <2>2. PICK a \in Nat, b \in Nat : a = w * Rows /\ b = d * Rows
    <3>1. w * Rows \in Nat /\ d * Rows \in Nat
      BY <1>2
    <3> QED BY <3>1
  <2>3. PageSize = a + b
    <3>1. w \in Nat /\ (w + d) * Rows = w * Rows + d * Rows
      BY <1>2
    <3> QED BY <1>2, <2>1, <2>2, <3>1
  <2>4. NPages * (a + b) = NPages * a + NPages * b /\ NPages * b \in Nat /\ NPages * a \in Nat
    BY <1>2
  <2> QED BY <2>2, <2>3, <2>4
<1> HIDE DEF n
<1>5. IsText([v |-> vram, cur |-> cursor], n)
  BY <1>1 DEF IsText, IsCells
<1>6. active \in PageNumbers
  BY <1>1, <1>2 DEF PageNumbers
<1>7. ScreenFits(n)
  BY <1>1, <1>3, <1>4, <1>5, <1>6 DEF ScreenFits
<1> QED BY <1>7 DEF ScreenInv

\* Whatever the modes, the screen, the texts, the windows and the runs: the screen
\* shows the text that is written, scrolls move the cells of their windows, and runs
\* of characters are in reading order (ScreenShowsText).
THEOREM TextIsShown ==
    ScreenInit /\ [][ScreenNext]_screen => ScreenShowsText
<1> DEFINE Shows ==
             LET req == shown'
                 start == CellAt(active, cursor[active])
             IN  /\ /\ req.op = "text" /\ OnScreen(req.from)
                    /\ req.page = 0 \/ Above(req) = 0
                    /\ req.page = active \/ \A n \in DOMAIN req.text : req.text[n] \notin Controls
                    => PrintedOnPaper(req)
                 /\ req.op = "scroll" => WindowMoved(req)
                 /\ /\ req.op = "run" /\ OnScreen(cursor[active])
                    => \A i \in DOMAIN vram :
                          IF i \in start .. Lesser(start + req.count, (active + 1) * PageSize) - 1
                          THEN /\ vram'[i].ch = req.ch
                               /\ vram'[i].at = IF req.attr = Keep THEN vram[i].at ELSE req.attr
                          ELSE \/ vram'[i] = vram[i]
                               \/ start + req.count > (active + 1) * PageSize
                                  /\ i \in (active + 1) * PageSize - screen_cols
                                           .. (active + 1) * PageSize - 1
<1>1. ScreenInit => ScreenInv
  BY ScreenStarts
<1>2. ScreenInv /\ [ScreenNext]_screen => ScreenInv' /\ [Shows]_screen
  <2> SUFFICES ASSUME ScreenInv, [ScreenNext]_screen PROVE ScreenInv' /\ [Shows]_screen
    OBVIOUS
  <2>1. PICK n : ScreenFits(n)
    BY DEF ScreenInv
  <2>2. CASE ScreenNext
    <3>1. /\ ScreenFits(n)'
          /\ shown'.op = "text" => TextShown(shown')
          /\ shown'.op = "scroll" => WindowMoved(shown')
          /\ shown'.op = "run" => RunIsShown(shown')
      BY <2>1, <2>2, ScreenStep
    <3>2. PICK req : req = shown'
      OBVIOUS
    <3>3. Shows
      BY <3>1, Zenon DEF TextShown, RunIsShown
    <3>4. ScreenInv'
      BY <3>1 DEF ScreenInv
    <3> QED BY <3>3, <3>4
  <2>3. CASE UNCHANGED screen
    <3>1. ScreenFits(n)'
      BY <2>1, <2>3 DEF ScreenFits, IsText, IsCells, PageNumbers, screen
    <3> QED BY <2>3, <3>1 DEF ScreenInv
  <2> QED BY <2>2, <2>3
<1> QED BY <1>1, <1>2, PTL DEF ScreenShowsText
=============================================================================
