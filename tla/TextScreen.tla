----------------------------- MODULE TextScreen -----------------------------
(***************************************************************************)
(* The text services of INT 10h (dos_bios.cc).                             *)
(*                                                                         *)
(* Video memory is the cells of the pages, one page after the other; what  *)
(* is written behind the last page is not modelled, and neither is the     *)
(* memory of the monochrome mode, which is elsewhere.  Guests name pages   *)
(* that are there.                                                         *)
(***************************************************************************)
EXTENDS Integers, Sequences, TLC

CONSTANTS
    Widths,         \* columns of the text modes (40, 80)
    Rows,           \* 25
    NPages,         \* 8
    Attrs, Normal,  \* attributes calls give, and the one of cleared cells (07h)
    Keep,           \* FFh: the attribute that stands for the one a cell has
    Banner,         \* printed before the first character
    Typing,         \* characters and control characters that AH=0Eh is called with
    Strings,        \* and the strings of AH=13h
    Runs,           \* counts of AH=09h and 0Ah
    Windows,        \* of scrolls: [top, left, bottom, right, lines]
    Spots,          \* where cursors are put: [row, col]
    MaxShown        \* bound: calls

ASSUME TextScreenAssumption ==
    /\ Rows \in Nat \ {0} /\ NPages \in Nat \ {0} /\ Widths \subseteq Nat \ {0}
    /\ Spots \subseteq [row : Nat, col : Nat] /\ Runs \subseteq Nat
    /\ Windows \subseteq [top : Nat, left : Nat, bottom : Nat, right : Nat, lines : Nat]
    /\ \A text \in Strings \cup {Banner} : text = [n \in 1 .. Len(text) |-> text[n]] /\ Len(text) \in Nat

VARIABLES
    vram,
    cursor,         \* CURSOR_POS of the pages
    active,         \* ACTIVE_PAGE
    screen_cols,
    banner_shown,
    shown,          \* history: the last call
    nshown

screen == <<vram, cursor, active, screen_cols, banner_shown, shown, nshown>>

PageNumbers == 0 .. NPages - 1
Controls == {"BEL", "BS", "LF", "CR"}
Blank(attr) == [ch |-> " ", at |-> attr]
PageSize == screen_cols * Rows
CellAt(page, pos) == page * PageSize + pos.row * screen_cols + pos.col
WithCell(v, i, cell) == IF i \in DOMAIN v THEN [v EXCEPT ![i] = cell] ELSE v

-----------------------------------------------------------------------------
(* video_scroll: rows of a window are moved one by one, in page 0.         *)

Lesser(a, b) == IF a < b THEN a ELSE b

MoveRow(v, w, dst, src) ==
    [i \in DOMAIN v |->
        IF i \div screen_cols = dst /\ i % screen_cols \in w.left .. w.right
        THEN v[i + (src - dst) * screen_cols] ELSE v[i]]

Cleared(v, w, rows, attr) ==
    [i \in DOMAIN v |->
        IF i \div screen_cols \in rows /\ i % screen_cols \in w.left .. w.right
        THEN Blank(attr) ELSE v[i]]

\* Bug: lines move down from the top, over the ones still to move.
RowTopFirst(dir, w, k) == IF dir = "up" THEN w.top + k - 1 ELSE w.top + w.lines + k - 1

\* The row that is moved to k-th.
RowInOrder(dir, w, k) == IF dir = "up" THEN w.top + k - 1 ELSE w.bottom - k + 1

Source(dir, w, r) == IF dir = "up" THEN r + w.lines ELSE r - w.lines

video_scroll(v, dir, window, attr) ==
    LET w == [window EXCEPT !.bottom = Lesser(@, Rows - 1), !.right = Lesser(@, screen_cols - 1)]
        n == w.bottom - w.top + 1 - w.lines
        Moved[k \in 0 .. n] ==
            IF k = 0 THEN v
            ELSE LET r == RowInOrder(dir, w, k) IN MoveRow(Moved[k - 1], w, r, Source(dir, w, r))
    IN  IF window.top > window.bottom \/ window.left > window.right THEN v
        ELSE IF w.lines = 0 \/ w.lines > w.bottom - w.top + 1
        THEN Cleared(v, w, w.top .. w.bottom, attr)
        ELSE Cleared(Moved[n], w,
                     IF dir = "up" THEN w.bottom - w.lines + 1 .. w.bottom
                     ELSE w.top .. w.top + w.lines - 1,
                     attr)

WholeScreen == [top |-> 0, left |-> 0, bottom |-> Rows - 1, right |-> screen_cols - 1, lines |-> 1]

-----------------------------------------------------------------------------
(* Text.  t is video memory and the cursors in the course of a call.       *)

\* Into the next row, at the end of one; behind the last the screen scrolls.
Settled(t, page, attr) ==
    LET pos == t.cur[page]
        wrapped == IF pos.col >= screen_cols THEN [row |-> pos.row + 1, col |-> 0] ELSE pos
    IN  IF wrapped.row < Rows THEN [t EXCEPT !.cur[page] = wrapped]
        ELSE [v |-> video_scroll(t.v, "up", WholeScreen, attr),
              cur |-> [t.cur EXCEPT ![page] = [row |-> Rows - 1, col |-> wrapped.col]]]

Advanced(t, page, cell, attr) ==
    Settled([v |-> WithCell(t.v, CellAt(page, t.cur[page]), cell),
             cur |-> [t.cur EXCEPT ![page].col = @ + 1]], page, attr)

video_tty(t, ch) ==
    LET pos == t.cur[active]
        i == CellAt(active, pos)
    IN  CASE ch = "BEL" -> t
          [] ch = "BS" -> [t EXCEPT !.cur[active].col = IF @ > 0 THEN @ - 1 ELSE @]
          [] ch = "CR" -> [t EXCEPT !.cur[active].col = 0]
          [] ch = "LF" ->
               IF pos.row + 1 < Rows THEN [t EXCEPT !.cur[active].row = @ + 1]
               ELSE [v |-> video_scroll(t.v, "up", WholeScreen, Normal),
                     cur |-> [t.cur EXCEPT ![active].row = Rows - 1]]
          [] OTHER ->
               Advanced(t, active,
                        [ch |-> ch, at |-> IF i \in DOMAIN t.v THEN t.v[i].at ELSE Normal], Normal)

Serves(what) == nshown < MaxShown /\ nshown' = nshown + 1 /\ shown' = what

\* AH=0Eh.
TtyOutput(ch) ==
    LET first == ~ banner_shown /\ ch \notin Controls
        text  == IF first THEN Append(Banner, ch) ELSE <<ch>>
        Typed[n \in 0 .. Len(text)] ==
            IF n = 0 THEN [v |-> vram, cur |-> cursor] ELSE video_tty(Typed[n - 1], text[n])
        t     == Typed[Len(text)]
    IN  /\ Serves([op |-> "text", page |-> active, text |-> text, keeps |-> TRUE,
                   from |-> cursor[active], moves |-> TRUE])
        /\ vram' = t.v /\ cursor' = t.cur
        /\ banner_shown' = (banner_shown \/ first)
        /\ UNCHANGED <<active, screen_cols>>

\* AH=13h: control characters go to the active page, whatever page is written.
WriteString(page, pos, text, attr, updates) ==
    LET Write(t, ch) == IF ch \in Controls THEN video_tty(t, ch)
                        ELSE Advanced(t, page, [ch |-> ch, at |-> attr], attr)
        Typed[n \in 0 .. Len(text)] ==
            IF n = 0 THEN [v |-> vram, cur |-> [cursor EXCEPT ![page] = pos]]
            ELSE Write(Typed[n - 1], text[n])
        t == Typed[Len(text)]
    IN  /\ Serves([op |-> "text", page |-> page, text |-> text, keeps |-> FALSE,
                   attr |-> attr, from |-> pos, moves |-> updates])
        /\ vram' = t.v
        /\ cursor' = IF updates THEN t.cur ELSE [t.cur EXCEPT ![page] = cursor[page]]
        /\ UNCHANGED <<active, screen_cols, banner_shown>>

\* AH=09h and 0Ah: behind the last row the last row is written again.
video_write_char(ch, attr, count) ==
    LET Write(t) ==
          LET i == CellAt(active, t.pos)
              at == IF attr = Keep /\ i \in DOMAIN t.v THEN t.v[i].at ELSE attr
          IN  [v |-> WithCell(t.v, i, [ch |-> ch, at |-> at]),
               pos |-> IF t.pos.col + 1 < screen_cols THEN [t.pos EXCEPT !.col = @ + 1]
                       ELSE [row |-> Lesser(t.pos.row + 1, Rows - 1), col |-> 0]]
        Written[n \in 0 .. count] ==
            IF n = 0 THEN [v |-> vram, pos |-> cursor[active]] ELSE Write(Written[n - 1])
    IN  /\ Serves([op |-> "run", ch |-> ch, attr |-> attr, count |-> count])
        /\ vram' = Written[count].v
        /\ UNCHANGED <<cursor, active, screen_cols, banner_shown>>

-----------------------------------------------------------------------------
(* The other services. *)

Scroll(dir, window, attr) ==
    /\ Serves([op |-> "scroll", dir |-> dir, window |-> window, attr |-> attr])
    /\ vram' = video_scroll(vram, dir, window, attr)
    /\ UNCHANGED <<cursor, active, screen_cols, banner_shown>>

SetCursor(page, pos) ==
    /\ Serves([op |-> "other"])
    /\ cursor' = [cursor EXCEPT ![page] = pos]
    /\ UNCHANGED <<vram, active, screen_cols, banner_shown>>

SetActivePage(page) ==
    /\ Serves([op |-> "other"])
    /\ active' = page
    /\ UNCHANGED <<vram, cursor, screen_cols, banner_shown>>

\* video_set_mode_ex: the first page is cleared, unless AL has bit 7.
SetMode(width, keep_buffer) ==
    /\ Serves([op |-> "other"])
    /\ screen_cols' = width
    /\ vram' = IF keep_buffer THEN vram
               ELSE [i \in DOMAIN vram |-> IF i < width * Rows THEN Blank(Normal) ELSE vram[i]]
    /\ cursor' = [p \in PageNumbers |-> [row |-> 0, col |-> 0]]
    /\ active' = 0
    /\ UNCHANGED banner_shown

ScreenInit ==
    /\ screen_cols \in Widths /\ \A w \in Widths : w <= screen_cols
    /\ vram = [i \in 0 .. NPages * PageSize - 1 |-> [ch |-> ToString(i), at |-> Normal]]
    /\ banner_shown = FALSE
    /\ cursor = [p \in PageNumbers |-> [row |-> 0, col |-> 0]]
    /\ active = 0 /\ shown = [op |-> "other"] /\ nshown = 0

ScreenNext ==
    \/ \E ch \in Typing : TtyOutput(ch)
    \/ \E page \in PageNumbers, pos \in Spots, text \in Strings, updates \in BOOLEAN :
          \E attr \in Attrs : WriteString(page, pos, text, attr, updates)
    \/ \E attr \in Attrs \cup {Keep}, count \in Runs : video_write_char("x", attr, count)
    \/ \E dir \in {"up", "down"}, window \in Windows, attr \in Attrs : Scroll(dir, window, attr)
    \/ \E page \in PageNumbers : SetActivePage(page) \/ \E pos \in Spots : SetCursor(page, pos)
    \/ \E width \in Widths, keep \in BOOLEAN : SetMode(width, keep)

-----------------------------------------------------------------------------
(* Properties.                                                             *)

\* Text as a printer puts it on paper that has no end: paper positions before and
\* after each character, and the lines that are then above the screen.
Next1(v, ch) == CASE ch = "BEL" -> v
                  [] ch = "BS" -> IF v % screen_cols > 0 THEN v - 1 ELSE v
                  [] ch = "CR" -> v - (v % screen_cols)
                  [] ch = "LF" -> v + screen_cols
                  [] OTHER -> v + 1
Positions(c) ==
    LET p[n \in 0 .. Len(c.text)] ==
          IF n = 0 THEN c.from.row * screen_cols + c.from.col ELSE Next1(p[n - 1], c.text[n])
    IN  p
Above(c) == LET p == Positions(c)
                over == {(p[n] \div screen_cols) - (Rows - 1) : n \in DOMAIN p}
            IN  CHOOSE k \in over \cup {0} : \A j \in over \cup {0} : j <= k
OnScreen(pos) == pos.row < Rows /\ pos.col < screen_cols

PrintedOnPaper(c) ==
    LET p == Positions(c)
        k == Above(c)
        Old(v) == IF v < PageSize THEN vram[c.page * PageSize + v] ELSE Blank(Normal)
        Written(v) == {n \in 1 .. Len(c.text) : c.text[n] \notin Controls /\ p[n - 1] = v}
        NowAt(i) == vram'[c.page * PageSize + i]
        at(v) == IF c.keeps THEN Old(v).at ELSE c.attr
    IN  /\ \A i \in 0 .. PageSize - 1 :
             LET v == i + k * screen_cols
             IN  IF Written(v) # {}
                 THEN \E n \in Written(v) : /\ \A m \in Written(v) : m <= n
                                            /\ NowAt(i) = [ch |-> c.text[n], at |-> at(v)]
                 ELSE IF v < PageSize THEN NowAt(i) = Old(v)
                 ELSE NowAt(i).ch = " " /\ NowAt(i).at \in {Normal, at(v)}
        /\ \A i \in DOMAIN vram : i \div PageSize # c.page => vram'[i] = vram[i]
        /\ \A q \in PageNumbers \ {c.page} : cursor'[q] = cursor[q]
        /\ IF c.moves
           THEN cursor'[c.page].row * screen_cols + cursor'[c.page].col
                = p[Len(c.text)] - k * screen_cols
           ELSE cursor'[c.page] = cursor[c.page]

\* What a scroll leaves in each cell, in or out of its window.
WindowMoved(c) ==
    LET w == c.window
        d == IF c.dir = "up" THEN w.lines ELSE - w.lines
        in(r, col) == r \in w.top .. w.bottom /\ col \in w.left .. w.right /\ r < Rows
    IN  \A i \in DOMAIN vram :
          LET r == i \div screen_cols
              col == i % screen_cols
          IN  vram'[i] = IF ~ in(r, col) THEN vram[i]
                         ELSE IF w.lines # 0 /\ in(r + d, col) THEN vram[i + d * screen_cols]
                         ELSE Blank(c.attr)

\* The screen shows the last rows of the paper: text is never lost but off the top,
\* a line is scrolled once and as a whole, the cursor is behind the last character,
\* and other pages and cursors are not touched.  (Text that scrolls moves page 0
\* whatever page it is for, and control characters of a string for another page go
\* to the active one: neither is said anything of.)  A scroll moves each cell of
\* its window by the lines asked for, and a run of characters is in reading order.
ScreenShowsText ==
    [][LET c == shown'
           start == CellAt(active, cursor[active])
       IN  /\ /\ c.op = "text" /\ OnScreen(c.from)
              /\ c.page = 0 \/ Above(c) = 0
              /\ c.page = active \/ \A n \in DOMAIN c.text : c.text[n] \notin Controls
              => PrintedOnPaper(c)
           /\ c.op = "scroll" => WindowMoved(c)
           /\ /\ c.op = "run" /\ OnScreen(cursor[active])
              => \A i \in DOMAIN vram :
                    IF i \in start .. Lesser(start + c.count, (active + 1) * PageSize) - 1
                    THEN /\ vram'[i].ch = c.ch
                         /\ vram'[i].at = IF c.attr = Keep THEN vram[i].at ELSE c.attr
                    ELSE \/ vram'[i] = vram[i]
                         \/ start + c.count > (active + 1) * PageSize
                            /\ i \in (active + 1) * PageSize - screen_cols
                                     .. (active + 1) * PageSize - 1]_screen
=============================================================================
