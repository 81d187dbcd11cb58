----------------------------- MODULE Framebuffer -----------------------------
(***************************************************************************)
(* Graphics: the VESA services of INT 10h AH=4Fh and their ports, mode 13h *)
(* and unchained mode 13h, the memory behind A0000h and behind the linear  *)
(* aperture (emu88_mem.cc), and the frame that is given to the host.       *)
(*                                                                         *)
(* A guest draws pixels where the services told it they are.  A pixel is   *)
(* as many bytes as its mode says; a byte of it is the pixel's colour.     *)
(***************************************************************************)
EXTENDS Integers, FiniteSets

CONSTANTS
    Bank,           \* bytes of the window at A0000h (64 KB)
    svga_vram_bytes,    \* what 4F00h reports
    VesaModes,      \* [w, h, bypp]
    Width13, Height13,  \* 320 and 200
    Planes,         \* 4
    Strides,        \* pixels or bytes that 4F06h asks for
    Origins,         \* pixel and line of 4F07h
    Dots,           \* pixels that are drawn
    Colours,
    MaxDrawn        \* bound: operations

ASSUME FramebufferAssumption ==
    /\ Bank \in Nat \ {0} /\ svga_vram_bytes \in Nat \ {0} /\ Planes \in Nat \ {0}
    /\ svga_vram_bytes % Bank = 0
    /\ Width13 \in Nat /\ Height13 \in Nat /\ Width13 * Height13 <= Bank
    /\ (Width13 * Height13) % Planes = 0
    /\ VesaModes \subseteq [w : Nat \ {0}, h : Nat \ {0}, bypp : Nat \ {0}]
    /\ Strides \subseteq Nat /\ Origins \subseteq Nat \X Nat /\ Dots \subseteq Nat \X Nat

VARIABLES
    fb,             \* vesa, video_mode and the flags of emu88_mem
    svga_vram,      \* bytes from 0
    dat,            \* the memory at A0000h itself
    vga_planes,
    canvas,         \* history: the colours of the pixels drawn since the screen was cleared
    ndrawn

frame == <<fb, svga_vram, dat, vga_planes, canvas, ndrawn>>

NoMode == [w |-> 0, h |-> 0, bypp |-> 1]
WindowBytes == 0 .. Bank - 1
Nowhere == <<>>
Bigger(a, b) == IF a > b THEN a ELSE b
Zeroed(n) == [i \in 0 .. n - 1 |-> 0]

-----------------------------------------------------------------------------
(* store_mem, for the window and the aperture; st is the state.            *)

StoreLfb(st, off, v) ==
    IF off \in DOMAIN st.svga_vram THEN [st EXCEPT !.svga_vram[off] = v] ELSE st

StoreWindow(st, off, v) ==
    CASE st.fb.svga_active -> StoreLfb(st, st.fb.window_off + off, v)
      [] ~ st.fb.svga_active /\ st.fb.planar ->
           [st EXCEPT !.planes = [p \in DOMAIN @ |->
               IF p \in st.fb.map_mask THEN [@[p] EXCEPT ![off] = v] ELSE @[p]]]
      [] OTHER -> [st EXCEPT !.dat[off] = v]

Memory == [fb |-> fb, svga_vram |-> svga_vram, dat |-> dat, planes |-> vga_planes]
Becomes(st) ==
    fb' = st.fb /\ svga_vram' = st.svga_vram /\ dat' = st.dat /\ vga_planes' = st.planes

Operates == ndrawn < MaxDrawn /\ ndrawn' = ndrawn + 1

-----------------------------------------------------------------------------
(* Modes. *)

\* vesa_set_mode: bit 15 leaves the memory.
SetVesaMode(m, no_clear) ==
    LET size == Bigger(Cardinality(DOMAIN svga_vram), Bigger(m.w * m.bypp * m.h, svga_vram_bytes))
    IN  /\ Operates
        /\ svga_vram' = [i \in 0 .. size - 1 |->
                           IF no_clear /\ i \in DOMAIN svga_vram THEN svga_vram[i] ELSE 0]
        /\ fb' = [fb EXCEPT !.active = TRUE, !.mode = m, !.stride = m.w * m.bypp,
                            !.display_start = 0, !.svga_active = TRUE, !.window_off = 0,
                            !.planar = FALSE, !.start = <<0, 0>>]
        /\ canvas' = Nowhere
        /\ UNCHANGED <<dat, vga_planes>>

\* Bug: the window stays with the VESA memory.
LeavesVesa(f) == [f EXCEPT !.active = FALSE]
LeavesSvga(f) == [f EXCEPT !.active = FALSE, !.svga_active = FALSE]

\* video_set_mode_ex.
SetMode13(keep_buffer) ==
    /\ Operates
    /\ fb' = [LeavesSvga(fb) EXCEPT !.video_mode = 19, !.planar = FALSE, !.crtc_start = 0,
                                    !.map_mask = 0 .. Planes - 1]
    /\ vga_planes' = [p \in 0 .. Planes - 1 |-> Zeroed(Bank)]
    /\ IF keep_buffer THEN UNCHANGED dat
       ELSE dat' = [i \in WindowBytes |-> IF i < Width13 * Height13 THEN 0 ELSE dat[i]]
    /\ canvas' = Nowhere
    /\ UNCHANGED svga_vram

SetTextMode ==
    /\ Operates
    /\ fb' = [LeavesSvga(fb) EXCEPT !.video_mode = 3]
    /\ canvas' = Nowhere
    /\ UNCHANGED <<svga_vram, dat, vga_planes>>

\* Sequencer register 4, and registers 12 and 13 of the CRTC.
Unchain(chain4) ==
    /\ Operates /\ fb.video_mode = 19
    /\ fb' = [fb EXCEPT !.planar = ~ chain4]
    /\ canvas' = Nowhere
    /\ UNCHANGED <<svga_vram, dat, vga_planes>>

\* (A start from which the frame does not fit the planes reads on behind them.)
SetCrtcStart(start) ==
    /\ Operates /\ start + ((Width13 * Height13) \div Planes) <= Bank
    /\ fb' = [fb EXCEPT !.crtc_start = start]
    /\ canvas' = Nowhere
    /\ UNCHANGED <<svga_vram, dat, vga_planes>>

-----------------------------------------------------------------------------
(* 4F06h and 4F07h.  The guest goes by what they return: fb.stride, and    *)
(* the lines that fit.  fb.start is what it asked for (history).           *)

\* A line as wide as the screen at least; one too long for memory is not taken.
TakesStride(want) == want * fb.mode.h <= svga_vram_bytes

SetScanLine(n, in_pixels) ==
    LET asked == IF in_pixels THEN n * fb.mode.bypp ELSE n
        want  == Bigger(asked, fb.mode.w * fb.mode.bypp)
    IN  /\ Operates /\ fb.active
        /\ fb' = IF TakesStride(want) /\ want # fb.stride
                 THEN [fb EXCEPT !.stride = want, !.start = IF fb.display_start = 0 THEN <<0, 0>>
                                                            ELSE <<-1, -1>>]
                 ELSE fb
        /\ canvas' = Nowhere
        /\ UNCHANGED <<svga_vram, dat, vga_planes>>

LinesThatFit == svga_vram_bytes \div fb.stride

\* Through INT 10h, or the ports of the routines that 4F0Ah gives.
SetDisplayStart(x, y) ==
    /\ Operates /\ fb.active
    /\ fb' = [fb EXCEPT !.display_start = y * fb.stride + x * fb.mode.bypp, !.start = <<x, y>>]
    /\ UNCHANGED <<svga_vram, dat, vga_planes, canvas>>

GetDisplayStart == <<(fb.display_start % fb.stride) \div fb.mode.bypp,
                     fb.display_start \div fb.stride>>

-----------------------------------------------------------------------------
(* Drawing. *)

Painted(x, y, c) ==
    [p \in DOMAIN canvas \cup {<<x, y>>} |-> IF p = <<x, y>> THEN c ELSE canvas[p]]

\* A VESA pixel: bank by bank through the window, or through the aperture.
DrawVesa(x, y, c, linear) ==
    LET first == y * fb.stride + x * fb.mode.bypp
        StoreByte(st, addr) ==
          IF linear THEN StoreLfb(st, addr, c)
          ELSE StoreWindow([st EXCEPT !.fb.window_off = (addr \div Bank) * Bank], addr % Bank, c)
        Bytes[k \in 0 .. fb.mode.bypp] ==
          IF k = 0 THEN Memory ELSE StoreByte(Bytes[k - 1], first + k - 1)
    IN  /\ Operates /\ fb.active
        /\ (x + 1) * fb.mode.bypp <= fb.stride /\ y < LinesThatFit
        /\ Becomes(Bytes[fb.mode.bypp])
        /\ canvas' = Painted(x, y, c)

\* A pixel of mode 13h; unchained, in its plane, which the sequencer selects.
Draw13(x, y, c) ==
    LET i == y * Width13 + x
    IN  /\ Operates /\ ~ fb.active /\ fb.video_mode = 19 /\ x < Width13 /\ y < Height13
        /\ Becomes(IF fb.planar
                   THEN StoreWindow([Memory EXCEPT !.fb.map_mask = {i % Planes}],
                                    fb.crtc_start + (i \div Planes), c)
                   ELSE StoreWindow(Memory, i, c))
        /\ canvas' = Painted(x, y, c)

\* emit_video_frame: a start from which the frame does not fit counts as none.
ShownOf(x, y) ==
    LET m    == fb.mode
        size == Cardinality(DOMAIN svga_vram)
        need == (m.h - 1) * fb.stride + m.w * m.bypp
        off  == IF fb.display_start + need > size THEN 0 ELSE fb.display_start
        i    == y * Width13 + x
    IN  IF fb.active
        THEN {svga_vram[off + y * fb.stride + x * m.bypp + k] : k \in 0 .. m.bypp - 1}
        ELSE IF fb.planar THEN {vga_planes[i % Planes][fb.crtc_start + (i \div Planes)]}
        ELSE {dat[i]}

FrameInit ==
    /\ fb = [active |-> FALSE, mode |-> NoMode, stride |-> 1, display_start |-> 0,
             svga_active |-> FALSE, window_off |-> 0, planar |-> FALSE,
             map_mask |-> 0 .. Planes - 1, crtc_start |-> 0, video_mode |-> 3, start |-> <<0, 0>>]
    /\ svga_vram = Zeroed(0) /\ dat = Zeroed(Bank)
    /\ vga_planes = [p \in 0 .. Planes - 1 |-> Zeroed(Bank)]
    /\ canvas = Nowhere /\ ndrawn = 0

FrameNext ==
    \/ \E m \in VesaModes, no_clear \in BOOLEAN : SetVesaMode(m, no_clear)
    \/ \E keep \in BOOLEAN : SetMode13(keep)
    \/ SetTextMode
    \/ \E chain4 \in BOOLEAN : Unchain(chain4)
    \/ \E start \in {s[1] : s \in Origins} : SetCrtcStart(start)
    \/ \E n \in Strides, in_pixels \in BOOLEAN : SetScanLine(n, in_pixels)
    \/ \E s \in Origins : SetDisplayStart(s[1], s[2])
    \/ \E p \in Dots, c \in Colours :
          (\E linear \in BOOLEAN : DrawVesa(p[1], p[2], c, linear)) \/ Draw13(p[1], p[2], c)

-----------------------------------------------------------------------------
(* Properties.                                                             *)

\* A pixel drawn where the services say it is, through the window or the aperture,
\* is where the frame shows it, in every mode and after every change of mode, line
\* length and start; and a start is read back as it was set.  (A start outside what
\* the services reported shows the frame at 0, and one set before the line length
\* changed is another place.)
FrameShowsDrawing ==
    LET s == fb.start
        fits == \/ s = <<0, 0>>
                \/ /\ s[2] + fb.mode.h <= LinesThatFit
                   /\ (s[1] + fb.mode.w) * fb.mode.bypp <= fb.stride
    IN  IF fb.active
        THEN s[1] >= 0 /\ fits =>
               /\ GetDisplayStart = s
               /\ \A x \in 0 .. fb.mode.w - 1, y \in 0 .. fb.mode.h - 1 :
                    LET p == <<x + s[1], y + s[2]>>
                    IN  p \in DOMAIN canvas => ShownOf(x, y) = {canvas[p]}
        ELSE fb.video_mode = 19 => \A p \in DOMAIN canvas : ShownOf(p[1], p[2]) = {canvas[p]}
=============================================================================
