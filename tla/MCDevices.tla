------------------------------ MODULE MCDevices ------------------------------
(***************************************************************************)
(* The devices a guest meets one at a time, in one run.  Each behaviour is *)
(* of one of them:                                                         *)
(*                                                                         *)
(* - the ring between the emulator and the sound card of the host, whose   *)
(*   cursors wrap after two turns of its Cap slots;                        *)
(* - the Sound Blaster, playing buffers of two and three units in a DMA    *)
(*   page of four;                                                         *)
(* - the disk services, on a floppy of one head (or one with half a sector *)
(*   too much), a hard disk that is too short for a cylinder or has four   *)
(*   and a half, and a CD;                                                 *)
(* - the text services, on a screen of three rows with two pages;          *)
(* - the graphics memory, of eight bytes in banks of four;                 *)
(* - one of the chips that are programmed with several bytes.              *)
(***************************************************************************)
EXTENDS AudioRing, SoundBlaster, BiosDisk, TextScreen, Framebuffer, Chipset

MCBuffers == {[addr |-> 1, count |-> 1], [addr |-> 0, count |-> 2]}

Image(d, n) == [i \in 1 .. n |-> <<d, i>>]
MCImages == [a |-> {<<>>, Image("a", 8), Image("a", 11)},
             c |-> {<<>>, Image("c", 5), Image("c", 18)},
             cd |-> {Image("cd", 4)}]
MCFloppy == (8 :> [heads |-> 1, cyls |-> 2, spt |-> 2])
MCOther == [heads |-> 2, cyls |-> 2, spt |-> 2]
MCSigned == {<<"a", 2>>, <<"c", 2>>}
Place(ch, clhi, s, dh) == [ch |-> ch, clhi |-> clhi, sector |-> s, dh |-> dh]
MCPlaces == {Place(0, 0, 0, 0), Place(0, 0, 2, 1), Place(0, 0, 3, 0), Place(0, 0, 1, 2),
             Place(1, 0, 1, 1), Place(0, 1, 1, 0)}

Window(t, l, b, r, n) == [top |-> t, left |-> l, bottom |-> b, right |-> r, lines |-> n]
MCBanner == <<"B", "CR", "LF">>
MCStrings == {<<"p", "q", "r", "s">>, <<"BS", "p", "LF", "q", "CR", "r">>}
MCWindows == {Window(0, 0, 2, 1, 1), Window(0, 1, 5, 5, 2), Window(1, 0, 2, 0, 0),
              Window(2, 0, 1, 1, 1), Window(0, 0, 2, 2, 9)}
MCSpots == {[row |-> 0, col |-> 1], [row |-> 2, col |-> 1], [row |-> 3, col |-> 0]}

Mode(w, h, bypp) == [w |-> w, h |-> h, bypp |-> bypp]
MCModes == {Mode(2, 2, 1), Mode(2, 2, 2), Mode(3, 2, 2), Mode(1, 2, 3)}
MCOrigins == {<<0, 0>>, <<1, 0>>, <<0, 1>>, <<1, 1>>}
MCDots == {<<0, 0>>, <<1, 1>>, <<2, 1>>}

VARIABLE part

\* The other parts rest in one state of theirs.
Rests(p) ==
    /\ p # "ring" => Init
    /\ p # "card" => CardInit
    /\ p # "disk" => /\ disk = [d \in DriveSet |-> <<>>] /\ cells = <<>> /\ host = "runs"
                     /\ regs = Returned(0, 0, FALSE) /\ call = NoCall /\ calls = MaxCalls
    /\ p # "text" => /\ vram = <<>> /\ cursor = <<>> /\ active = 0 /\ screen_cols = 0
                     /\ banner_shown = FALSE /\ shown = [op |-> "other"] /\ nshown = MaxShown
    /\ p # "frame" => FrameInit
    /\ p # "chips" => chip = "none" /\ state = 0 /\ job = NoJob

MCInit ==
    /\ part \in {"ring", "card", "disk", "text", "frame", "chips"}
    /\ Rests(part)
    /\ part = "ring" => Init
    /\ part = "card" => CardInit
    /\ part = "disk" => DiskInit
    /\ part = "text" => ScreenInit
    /\ part = "frame" => FrameInit
    /\ part = "chips" => ChipsetInit

MCNext ==
    /\ UNCHANGED part
    /\ \/ part = "ring" /\ Next /\ UNCHANGED <<card, diskVars, screen, frame, chips>>
       \/ part = "card" /\ CardNext /\ UNCHANGED <<vars, diskVars, screen, frame, chips>>
       \/ part = "disk" /\ DiskNext /\ UNCHANGED <<vars, card, screen, frame, chips>>
       \/ part = "text" /\ ScreenNext /\ UNCHANGED <<vars, card, diskVars, frame, chips>>
       \/ part = "frame" /\ FrameNext /\ UNCHANGED <<vars, card, diskVars, screen, chips>>
       \/ part = "chips" /\ ChipsetNext /\ UNCHANGED <<vars, card, diskVars, screen, frame>>

MCSpec == MCInit /\ [][MCNext]_<<part, vars, card, diskVars, screen, frame, chips>>
=============================================================================
