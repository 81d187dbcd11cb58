------------------------------- MODULE Chipset -------------------------------
(***************************************************************************)
(* The chips behind the ports of dos_machine.cc that are programmed with   *)
(* more bytes than one: the interrupt controller, a channel of the timer,  *)
(* the palette and the keyboard controller.  A guest writes and reads any  *)
(* bytes, and may leave a sequence at any point (a program is ended, an    *)
(* interrupt handler comes between).                                       *)
(*                                                                         *)
(* A behaviour is of one chip: no port of one has to do with another.      *)
(***************************************************************************)
EXTENDS Integers, Sequences

CONSTANTS
    PortByte,       \* values of a byte (256)
    Entries         \* of the palette (256)

ASSUME ChipsetAssumption == PortByte \in Nat \ {0, 1} /\ Entries \in Nat \ {0, 1}

VARIABLES
    chip,           \* the chip of this behaviour
    state,             \* its state
    job             \* history: the sequence under way, [start, arg, bytes]

chips == <<chip, state, job>>

PortBytes == 0 .. PortByte - 1
NoJob == [start |-> "none", arg |-> 0, bytes |-> <<>>]
Starting(what, arg) == job' = [start |-> what, arg |-> arg, bytes |-> <<>>]
\* A byte of the sequence, the last of which is its n-th; any other ends it.
Continuing(what, n, v) ==
    job' = IF job.start = what /\ Len(job.bytes) < n
           THEN [job EXCEPT !.bytes = Append(@, v)] ELSE NoJob
Is(c) == chip = c /\ UNCHANGED chip

-----------------------------------------------------------------------------
(* Interrupt controller: 20h and 21h. *)

PicInit == [pic_init_step |-> 0, icw4_needed |-> FALSE, vector_base |-> 0, imr |-> 0]

WriteIcw1(needs_icw4) ==
    /\ Is("pic") /\ Starting("icw1", IF needs_icw4 THEN 1 ELSE 0)
    /\ state' = [state EXCEPT !.pic_init_step = 1, !.icw4_needed = needs_icw4]

WriteOcw2 == Is("pic") /\ job' = job /\ state' = state

WritePicData(v) ==
    /\ Is("pic") /\ Continuing("icw1", 3 + job.arg, v)
    /\ \/ state.pic_init_step = 1 /\ state' = [state EXCEPT !.vector_base = v, !.pic_init_step = 2]
       \/ state.pic_init_step = 2 /\ state' = [state EXCEPT !.pic_init_step = IF @ = 2 /\ state.icw4_needed
                                                                    THEN 3 ELSE 0]
       \/ state.pic_init_step = 3 /\ state' = [state EXCEPT !.pic_init_step = 0]
       \/ state.pic_init_step = 0 /\ state' = [state EXCEPT !.imr = v]

-----------------------------------------------------------------------------
(* A channel of the timer: 40h and 43h. *)

\* elapsed: ticks since the count was loaded, as far as they can be told apart.
PitInit == [access |-> 3, write_phase |-> 0, read_phase |-> 0, counter |-> 0, reload |-> 0,
            elapsed |-> 0, latch_pending |-> FALSE, latch_value |-> 0]

Reload == IF state.reload = 0 THEN PortByte * PortByte ELSE state.reload

\* The count 0 stands for the whole range and is read as 0.
pit_current_count == (Reload - state.elapsed) % (PortByte * PortByte)

Tick == /\ Is("pit") /\ job' = job
        /\ state' = [state EXCEPT !.elapsed = (@ + 1) % Reload]

\* Bug: the half of a latched count to read next stays what it was.
LatchesOnly == [state EXCEPT !.latch_value = pit_current_count, !.latch_pending = TRUE]

Latches == [state EXCEPT !.latch_value = pit_current_count, !.latch_pending = TRUE, !.read_phase = 0]

WriteLatch ==
    Is("pit") /\ state' = Latches /\ Starting("latch", pit_current_count)

\* A latched count stays latched.
WriteControl(access) ==
    /\ Is("pit") /\ Starting("control", access)
    /\ state' = [state EXCEPT !.access = access, !.write_phase = 0, !.read_phase = 0]

Loads(count) == [state EXCEPT !.counter = count, !.reload = count, !.elapsed = 0, !.write_phase = 0]

\* Writing does not disturb a latched reading.
WriteCount(v) ==
    /\ Is("pit")
    /\ \/ /\ state.access = 3 /\ state.write_phase = 0
          /\ state' = [state EXCEPT !.counter = (@ - (@ % PortByte)) + v, !.write_phase = 1]
       \/ /\ state.access = 3 /\ state.write_phase = 1
          /\ state' = Loads((state.counter % PortByte) + PortByte * v)
       \/ state.access = 1 /\ state' = [Loads(v) EXCEPT !.write_phase = state.write_phase]
       \/ state.access = 2 /\ state' = [Loads(PortByte * v) EXCEPT !.write_phase = state.write_phase]
    /\ IF job.start = "latch" THEN job' = job
       ELSE Continuing("control", IF state.access = 3 THEN 2 ELSE 1, v)

ReadCount ==
    LET val  == IF state.latch_pending THEN state.latch_value ELSE pit_current_count
        low  == val % PortByte
        high == val \div PortByte
        Delivers(v, next) == /\ state' = next
                          /\ IF job.start = "control" THEN job' = job
                             ELSE Continuing("latch", IF state.access = 3 THEN 2 ELSE 1, v)
    IN  /\ Is("pit")
        /\ \/ state.access = 3 /\ state.read_phase = 0 /\ Delivers(low, [state EXCEPT !.read_phase = 1])
           \/ /\ state.access = 3 /\ state.read_phase = 1
              /\ Delivers(high, [state EXCEPT !.read_phase = 0, !.latch_pending = FALSE])
           \/ state.access = 1 /\ Delivers(low, [state EXCEPT !.latch_pending = FALSE])
           \/ state.access = 2 /\ Delivers(high, [state EXCEPT !.latch_pending = FALSE])

-----------------------------------------------------------------------------
(* Palette: 3C7h to 3C9h.  One component counter serves both indices. *)

DacInit == [vga_dac |-> [i \in 0 .. Entries - 1 |-> <<0, 0, 0>>],
            read_index |-> 0, write_index |-> 0, component |-> 0]

WriteDacIndex(i) ==
    /\ Is("dac") /\ Starting("write", i)
    /\ state' = [state EXCEPT !.write_index = i, !.component = 0]

WriteReadIndex(i) ==
    /\ Is("dac") /\ Starting("read", i)
    /\ state' = [state EXCEPT !.read_index = i, !.component = 0]

NextComponent == (state.component + 1) % 3
AfterEntry(i) == IF state.component = 2 THEN (i + 1) % Entries ELSE i

WriteDac(v) ==
    /\ Is("dac") /\ Continuing("write", 6, v)
    /\ state' = [state EXCEPT !.vga_dac[state.write_index][state.component + 1] = v,
                        !.component = NextComponent, !.write_index = AfterEntry(@)]

ReadDac ==
    /\ Is("dac") /\ Continuing("read", 6, state.vga_dac[state.read_index][state.component + 1])
    /\ state' = [state EXCEPT !.component = NextComponent, !.read_index = AfterEntry(@)]

-----------------------------------------------------------------------------
(* Keyboard controller and port 92h: the A20 line.  (What 60h reads when  *)
(* no command is pending is in Keyboard.) *)

KbcInit == [kbd_cmd_pending |-> "none", a20 |-> FALSE]

WriteCommand(c) ==
    /\ Is("kbc")
    /\ \/ c \in {"D0", "D1"} /\ state' = [state EXCEPT !.kbd_cmd_pending = c] /\ Starting(c, 0)
       \/ c = "DD" /\ state' = [state EXCEPT !.a20 = FALSE] /\ job' = NoJob
       \/ c = "DF" /\ state' = [state EXCEPT !.a20 = TRUE] /\ job' = NoJob

WriteDataPort(v) ==
    /\ Is("kbc") /\ Continuing("D1", 1, v)
    /\ state' = IF state.kbd_cmd_pending = "D1" THEN [kbd_cmd_pending |-> "none", a20 |-> v = 1] ELSE state

ReadDataPort ==
    /\ Is("kbc")
    /\ \/ /\ state.kbd_cmd_pending = "D0" /\ Continuing("D0", 1, IF state.a20 THEN 1 ELSE 0)
          /\ state' = [state EXCEPT !.kbd_cmd_pending = "none"]
       \/ state.kbd_cmd_pending # "D0" /\ UNCHANGED <<state, job>>

WriteFastA20(v) == Is("kbc") /\ job' = NoJob /\ state' = [state EXCEPT !.a20 = v = 1]

ChipsetInit ==
    /\ job = NoJob
    /\ \/ chip = "pic" /\ state = PicInit
       \/ chip = "pit" /\ state = PitInit
       \/ chip = "dac" /\ state = DacInit
       \/ chip = "kbc" /\ state = KbcInit

ChipsetNext ==
    \/ \E b \in BOOLEAN : WriteIcw1(b)
    \/ WriteOcw2 \/ Tick \/ WriteLatch \/ ReadCount \/ ReadDac \/ ReadDataPort
    \/ \E v \in PortBytes :
          \/ WritePicData(v) \/ WriteCount(v) \/ WriteDac(v) \/ WriteDataPort(v) \/ WriteFastA20(v)
    \/ \E access \in 1 .. 3 : WriteControl(access)
    \/ \E i \in 0 .. Entries - 1 : WriteDacIndex(i) \/ WriteReadIndex(i)
    \/ \E c \in {"D0", "D1", "DD", "DF"} : WriteCommand(c)

-----------------------------------------------------------------------------
(* Properties.                                                             *)

\* A sequence of bytes that is sent or read as a whole does what it is for, wherever
\* the one before it was left: the controller has the base and the mask it was given,
\* the timer the count, a latched reading is the count of one moment, palette entries
\* are those written and read, and the A20 line is as set.
WholeSequencesWork ==
    LET b == job.bytes
        n == Len(b)
        Entry(i, k) == <<b[k], b[k + 1], b[k + 2]>> = state.vga_dac[i % Entries]
    IN  /\ job.start = "icw1" /\ n = 3 + job.arg => state.vector_base = b[1] /\ state.imr = b[n]
        /\ /\ job.start = "control" /\ n = (IF job.arg = 3 THEN 2 ELSE 1)
           => state.reload = CASE job.arg = 3 -> b[1] + PortByte * b[2]
                            [] job.arg = 1 -> b[1]
                            [] job.arg = 2 -> PortByte * b[1]
        /\ /\ job.start = "latch" /\ n = (IF state.access = 3 THEN 2 ELSE 1)
           => CASE state.access = 3 -> b[1] + PortByte * b[2] = job.arg
                [] state.access = 1 -> b[1] = job.arg % PortByte
                [] state.access = 2 -> b[1] = job.arg \div PortByte
        /\ job.start \in {"write", "read"} /\ n >= 3 => Entry(job.arg, 1)
        /\ job.start \in {"write", "read"} /\ n = 6 => Entry(job.arg + 1, 4)
        /\ job.start = "D1" /\ n = 1 => state.a20 = (b[1] = 1)
        /\ job.start = "D0" /\ n = 1 => state.a20 = (b[1] = 1)
=============================================================================
