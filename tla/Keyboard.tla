------------------------------ MODULE Keyboard ------------------------------
(***************************************************************************)
(* A key press on its way from the app's main thread to the guest program. *)
(*                                                                         *)
(* The main thread (-sendCharacter: and friends, Emu88Emulator.mm) calls   *)
(* dos_machine::queue_key and signals a semaphore.  The emulator thread    *)
(* (-runLoop) calls dos_machine::run_batch, which executes the guest one   *)
(* instruction at a time, and parks on the semaphore, at most 55 ms, when  *)
(* the guest waits for a key.  Nothing locks the machine: the BIOS key     *)
(* ring, the scancode queue, the interrupt latch, waiting_for_key and      *)
(* halted are plain fields that both threads write.                        *)
(*                                                                         *)
(* One action is one access of one thread to a field the other thread      *)
(* touches.  The guest is a program that picks its next instruction from   *)
(* Program; what it can do to this protocol is INT 16h, HLT, CLI, STI,     *)
(* a handler for the timer or keyboard interrupt, and port 60h.            *)
(*                                                                         *)
(* BIOS services are trapped.  While a vector still points at its ROM      *)
(* stub, do_interrupt runs the C++ service and pushes no frame; a service  *)
(* that must wait sets waiting_for_key, and do_interrupt then takes IP     *)
(* back over the two bytes of the INT so that it is executed again.  skew  *)
(* is where IP is relative to the first byte of the instruction `insn'.    *)
(***************************************************************************)
EXTENDS Integers, Sequences

CONSTANTS RingSize,       \* words in the BIOS key ring (16)
          HwSize,         \* KBD_HW_BUF_SIZE (16)
          PollThreshold,  \* KBD_POLL_THRESHOLD (500)
          BatchLen,       \* instructions per run_batch (10000)
          TickGap,        \* instructions that fit between two timer ticks, at least
          MaxPresses,     \* bound: key presses in a behaviour
          FirstWord,      \* word of the ring the oldest key is in, to begin with
          TypedAhead,     \* of those presses, the ones that wait in the ring by then
          Program,        \* the instructions the guest uses
          Hooked,         \* vectors the guest has pointed at its own handler
          Masked          \* interrupt lines masked in pic_imr

Line == {"timer", "kbd"}

Smaller(a, b) == IF a < b THEN a ELSE b

ASSUME KeyboardAssumption ==
    /\ RingSize \in Nat /\ RingSize >= 2
    /\ HwSize \in Nat /\ HwSize >= 2
    /\ PollThreshold \in Nat \ {0} /\ BatchLen \in Nat \ {0}
    /\ TickGap \in Nat
    /\ MaxPresses \in Nat
    /\ FirstWord \in 0 .. RingSize - 1 /\ TypedAhead \in 0 .. Smaller(MaxPresses, RingSize - 1)
    /\ Program # {} /\ Program \subseteq {"read", "check", "int", "cli", "sti", "hlt"}
    /\ Hooked \subseteq Line /\ Masked \subseteq Line

VARIABLES ring, head, tail,       \* BDA 40:1A, 40:1C and 40:1E..3D
          hw, hwHead, hwTail,     \* kbd_hw_buf and its cursors
          pending, vector,        \* int_pending and int_vector: one slot
          waiting,                \* waiting_for_key
          polls,                  \* kbd_poll_count
          halted, intFlag,
          idleArmed,              \* idle_tick_time has been set
          permits,                \* _keySemaphore
          insn, skew, frame,      \* the guest: instruction, IP, interrupt frame
          got,                    \* what the INT 16h being executed has found
          emu,                    \* where run_batch / -runLoop is: pc, i, last,
                                  \* and age: instructions since tick_cycle_mark
          host,                   \* where queue_key is: pc and its key
          presses                 \* how many keys have been pressed

ringVars == <<ring, head, tail>>
hwVars   == <<hw, hwHead, hwTail>>
latch    == <<pending, vector>>
guest    == <<insn, skew, frame>>
vars == <<ringVars, hwVars, latch, waiting, polls, halted, intFlag, idleArmed,
          permits, guest, got, emu, host, presses>>

Key  == 1 .. MaxPresses      \* the n-th press types key n
NoKey == 0

NoCode == "none"         \* otherwise a scancode: "make", or "break" with bit 7 set

NextSlot(s) == (s + 1) % RingSize

NextHw(s) == (s + 1) % HwSize

-----------------------------------------------------------------------------
\* The machine has been running: the ring is at some word, with the keys that
\* were typed ahead of the guest's first request; their scancodes are read.
Init == /\ ring = [s \in 0 .. RingSize - 1 |->
                     LET n == (s + RingSize - FirstWord) % RingSize IN
                     IF n < TypedAhead THEN n + 1 ELSE NoKey]
        /\ head = FirstWord /\ tail = (FirstWord + TypedAhead) % RingSize
        /\ hw = [s \in 0 .. HwSize - 1 |-> NoCode] /\ hwHead = 0 /\ hwTail = 0
        /\ pending = FALSE /\ vector = "timer"    \* the clock has ticked before
        /\ waiting = FALSE /\ polls = 0
        /\ halted = FALSE /\ intFlag = TRUE
        /\ idleArmed = FALSE
        /\ permits = 0
        /\ insn = "next" /\ skew = 0 /\ frame = << >>
        /\ got = NoKey
        /\ emu = [pc |-> "loop", i |-> 0, last |-> FALSE, age |-> 0]
        /\ host = [pc |-> "idle", key |-> NoKey]
        /\ presses = TypedAhead

HostAt(pc) == host.pc = pc
HostTo(pc) == host' = [host EXCEPT !.pc = pc]
EmuAt(pc)  == emu.pc = pc
EmuTo(pc)  == emu' = [emu EXCEPT !.pc = pc]

CanInterrupt(line) == intFlag /\ line \notin Masked

-----------------------------------------------------------------------------
(***************************************************************************)
(* The main thread: queue_key, then the semaphore.                         *)
(***************************************************************************)
\* A full ring ends queue_key at once: nothing is queued, nobody is woken.
PressKey ==
    /\ HostAt("idle") /\ presses < MaxPresses
    /\ presses' = presses + 1
    /\ IF NextSlot(tail) = head
       THEN /\ host' = [pc |-> "signal", key |-> presses']
            /\ UNCHANGED ring
       ELSE /\ host' = [pc |-> "publish", key |-> presses']
            /\ ring' = [ring EXCEPT ![tail] = presses']
    /\ UNCHANGED <<head, tail, hwVars, latch, waiting, polls, halted, intFlag,
                   idleArmed, permits, guest, got, emu>>

PublishKey ==
    /\ HostAt("publish") /\ HostTo("make")
    /\ tail' = NextSlot(tail)
    /\ UNCHANGED <<ring, head, hwVars, latch, waiting, polls, halted, intFlag,
                   idleArmed, permits, guest, got, emu, presses>>

\* One scancode into the hardware queue, if a slot is left.
Queue(code) == IF NextHw(hwTail) = hwHead
               THEN UNCHANGED hwVars
               ELSE /\ hw' = [hw EXCEPT ![hwTail] = code]
                    /\ hwTail' = NextHw(hwTail)
                    /\ UNCHANGED hwHead

QueueMake ==
    /\ HostAt("make")
    /\ HostTo(IF NextHw(hwTail) = hwHead THEN "wake" ELSE "break")
    /\ Queue("make")
    /\ UNCHANGED <<ringVars, latch, waiting, polls, halted, intFlag, idleArmed,
                   permits, guest, got, emu, presses>>

QueueBreak ==
    /\ HostAt("break") /\ HostTo("irq")
    /\ Queue("break")
    /\ UNCHANGED <<ringVars, latch, waiting, polls, halted, intFlag, idleArmed,
                   permits, guest, got, emu, presses>>

\* request_int is two stores: the flag first, the vector second.  An IRQ 1
\* that cannot be taken now is not remembered.
RaiseIrq1 ==
    /\ HostAt("irq") /\ HostTo(IF CanInterrupt("kbd") THEN "vector" ELSE "wake")
    /\ pending' = (pending \/ CanInterrupt("kbd"))
    /\ UNCHANGED <<ringVars, hwVars, vector, waiting, polls, halted, intFlag,
                   idleArmed, permits, guest, got, emu, presses>>

StoreVector ==
    /\ HostAt("vector") /\ HostTo("wake")
    /\ vector' = "kbd"
    /\ UNCHANGED <<ringVars, hwVars, pending, waiting, polls, halted, intFlag,
                   idleArmed, permits, guest, got, emu, presses>>

WakeReader ==
    /\ HostAt("wake") /\ HostTo("unhalt")
    /\ waiting' = FALSE
    /\ UNCHANGED <<ringVars, hwVars, latch, polls, halted, intFlag, idleArmed,
                   permits, guest, got, emu, presses>>

WakeCpu ==
    /\ HostAt("unhalt") /\ HostTo("signal")
    /\ polls' = 0 /\ halted' = FALSE /\ idleArmed' = FALSE
    /\ UNCHANGED <<ringVars, hwVars, latch, waiting, intFlag, permits, guest, got,
                   emu, presses>>

\* Bug: the semaphore is signalled only for a thread that is seen to wait.
SignalIfParked ==
    /\ HostAt("signal") /\ host' = [pc |-> "idle", key |-> NoKey]
    /\ permits' = IF emu.pc = "park" THEN permits + 1 ELSE permits
    /\ UNCHANGED <<ringVars, hwVars, latch, waiting, polls, halted, intFlag,
                   idleArmed, guest, got, emu, presses>>

Signal ==
    /\ HostAt("signal") /\ host' = [pc |-> "idle", key |-> NoKey]
    /\ permits' = permits + 1
    /\ UNCHANGED <<ringVars, hwVars, latch, waiting, polls, halted, intFlag,
                   idleArmed, guest, got, emu, presses>>

QueueKey == \/ PublishKey \/ QueueMake \/ QueueBreak \/ RaiseIrq1
            \/ StoreVector \/ WakeReader \/ WakeCpu \/ Signal

-----------------------------------------------------------------------------
(***************************************************************************)
(* The emulator thread: run_batch.                                         *)
(***************************************************************************)
\* Bug: a batch starts with the wait of the one before.
StartBatchWaiting ==
    /\ EmuAt("loop")
    /\ emu' = [emu EXCEPT !.pc = "top", !.i = 0, !.last = FALSE]
    /\ UNCHANGED <<ringVars, hwVars, latch, waiting, polls, halted, intFlag,
                   idleArmed, permits, guest, got, host, presses>>

StartBatch ==
    /\ EmuAt("loop")
    /\ waiting' = FALSE
    /\ emu' = [emu EXCEPT !.pc = "top", !.i = 0, !.last = FALSE]
    /\ UNCHANGED <<ringVars, hwVars, latch, polls, halted, intFlag, idleArmed,
                   permits, guest, got, host, presses>>

\* The guest waits for a key: give it the timer ticks of real time (the first
\* pass only starts the clock) and leave the batch.
Yield ==
    /\ EmuAt("top") /\ waiting
    /\ idleArmed' = TRUE
    /\ polls' = 0
    /\ \E elapsed \in {FALSE, idleArmed} :
         LET request == elapsed /\ CanInterrupt("timer") IN
         /\ pending' = (pending \/ request)
         /\ emu' = [emu EXCEPT !.pc = IF request THEN "yieldVector" ELSE "yielded",
                               !.age = 0]
    /\ UNCHANGED <<ringVars, hwVars, vector, waiting, halted, intFlag, permits,
                   guest, got, host, presses>>

\* A halted CPU skips to the next timer tick; with IF clear it is dead.
Halted ==
    /\ EmuAt("top") /\ ~waiting /\ halted
    /\ EmuTo(IF intFlag THEN "skip" ELSE "exited")
    /\ UNCHANGED <<ringVars, hwVars, latch, waiting, polls, halted, intFlag,
                   idleArmed, permits, guest, got, host, presses>>

\* An instruction is executed when IP is on its first byte.
Executing(i) == /\ EmuAt("top") /\ ~waiting /\ ~halted /\ skew = 0
                /\ insn = i \/ (insn = "next" /\ i \in Program)

NextInsn == insn' = "next" /\ skew' = 0 /\ UNCHANGED frame

IpStays(i) == insn' = i /\ UNCHANGED <<skew, frame>>

\* INT 16h AH=00: the key at the head of the ring, or wait for one.
ReadKey ==
    /\ Executing("read") /\ IpStays("read")
    /\ IF head = tail
       THEN EmuTo("block") /\ UNCHANGED <<head, got>>
       ELSE EmuTo("rewind") /\ got' = ring[head] /\ head' = NextSlot(head)
    /\ UNCHANGED <<ring, tail, hwVars, latch, waiting, polls, halted, intFlag,
                   idleArmed, permits, host, presses>>

\* Bug: AH=01 takes the key it reports.
CheckKeyTakes ==
    /\ Executing("check") /\ IpStays("check") /\ head # tail
    /\ EmuTo("found") /\ polls' = 0
    /\ head' = NextSlot(head)
    /\ UNCHANGED <<ring, tail, hwVars, latch, waiting, halted, intFlag, idleArmed,
                   permits, got, host, presses>>

\* INT 16h AH=01: report a key and leave it, or count one more poll in vain;
\* enough of them over enough emulated time (`long') and the guest is idle.
CheckKey ==
    /\ Executing("check") /\ IpStays("check")
    /\ IF head # tail
       THEN EmuTo("found") /\ polls' = 0
       ELSE /\ polls' = Smaller(polls + 1, PollThreshold)
            /\ \E long \in BOOLEAN :
                 EmuTo(IF polls' = PollThreshold /\ long THEN "block" ELSE "rewind")
    /\ UNCHANGED <<ringVars, hwVars, latch, waiting, halted, intFlag, idleArmed,
                   permits, got, host, presses>>

Block ==
    /\ EmuAt("block") /\ EmuTo("rewind")
    /\ waiting' = TRUE
    /\ UNCHANGED <<ringVars, hwVars, latch, polls, halted, intFlag, idleArmed,
                   permits, guest, got, host, presses>>

\* do_interrupt after the service: IP back onto the INT if a wait was asked
\* for, past it otherwise.
Rewind ==
    /\ EmuAt("rewind") /\ EmuTo("tick")
    /\ got' = NoKey
    /\ IF waiting THEN UNCHANGED guest ELSE NextInsn
    /\ UNCHANGED <<ringVars, hwVars, latch, waiting, polls, halted, intFlag,
                   idleArmed, permits, host, presses>>

\* A program that has been told a key is there reads it next.
Found ==
    /\ EmuAt("found") /\ EmuTo("tick")
    /\ IF waiting THEN UNCHANGED guest
       ELSE insn' = "read" /\ UNCHANGED <<skew, frame>>
    /\ UNCHANGED <<ringVars, hwVars, latch, waiting, polls, halted, intFlag,
                   idleArmed, permits, got, host, presses>>

\* Any other BIOS service counts as activity.
OtherInt ==
    /\ Executing("int") /\ EmuTo("tick") /\ NextInsn
    /\ polls' = 0
    /\ UNCHANGED <<ringVars, hwVars, latch, waiting, halted, intFlag, idleArmed,
                   permits, got, host, presses>>

SetIF ==
    /\ \E i \in {"cli", "sti"} : Executing(i) /\ intFlag' = (i = "sti")
    /\ EmuTo("tick") /\ NextInsn
    /\ UNCHANGED <<ringVars, hwVars, latch, waiting, polls, halted, idleArmed,
                   permits, got, host, presses>>

Hlt ==
    /\ Executing("hlt") /\ EmuTo("tick") /\ NextInsn
    /\ halted' = TRUE
    /\ UNCHANGED <<ringVars, hwVars, latch, waiting, polls, intFlag, idleArmed,
                   permits, got, host, presses>>

\* The guest's keyboard handler takes one scancode from port 60h.  While more
\* are queued the port asks for IRQ 1 again, if it can be taken now.
ReadPort60 ==
    /\ Executing("in60")
    /\ insn' = "iret" /\ UNCHANGED <<skew, frame>>
    /\ hwHead' = IF hwHead = hwTail THEN hwHead ELSE NextHw(hwHead)
    /\ LET more == hwHead # hwTail /\ hwHead' # hwTail /\ CanInterrupt("kbd") IN
         /\ pending' = (pending \/ more)
         /\ vector' = IF more THEN "kbd" ELSE vector
    /\ EmuTo("tick")
    /\ UNCHANGED <<ringVars, hw, hwTail, waiting, polls, halted, intFlag, idleArmed,
                   permits, got, host, presses>>

Iret ==
    /\ Executing("iret") /\ EmuTo("tick")
    /\ insn' = frame[1].insn /\ skew' = frame[1].skew /\ frame' = << >>
    /\ intFlag' = TRUE
    /\ UNCHANGED <<ringVars, hwVars, latch, waiting, polls, halted, idleArmed,
                   permits, got, host, presses>>

-----------------------------------------------------------------------------
(***************************************************************************)
(* After each instruction: the timer, then the interrupt latch.            *)
(***************************************************************************)
\* A tick that found the CPU halted ends the batch.
Tick ==
    /\ \/ EmuAt("tick") \/ EmuAt("skip")
    /\ \E ticked \in {emu.pc = "skip", emu.pc = "skip" \/ emu.age = TickGap} :
         LET request == ticked /\ CanInterrupt("timer") IN
         /\ pending' = (pending \/ request)
         /\ emu' = [emu EXCEPT !.pc = IF request THEN "vector" ELSE "check",
                               !.last = ticked /\ halted,
                               !.age = IF ticked THEN 0 ELSE Smaller(@ + 1, TickGap)]
    /\ UNCHANGED <<ringVars, hwVars, vector, waiting, polls, halted, intFlag,
                   idleArmed, permits, guest, got, host, presses>>

StoreTimerVector ==
    /\ \/ EmuAt("vector") /\ emu' = [emu EXCEPT !.pc = "check", !.last = halted]
       \/ EmuAt("yieldVector") /\ EmuTo("yielded")
    /\ vector' = "timer"
    /\ UNCHANGED <<ringVars, hwVars, pending, waiting, polls, halted, intFlag,
                   idleArmed, permits, guest, got, host, presses>>

CheckInterrupts ==
    /\ EmuAt("check")
    /\ IF pending /\ intFlag
       THEN EmuTo("deliver") /\ pending' = FALSE /\ halted' = FALSE
       ELSE EmuTo("next") /\ UNCHANGED <<pending, halted>>
    /\ UNCHANGED <<ringVars, hwVars, vector, waiting, polls, intFlag, idleArmed,
                   permits, guest, got, host, presses>>

\* How far a trapped vector moves IP when waiting_for_key is set: once for
\* itself, and the timer service once more for the INT 1Ch it chains to.
Rewound(line) == IF line = "timer" THEN 4 ELSE 2

\* Bug: a wait takes IP back before the frame of a hooked vector is built.
DeliverRewound ==
    /\ EmuAt("deliver") /\ EmuTo("next")
    /\ frame' = <<[insn |-> insn, skew |-> IF waiting THEN skew - 2 ELSE skew]>>
    /\ insn' = IF vector = "kbd" THEN "in60" ELSE "iret"
    /\ skew' = 0
    /\ intFlag' = FALSE
    /\ UNCHANGED <<ringVars, hwVars, latch, waiting, polls, halted, idleArmed,
                   permits, got, host, presses>>

Deliver ==
    /\ EmuAt("deliver") /\ EmuTo("next")
    /\ IF vector \in Hooked
       THEN /\ frame' = <<[insn |-> insn, skew |-> skew]>>
            /\ insn' = IF vector = "kbd" THEN "in60" ELSE "iret"
            /\ skew' = 0
            /\ intFlag' = FALSE
       ELSE /\ skew' = IF waiting THEN skew - Rewound(vector) ELSE skew
            /\ UNCHANGED <<insn, frame, intFlag>>
    /\ polls' = IF vector = "timer" THEN polls ELSE 0
    /\ UNCHANGED <<ringVars, hwVars, latch, waiting, halted, idleArmed,
                   permits, got, host, presses>>

NextInstruction ==
    /\ EmuAt("next")
    /\ IF emu.last \/ emu.i + 1 = BatchLen
       THEN EmuTo("return")
       ELSE emu' = [emu EXCEPT !.pc = "top", !.i = @ + 1]
    /\ UNCHANGED <<ringVars, hwVars, latch, waiting, polls, halted, intFlag,
                   idleArmed, permits, guest, got, host, presses>>

\* -runLoop after the batch: stop on a dead CPU, park if the guest waits.
Return ==
    /\ \/ EmuAt("return") /\ halted /\ ~intFlag /\ EmuTo("exited")
       \/ /\ EmuAt("yielded") \/ (EmuAt("return") /\ (~halted \/ intFlag))
          /\ EmuTo(IF waiting THEN "park" ELSE "loop")
    /\ UNCHANGED <<ringVars, hwVars, latch, waiting, polls, halted, intFlag,
                   idleArmed, permits, guest, got, host, presses>>

\* dispatch_semaphore_wait: a permit, or 55 ms.
Unpark ==
    /\ EmuAt("park") /\ EmuTo("loop")
    /\ permits' = IF permits > 0 THEN permits - 1 ELSE 0
    /\ UNCHANGED <<ringVars, hwVars, latch, waiting, polls, halted, intFlag,
                   idleArmed, guest, got, host, presses>>

Execute == \/ ReadKey \/ CheckKey \/ Block \/ Rewind \/ Found \/ OtherInt
           \/ SetIF \/ Hlt \/ ReadPort60 \/ Iret

RunLoop == \/ StartBatch \/ Yield \/ Halted \/ Execute \/ Tick
           \/ StoreTimerVector \/ CheckInterrupts \/ Deliver
           \/ NextInstruction \/ Return \/ Unpark

Next == PressKey \/ QueueKey \/ RunLoop

\* Both threads are scheduled; nobody has to press a key.
Fairness == WF_vars(QueueKey) /\ WF_vars(RunLoop)

Spec == Init /\ [][Next]_vars /\ Fairness

-----------------------------------------------------------------------------
\* What queue_key has put in the BIOS ring and the guest has not read.
Queued == LET n == (tail + RingSize - head) % RingSize IN
          [j \in 1 .. n |-> ring[(head + j - 1) % RingSize]]

\* The BIOS ring is a bounded FIFO between the two threads: every accepted
\* key is read by INT 16h once, in the order typed, although queue_key and
\* bios_int16h share head, tail and the slots without a lock.
Fifo == INSTANCE BoundedFifo WITH Item <- Key, Bound <- RingSize - 1, queue <- Queued,
                                  delivered <- IF got = NoKey THEN << >> ELSE <<got>>

KeysAreAFifo == Fifo!Spec

\* IP is on an instruction boundary whenever the guest executes: waiting for
\* a key takes it back onto the INT 16h and no further.
IpOnInstruction == skew = 0

\* -runLoop never sleeps its full 55 ms on a key that is already in the ring:
\* a permit is there, or the thread that queued the key is about to add it.
NoLostWakeup ==
    emu.pc = "park" /\ head # tail => permits > 0 \/ host.pc # "idle"

\* From some time on the guest executes nothing but requests for a key and
\* its handlers.
AsksForKeys == <>[][~(OtherInt \/ SetIF \/ Hlt)]_vars /\ <>[](emu.pc # "exited")

\* Every key in the ring is read by a guest that keeps asking for keys,
\* through waits, wake-ups and the batches in between.
InRing(k) == \E j \in DOMAIN Queued : Queued[j] = k

KeyIsRead == AsksForKeys => \A k \in Key : InRing(k) ~> ~InRing(k)
=============================================================================
