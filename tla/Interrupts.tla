----------------------------- MODULE Interrupts -----------------------------
(***************************************************************************)
(* How run_batch (dos_machine.cc) gets hardware interrupts to the guest.   *)
(*                                                                         *)
(* There is no interrupt controller with a request register: request_int   *)
(* latches ONE vector, a later request overwrites an earlier one, and a    *)
(* source that cannot interrupt now (IF clear, or masked) is not           *)
(* remembered by the latch.  After each instruction the sources make their *)
(* offers in a fixed order - timer, NE2000, UART, Sound Blaster, and the   *)
(* coprocessor error inside check_interrupts - and the latch is tried.     *)
(* The timer is an edge, offered once; the NE2000 and the UART are levels, *)
(* offered again whenever they are polled, every PollEvery instructions;   *)
(* the Sound Blaster leaves a bit in hw_irq_pending; the coprocessor error *)
(* is held in ferr_latched.                                                *)
(*                                                                         *)
(* The keyboard, which another thread offers, is in module Keyboard.       *)
(***************************************************************************)
EXTENDS Naturals, Sequences

CONSTANTS BatchLen,    \* instructions per run_batch (10000)
          PollEvery,   \* instructions between device polls (1024)
          TickGap,     \* instructions that fit between two timer ticks, at least
          MaxEvents,   \* bound: packets, bytes, blocks and x87 errors
          Program,     \* the instructions of the guest's main program
          Hooked,      \* vectors the guest has pointed at its own handler
          Masked       \* lines masked in pic_imr

Line   == {"timer", "nic", "uart", "sb"}
Vector == Line \cup {"ferr"}

ASSUME InterruptsAssumption ==
    /\ BatchLen \in Nat \ {0} /\ PollEvery \in Nat \ {0}
    /\ TickGap \in Nat /\ MaxEvents \in Nat
    /\ Program # {} /\ Program \subseteq {"work", "hlt", "cli", "sti", "fpu", "fnclex"}
    /\ Hooked \subseteq Vector /\ Masked \subseteq Line

VARIABLES pending, vector,           \* int_pending, int_vector
          intFlag, halted,
          nic, uart,                 \* irq_active(), irq_pending(): levels
          sbBit,                     \* the Sound Blaster's bit of hw_irq_pending
          es,                        \* x87 status word ES: an unmasked error
          ferrLatched, ferrIgnore,   \* IRQ 13 latch, IGNNE#
          insn, frame,               \* the guest: instruction, interrupt frame
          emu,                       \* run_batch: pc, i, age since the last tick
          events

latch   == <<pending, vector>>
levels  == <<nic, uart, sbBit>>
fpuVars == <<es, ferrLatched, ferrIgnore>>
guest   == <<insn, frame>>
vars == <<latch, intFlag, halted, levels, fpuVars, guest, emu, events>>

Smaller(a, b) == IF a < b THEN a ELSE b

\* Bug: only the mask is looked at.
UnmaskedOnly(line) == line \notin Masked

CanTake(line) == intFlag /\ line \notin Masked

At(pc) == emu.pc = pc
To(pc) == emu' = [emu EXCEPT !.pc = pc]

\* request_int: the slot is simply overwritten.
Request(v) == pending' = TRUE /\ vector' = v

Offer(v, condition) == IF condition THEN Request(v) ELSE UNCHANGED latch

-----------------------------------------------------------------------------
Init == /\ pending = FALSE /\ vector = "timer"
        /\ intFlag = TRUE /\ halted = FALSE
        /\ nic = FALSE /\ uart = FALSE /\ sbBit = FALSE
        /\ es = FALSE /\ ferrLatched = FALSE /\ ferrIgnore = FALSE
        /\ insn \in Program /\ frame = << >>
        /\ emu = [pc |-> "top", i |-> 0, age |-> 0]
        /\ events = 0

\* HLT with IF clear ends run_batch for good; with IF set the cycle counter
\* jumps to the next timer tick.
Halted ==
    /\ At("top") /\ halted
    /\ To(IF intFlag THEN "jumped" ELSE "exited")
    /\ UNCHANGED <<latch, intFlag, halted, levels, fpuVars, guest, events>>

Executing(i) == At("top") /\ ~halted /\ insn = i

\* The main program goes on with any of its instructions, a handler with the next.
Proceed == IF frame = << >>
           THEN insn' \in Program /\ UNCHANGED frame
           ELSE insn' = "iret" /\ UNCHANGED frame

Work ==
    /\ Executing("work") /\ Proceed /\ To("timer")
    /\ UNCHANGED <<latch, intFlag, halted, levels, fpuVars, events>>

Hlt ==
    /\ Executing("hlt") /\ Proceed /\ To("timer")
    /\ halted' = TRUE
    /\ UNCHANGED <<latch, intFlag, levels, fpuVars, events>>

SetIF ==
    /\ \E i \in {"cli", "sti"} : Executing(i) /\ intFlag' = (i = "sti")
    /\ Proceed /\ To("timer")
    /\ UNCHANGED <<latch, halted, levels, fpuVars, events>>

\* A waiting x87 instruction reports an error left by an earlier one before it
\* does anything itself: IRQ 13 is latched and IP stays, unless IGNNE# is
\* active or interrupts are off.  Otherwise it executes, and may fail itself.
Fpu ==
    /\ Executing("fpu") /\ To("timer")
    /\ IF es /\ ~ferrIgnore /\ intFlag
       THEN /\ ferrLatched' = TRUE
            /\ UNCHANGED <<es, guest, events>>
       ELSE /\ \E fails \in {FALSE, events < MaxEvents} :
                 /\ es' = (es \/ fails)
                 /\ events' = IF fails THEN events + 1 ELSE events
            /\ Proceed
            /\ UNCHANGED ferrLatched
    /\ UNCHANGED <<latch, intFlag, halted, levels, ferrIgnore>>

Fnclex ==
    /\ Executing("fnclex") /\ Proceed /\ To("timer")
    /\ es' = FALSE
    /\ UNCHANGED <<latch, intFlag, halted, levels, ferrLatched, ferrIgnore, events>>

\* A handler's first instruction serves its device.  The handler of the
\* coprocessor error need not clear the error.
Serve ==
    /\ Executing("serve") /\ Proceed /\ To("timer")
    /\ LET line == frame[1].line IN
         /\ nic'  = (nic  /\ line # "nic")
         /\ uart' = (uart /\ line # "uart")
         /\ \E clears \in BOOLEAN : es' = (es /\ ~(line = "ferr" /\ clears))
    /\ UNCHANGED <<latch, intFlag, halted, sbBit, ferrLatched, ferrIgnore, events>>

Iret ==
    /\ Executing("iret") /\ To("timer")
    /\ insn' = frame[1].insn /\ frame' = << >>
    /\ intFlag' = TRUE
    /\ UNCHANGED <<latch, halted, levels, fpuVars, events>>

-----------------------------------------------------------------------------
\* The offers, in the order run_batch makes them.

\* A tick that finds the CPU halted is delivered at once and ends the batch.
Timer ==
    /\ At("timer") \/ At("jumped")
    /\ \E ticked \in {At("jumped"), At("jumped") \/ emu.age = TickGap} :
         /\ Offer("timer", ticked /\ CanTake("timer"))
         /\ emu' = [emu EXCEPT !.pc = IF ticked /\ halted THEN "wake" ELSE "nic",
                               !.age = IF ticked THEN 0 ELSE Smaller(@ + 1, TickGap)]
    /\ UNCHANGED <<intFlag, halted, levels, fpuVars, guest, events>>

Polled == emu.i % PollEvery = 0

\* Bug: the packet's arrival is offered, not the level.
NicEdge ==
    /\ At("nic") /\ To("uart")
    /\ \E arrives \in {FALSE, Polled /\ events < MaxEvents} :
         /\ nic' = (nic \/ arrives)
         /\ events' = IF arrives THEN events + 1 ELSE events
         /\ Offer("nic", arrives /\ CanTake("nic"))
    /\ UNCHANGED <<intFlag, halted, uart, sbBit, fpuVars, guest>>

\* The poll takes a packet from the host if there is one.
Nic ==
    /\ At("nic") /\ To("uart")
    /\ IF Polled
       THEN /\ \E arrives \in {FALSE, events < MaxEvents} :
                 /\ nic' = (nic \/ arrives)
                 /\ events' = IF arrives THEN events + 1 ELSE events
            /\ Offer("nic", nic' /\ CanTake("nic"))
       ELSE UNCHANGED <<nic, events, latch>>
    /\ UNCHANGED <<intFlag, halted, uart, sbBit, fpuVars, guest>>

Uart ==
    /\ At("uart") /\ To("sb")
    /\ IF Polled
       THEN /\ \E arrives \in {FALSE, events < MaxEvents} :
                 /\ uart' = (uart \/ arrives)
                 /\ events' = IF arrives THEN events + 1 ELSE events
            /\ Offer("uart", uart' /\ CanTake("uart"))
       ELSE UNCHANGED <<uart, events, latch>>
    /\ UNCHANGED <<intFlag, halted, nic, sbBit, fpuVars, guest>>

\* Offering the Sound Blaster's interrupt forgets it.
SoundBlaster ==
    /\ At("sb") /\ To("check")
    /\ LET take == sbBit /\ CanTake("sb") IN
         /\ Offer("sb", take)
         /\ sbBit' = (sbBit /\ ~take)
    /\ UNCHANGED <<intFlag, halted, nic, uart, fpuVars, guest, events>>

\* The latched error is offered only to a free slot.
FerrOffer == ferrLatched /\ intFlag /\ ~pending

\* Bug: taking IRQ 13 does not release the instruction that reported it.
IgnneUnset(v) == ferrIgnore /\ es

\* IGNNE# is active from IRQ 13 on, for as long as the error stands.
Ignne(v) == (ferrIgnore /\ es) \/ v = "ferr"

\* do_interrupt through a hooked vector: push the frame, clear IF.
\* Bug: the frame is pushed and IF stays as it is.
EnterHandlerEnabled(v) == /\ frame' = <<[insn |-> insn, line |-> v]>>
                          /\ insn' = "serve"
                          /\ UNCHANGED intFlag

EnterHandler(v) == /\ frame' = <<[insn |-> insn, line |-> v]>>
                   /\ insn' = "serve"
                   /\ intFlag' = FALSE

LastOfBatch == emu.i + 1 = BatchLen

\* check_interrupts: IGNNE# follows the error, the latched error is offered,
\* then the slot is tried.
CheckInterrupts ==
    /\ At("check") \/ At("wake")
    /\ LET v      == IF FerrOffer THEN "ferr" ELSE vector
           take   == (pending \/ FerrOffer) /\ intFlag
           return == At("wake") \/ LastOfBatch IN
         /\ pending' = (pending /\ ~take)
         /\ vector' = v
         /\ halted' = (halted /\ ~take)
         /\ IF take /\ v \in Hooked
            THEN EnterHandler(v)
            ELSE UNCHANGED <<guest, intFlag>>
         /\ ferrLatched' = (ferrLatched /\ ~(take /\ v = "ferr"))
         /\ ferrIgnore'  = IF take THEN Ignne(v) ELSE ferrIgnore /\ es
         /\ emu' = [emu EXCEPT !.pc = IF return THEN "return" ELSE "top",
                               !.i  = IF return THEN 0 ELSE @ + 1]
    /\ UNCHANGED <<levels, es, events>>

\* Between two batches -runLoop renders audio, which may end a DMA block.
Return ==
    /\ At("return")
    /\ To(IF halted /\ ~intFlag THEN "exited" ELSE "top")
    /\ \E ends \in {FALSE, events < MaxEvents} :
         /\ sbBit' = (sbBit \/ ends)
         /\ events' = IF ends THEN events + 1 ELSE events
    /\ UNCHANGED <<latch, intFlag, halted, nic, uart, fpuVars, guest>>

Execute == Work \/ Hlt \/ SetIF \/ Fpu \/ Fnclex \/ Serve \/ Iret

Next == \/ Halted \/ Execute \/ Timer \/ Nic \/ Uart \/ SoundBlaster
        \/ CheckInterrupts \/ Return

Spec == Init /\ [][Next]_vars /\ WF_vars(Next)

-----------------------------------------------------------------------------
TypeOK ==
    /\ pending \in BOOLEAN /\ vector \in Vector
    /\ intFlag \in BOOLEAN /\ halted \in BOOLEAN
    /\ nic \in BOOLEAN /\ uart \in BOOLEAN /\ sbBit \in BOOLEAN
    /\ es \in BOOLEAN /\ ferrLatched \in BOOLEAN /\ ferrIgnore \in BOOLEAN
    /\ insn \in Program \cup {"serve", "iret"}
    /\ frame \in {<< >>} \cup {<<f>> : f \in [insn : Program, line : Vector]}
    /\ emu \in [pc : {"top", "jumped", "timer", "nic", "uart", "sb", "check",
                      "wake", "return", "exited"},
                i : 0 .. BatchLen - 1, age : 0 .. TickGap]
    /\ events \in 0 .. MaxEvents

\* The latch is empty before every instruction: a source offers only what can
\* be taken, and the latch is tried in the same pass.  One slot is therefore
\* enough except for sources that offer in the same pass.
SlotFreeBetweenInstructions == emu.pc \in {"top", "jumped", "return"} => ~pending

\* A handler runs with interrupts off and is the only one: no interrupt is
\* delivered into a handler, however the offers and the latch interleave.
HandlersDoNotNest == frame # << >> => ~intFlag

InHandler(line) == frame # << >> /\ frame[1].line = line

\* The guest's own program ends up running with interrupts on.
Open == <>[](frame = << >> => intFlag)

\* Whoever has something to say gets its handler run, although the latch loses
\* requests: the network and serial lines, which are levels, are offered again
\* at a later poll; the end of a DMA block, whose bit is forgotten as soon as it
\* is offered, and the latched x87 error are offered when they can be taken.
\* And a guest that stays at x87 instructions gets them executed: a handler that
\* leaves the error in the status word does not park it on the instruction
\* that reports it.
EveryoneIsServed ==
    /\ Open => /\ nic ~> ~ nic
               /\ uart ~> ~ uart
               /\ sbBit ~> InHandler("sb")
               /\ ferrLatched ~> InHandler("ferr")
    /\ <>[]((insn = "fpu" \/ frame # << >>) /\ emu.pc # "exited")
         => []<><<Fpu /\ ~ferrLatched'>>_vars
=============================================================================
