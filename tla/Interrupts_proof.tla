-------------------------- MODULE Interrupts_proof --------------------------
(***************************************************************************)
(* Theorems about Interrupts, for every batch length, polling period, tick *)
(* gap and guest.                                                          *)
(*                                                                         *)
(* Neither invariant is inductive alone.  That a pass leaves the latch     *)
(* empty needs every request in it to be one that can be taken, which      *)
(* holds because a source looks at IF and IF does not change between the   *)
(* offers and the check.  That handlers do not nest needs the guest inside *)
(* a handler to be at one of the handler's own instructions, so that no    *)
(* STI of the main program is executed there.                              *)
(***************************************************************************)
EXTENDS Interrupts, TLAPS

Handler == {"serve", "iret"}

\* While a pass makes its offers, the latch holds only what can be taken; at
\* any other moment it holds nothing.
SlotInv == /\ pending => intFlag
           /\ emu.pc \notin {"nic", "uart", "sb", "check", "wake"} => ~pending

\* The guest is at a handler's instruction exactly when a frame is pushed.
HandlerInv == /\ frame # << >> => insn \in Handler /\ ~intFlag
              /\ insn \in Handler => frame # << >>

Inv == TypeOK /\ SlotInv /\ HandlerInv

\* The initial state satisfies the invariant.
LEMMA InitInv == Init => Inv
  <1> SUFFICES ASSUME Init PROVE Inv
    OBVIOUS
  <1>1. emu = [pc |-> "top", i |-> 0, age |-> 0]
    BY DEF Init
  <1>2. emu \in [pc : {"top"}, i : 0 .. BatchLen - 1, age : 0 .. TickGap]
    BY <1>1, InterruptsAssumption
  <1>3. events \in 0 .. MaxEvents
    BY InterruptsAssumption DEF Init
  <1>4. TypeOK
    BY <1>2, <1>3 DEF Init, TypeOK, Vector, Line
  <1>5. HandlerInv
    BY InterruptsAssumption DEF Init, HandlerInv, Handler
  <1>6. SlotInv
    BY DEF Init, SlotInv
  <1> QED BY <1>4, <1>5, <1>6 DEF Inv

\* Counting an event keeps within the bound that lets it happen.
LEMMA EventBound ==
  ASSUME TypeOK, NEW e \in {FALSE, events < MaxEvents}
  PROVE  /\ e \in BOOLEAN
         /\ (IF e THEN events + 1 ELSE events) \in 0 .. MaxEvents
  <1>1. events \in 0 .. MaxEvents /\ MaxEvents \in Nat
    BY InterruptsAssumption DEF TypeOK
  <1> DEFINE room == events < MaxEvents
             next == IF e THEN events + 1 ELSE events
  <1>2. room \in BOOLEAN OBVIOUS
  <1>3. e = FALSE \/ e = room OBVIOUS
  <1>4. room => events + 1 \in 0 .. MaxEvents BY <1>1
  <1> HIDE DEF room
  <1>5. e \in BOOLEAN /\ (e => room)
    <2>1. CASE e = FALSE BY <2>1
    <2>2. CASE e = room BY <1>2, <2>2
    <2> QED BY <1>3, <2>1, <2>2
  <1>6. next = events \/ (room /\ next = events + 1) BY <1>5, Zenon
  <1> HIDE DEF next
  <1>7. next \in 0 .. MaxEvents BY <1>1, <1>4, <1>6
  <1> QED BY <1>5, <1>7 DEF next

\* An instruction of the main program or of a handler keeps the guest's state
\* well formed: only the program's own instructions are executed outside a
\* handler, and a handler's last instruction is its IRET.
LEMMA ProceedInv ==
  ASSUME Inv, Proceed, NEW f \in BOOLEAN, intFlag' = f, frame # << >> => f = intFlag
  PROVE  /\ insn' \in Program \cup Handler
         /\ frame' = frame
         /\ HandlerInv'
  <1>1. CASE frame = << >>
    <2>1. insn' \in Program /\ frame' = << >>
      BY <1>1 DEF Proceed
    <2>2. insn' \notin Handler
      BY <2>1, InterruptsAssumption DEF Handler
    <2> QED BY <1>1, <2>1, <2>2 DEF HandlerInv
  <1>2. CASE frame # << >>
    <2>1. insn' = "iret" /\ frame' = frame
      BY <1>2 DEF Proceed
    <2> QED BY <1>2, <2>1 DEF HandlerInv, Inv, Handler
  <1> QED BY <1>1, <1>2

\* An instruction leaves the invariant true.
LEMMA ExecuteInv == ASSUME Inv, Execute PROVE Inv'
  <1> USE DEF At, To, Executing
  <1>1. CASE Work
    <2>1. Proceed /\ intFlag' = intFlag BY <1>1 DEF Work
    <2>2. HandlerInv' /\ insn' \in Program \cup Handler /\ frame' = frame
      BY <2>1, ProceedInv DEF Inv, TypeOK
    <2>3. TypeOK' /\ SlotInv'
      BY <1>1, <2>2 DEF Work, Inv, TypeOK, SlotInv, Handler, latch, levels, fpuVars
    <2> QED BY <2>2, <2>3 DEF Inv
  <1>2. CASE Hlt
    <2>1. Proceed /\ intFlag' = intFlag BY <1>2 DEF Hlt
    <2>2. HandlerInv' /\ insn' \in Program \cup Handler /\ frame' = frame
      BY <2>1, ProceedInv DEF Inv, TypeOK
    <2>3. TypeOK' /\ SlotInv'
      BY <1>2, <2>2 DEF Hlt, Inv, TypeOK, SlotInv, Handler, latch, levels, fpuVars
    <2> QED BY <2>2, <2>3 DEF Inv
  <1>3. CASE SetIF
    <2>1. Proceed /\ intFlag' \in BOOLEAN /\ insn \in {"cli", "sti"} BY <1>3 DEF SetIF
    <2>2. frame = << >> BY <2>1 DEF Inv, HandlerInv, Handler
    <2>3. HandlerInv' /\ insn' \in Program \cup Handler /\ frame' = frame
      BY <2>1, <2>2, ProceedInv
    <2>4. TypeOK' /\ SlotInv'
      BY <1>3, <2>1, <2>3 DEF SetIF, Inv, TypeOK, SlotInv, Handler, latch, levels, fpuVars
    <2> QED BY <2>3, <2>4 DEF Inv
  <1>4. CASE Fpu
    <2>1. CASE es /\ ~ferrIgnore /\ intFlag
      BY <1>4, <2>1 DEF Fpu, Inv, TypeOK, SlotInv, HandlerInv, Handler, latch, levels, guest
    <2>2. CASE ~(es /\ ~ferrIgnore /\ intFlag)
      <3>1. /\ Proceed /\ intFlag' = intFlag
            /\ \E fails \in {FALSE, events < MaxEvents} :
                 /\ es' = (es \/ fails)
                 /\ events' = IF fails THEN events + 1 ELSE events
            /\ UNCHANGED <<latch, halted, levels, ferrIgnore, ferrLatched>>
            /\ emu.pc = "top" /\ emu' = [emu EXCEPT !.pc = "timer"]
        BY <1>4, <2>2 DEF Fpu
      <3>2. HandlerInv' /\ insn' \in Program \cup Handler /\ frame' = frame
        BY <3>1, ProceedInv DEF Inv, TypeOK
      <3>3. es' \in BOOLEAN /\ events' \in 0 .. MaxEvents
        BY <3>1, EventBound DEF Inv, TypeOK
      <3>4. TypeOK' /\ SlotInv'
        BY <3>1, <3>2, <3>3 DEF Inv, TypeOK, SlotInv, Handler, latch, levels
      <3> QED BY <3>2, <3>4 DEF Inv
    <2> QED BY <2>1, <2>2
  <1>5. CASE Fnclex
    <2>1. Proceed /\ intFlag' = intFlag BY <1>5 DEF Fnclex
    <2>2. HandlerInv' /\ insn' \in Program \cup Handler /\ frame' = frame
      BY <2>1, ProceedInv DEF Inv, TypeOK
    <2>3. TypeOK' /\ SlotInv'
      BY <1>5, <2>2 DEF Fnclex, Inv, TypeOK, SlotInv, Handler, latch, levels
    <2> QED BY <2>2, <2>3 DEF Inv
  <1>6. CASE Serve
    <2>1. Proceed /\ intFlag' = intFlag BY <1>6 DEF Serve
    <2>2. HandlerInv' /\ insn' \in Program \cup Handler /\ frame' = frame
      BY <2>1, ProceedInv DEF Inv, TypeOK
    <2>3. nic' \in BOOLEAN /\ uart' \in BOOLEAN /\ es' \in BOOLEAN
      BY <1>6 DEF Serve, Inv, TypeOK
    <2>4. TypeOK' /\ SlotInv'
      BY <1>6, <2>2, <2>3 DEF Serve, Inv, TypeOK, SlotInv, Handler, latch
    <2> QED BY <2>2, <2>4 DEF Inv
  <1>7. CASE Iret
    <2>1. frame # << >> BY <1>7 DEF Iret, Inv, HandlerInv, Handler
    <2>2. frame[1].insn \in Program BY <2>1 DEF Inv, TypeOK
    <2>3. insn' \in Program /\ frame' = << >> BY <1>7, <2>2 DEF Iret
    <2>4. HandlerInv' BY <2>3, InterruptsAssumption DEF HandlerInv, Handler
    <2>5. TypeOK' /\ SlotInv'
      BY <1>7, <2>3 DEF Iret, Inv, TypeOK, SlotInv, latch, levels, fpuVars
    <2> QED BY <2>4, <2>5 DEF Inv
  <1> QED BY <1>1, <1>2, <1>3, <1>4, <1>5, <1>6, <1>7 DEF Execute

\* A device's offer puts a request into the latch only when it can be taken.
LEMMA OfferInv ==
  ASSUME TypeOK, pending => intFlag, NEW v \in Vector, NEW c \in BOOLEAN,
         NEW line \in Line, Offer(v, c /\ CanTake(line))
  PROVE  pending' \in BOOLEAN /\ vector' \in Vector /\ (pending' => intFlag)
  BY DEF Offer, Request, CanTake, TypeOK, latch

\* The four sources leave the invariant true.
LEMMA SourceInv == ASSUME Inv, Timer \/ Nic \/ Uart \/ SoundBlaster PROVE Inv'
  <1> USE DEF At, To
  <1>0. Line \subseteq Vector /\ "timer" \in Line /\ "nic" \in Line /\ "uart" \in Line /\ "sb" \in Line
    BY DEF Line, Vector
  <1>1. CASE Timer
    <2>1. PICK ticked \in {emu.pc = "jumped", emu.pc = "jumped" \/ emu.age = TickGap} :
            /\ Offer("timer", ticked /\ CanTake("timer"))
            /\ emu' = [emu EXCEPT !.pc = IF ticked /\ halted THEN "wake" ELSE "nic",
                                  !.age = IF ticked THEN 0 ELSE Smaller(@ + 1, TickGap)]
      BY <1>1 DEF Timer
    <2>2. ticked \in BOOLEAN /\ emu.pc \in {"timer", "jumped"} BY <1>1 DEF Timer
    <2>3. pending' \in BOOLEAN /\ vector' \in Vector /\ (pending' => intFlag)
      BY <1>0, <2>1, <2>2, OfferInv DEF Inv, SlotInv
    <2>4. /\ emu'.pc \in {"wake", "nic"} /\ emu'.i = emu.i /\ emu'.age \in 0 .. TickGap
          /\ emu' = [pc |-> emu'.pc, i |-> emu'.i, age |-> emu'.age]
      <3>1. /\ emu = [pc |-> emu.pc, i |-> emu.i, age |-> emu.age]
            /\ emu.age \in 0 .. TickGap /\ TickGap \in Nat
        BY InterruptsAssumption DEF Inv, TypeOK
      <3>2. Smaller(emu.age + 1, TickGap) \in 0 .. TickGap
        BY <3>1 DEF Smaller
      <3> DEFINE pc == IF ticked /\ halted THEN "wake" ELSE "nic"
                 age == IF ticked THEN 0 ELSE Smaller(emu.age + 1, TickGap)
      <3>3. emu' = [pc |-> pc, i |-> emu.i, age |-> age]
        BY <2>1, <3>1
      <3>4. pc \in {"wake", "nic"} /\ age \in 0 .. TickGap
        BY <3>1, <3>2
      <3> HIDE DEF pc, age
      <3> QED BY <3>3, <3>4
    <2>5. TypeOK' /\ SlotInv' /\ HandlerInv'
      BY <1>1, <2>3, <2>4
      DEF Timer, Inv, TypeOK, SlotInv, HandlerInv, levels, fpuVars, guest
    <2> QED BY <2>5 DEF Inv
  <1>2. CASE Nic
    <2>1. nic' \in BOOLEAN /\ events' \in 0 .. MaxEvents
      <3>1. CASE Polled
        <4>1. PICK e \in {FALSE, events < MaxEvents} :
                nic' = (nic \/ e) /\ events' = IF e THEN events + 1 ELSE events
          BY <1>2, <3>1 DEF Nic
        <4> QED BY <4>1, EventBound DEF Inv, TypeOK
      <3>2. CASE ~Polled
        BY <1>2, <3>2 DEF Nic, Inv, TypeOK
      <3> QED BY <3>1, <3>2
    <2>2. pending' \in BOOLEAN /\ vector' \in Vector /\ (pending' => intFlag)
      <3>1. CASE Polled
        BY <1>0, <1>2, <2>1, <3>1, OfferInv DEF Nic, Inv, SlotInv
      <3>2. CASE ~Polled
        BY <1>2, <3>2 DEF Nic, Inv, SlotInv, TypeOK, latch
      <3> QED BY <3>1, <3>2
    <2>3. TypeOK' /\ SlotInv' /\ HandlerInv'
      BY <1>2, <2>1, <2>2 DEF Nic, Inv, TypeOK, SlotInv, HandlerInv, fpuVars, guest
    <2> QED BY <2>3 DEF Inv
  <1>3. CASE Uart
    <2>1. uart' \in BOOLEAN /\ events' \in 0 .. MaxEvents
      <3>1. CASE Polled
        <4>1. PICK e \in {FALSE, events < MaxEvents} :
                uart' = (uart \/ e) /\ events' = IF e THEN events + 1 ELSE events
          BY <1>3, <3>1 DEF Uart
        <4> QED BY <4>1, EventBound DEF Inv, TypeOK
      <3>2. CASE ~Polled
        BY <1>3, <3>2 DEF Uart, Inv, TypeOK
      <3> QED BY <3>1, <3>2
    <2>2. pending' \in BOOLEAN /\ vector' \in Vector /\ (pending' => intFlag)
      <3>1. CASE Polled
        BY <1>0, <1>3, <2>1, <3>1, OfferInv DEF Uart, Inv, SlotInv
      <3>2. CASE ~Polled
        BY <1>3, <3>2 DEF Uart, Inv, SlotInv, TypeOK, latch
      <3> QED BY <3>1, <3>2
    <2>3. TypeOK' /\ SlotInv' /\ HandlerInv'
      BY <1>3, <2>1, <2>2 DEF Uart, Inv, TypeOK, SlotInv, HandlerInv, fpuVars, guest
    <2> QED BY <2>3 DEF Inv
  <1>4. CASE SoundBlaster
    <2>1. Offer("sb", sbBit /\ CanTake("sb")) /\ sbBit' \in BOOLEAN
      BY <1>4 DEF SoundBlaster, Inv, TypeOK
    <2>2. pending' \in BOOLEAN /\ vector' \in Vector /\ (pending' => intFlag)
      BY <1>0, <2>1, OfferInv DEF Inv, SlotInv, TypeOK
    <2>3. TypeOK' /\ SlotInv' /\ HandlerInv'
      BY <1>4, <2>1, <2>2 DEF SoundBlaster, Inv, TypeOK, SlotInv, HandlerInv, fpuVars, guest
    <2> QED BY <2>3 DEF Inv
  <1> QED BY <1>1, <1>2, <1>3, <1>4

\* Trying the latch empties it, and enters a handler only from the main program.
LEMMA CheckInv == ASSUME Inv, CheckInterrupts PROVE Inv'
  <1> DEFINE v      == IF FerrOffer THEN "ferr" ELSE vector
             take   == (pending \/ FerrOffer) /\ intFlag
             return == At("wake") \/ LastOfBatch
  <1>1. /\ pending' = (pending /\ ~take) /\ vector' = v /\ halted' = (halted /\ ~take)
        /\ IF take /\ v \in Hooked THEN EnterHandler(v) ELSE UNCHANGED <<guest, intFlag>>
        /\ ferrLatched' = (ferrLatched /\ ~(take /\ v = "ferr"))
        /\ ferrIgnore' = IF take THEN Ignne(v) ELSE ferrIgnore /\ es
        /\ emu' = [emu EXCEPT !.pc = IF return THEN "return" ELSE "top",
                              !.i = IF return THEN 0 ELSE @ + 1]
        /\ UNCHANGED <<levels, es, events>>
    BY DEF CheckInterrupts
  <1>2. v \in Vector BY DEF Inv, TypeOK, Vector
  <1>3. ~pending'
    BY <1>1 DEF Inv, SlotInv
  <1>4. /\ pending' \in BOOLEAN /\ halted' \in BOOLEAN
        /\ ferrLatched' \in BOOLEAN /\ ferrIgnore' \in BOOLEAN
    BY <1>1 DEF Inv, TypeOK, Ignne
  <1>5. emu' \in [pc : {"top", "return"}, i : 0 .. BatchLen - 1, age : 0 .. TickGap]
    <2>1. /\ emu = [pc |-> emu.pc, i |-> emu.i, age |-> emu.age]
          /\ emu.i \in 0 .. BatchLen - 1 /\ emu.age \in 0 .. TickGap
          /\ BatchLen \in Nat \ {0}
      BY InterruptsAssumption DEF Inv, TypeOK
    <2>2. CASE return
      <3>1. emu' = [pc |-> "return", i |-> 0, age |-> emu.age]
        BY <1>1, <2>1, <2>2
      <3> QED BY <2>1, <3>1
    <2>3. CASE ~return
      <3>1. emu' = [pc |-> "top", i |-> emu.i + 1, age |-> emu.age]
        BY <1>1, <2>1, <2>3
      <3>2. emu.i + 1 # BatchLen
        BY <2>3 DEF LastOfBatch
      <3> QED BY <2>1, <3>1, <3>2
    <2> QED BY <2>2, <2>3
  <1> HIDE DEF v, take, return
  <1>6. CASE take /\ v \in Hooked
    <2>1. EnterHandler(v) BY <1>1, <1>6
    <2>2. intFlag BY <1>6 DEF take
    <2>3. frame = << >> /\ insn \in Program
      BY <2>2 DEF Inv, HandlerInv, TypeOK, Handler
    <2>4. /\ frame' = <<[insn |-> insn, line |-> v]>>
          /\ insn' = "serve" /\ ~intFlag' /\ intFlag' \in BOOLEAN
      BY <2>1 DEF EnterHandler
    <2>5. HandlerInv'
      BY <2>4 DEF HandlerInv, Handler
    <2>6. frame' \in {<<f>> : f \in [insn : Program, line : Vector]}
      BY <1>2, <2>3, <2>4
    <2>7. TypeOK'
      BY <1>1, <1>2, <1>4, <1>5, <2>4, <2>6 DEF Inv, TypeOK, levels
    <2>8. SlotInv' BY <1>3, <1>4 DEF SlotInv
    <2> QED BY <2>5, <2>7, <2>8 DEF Inv
  <1>7. CASE ~(take /\ v \in Hooked)
    <2>1. insn' = insn /\ frame' = frame /\ intFlag' = intFlag
      BY <1>1, <1>7 DEF guest
    <2>2. TypeOK' BY <1>1, <1>2, <1>4, <1>5, <2>1 DEF Inv, TypeOK, levels
    <2>3. SlotInv' /\ HandlerInv' BY <1>3, <2>1 DEF Inv, SlotInv, HandlerInv
    <2> QED BY <2>2, <2>3 DEF Inv
  <1> QED BY <1>6, <1>7

\* Every step leaves the invariant true.
LEMMA NextInv == Inv /\ [Next]_vars => Inv'
  <1> SUFFICES ASSUME Inv, [Next]_vars PROVE Inv'
    OBVIOUS
  <1>1. CASE Halted
    BY <1>1
    DEF Halted, At, To, Inv, TypeOK, SlotInv, HandlerInv, latch, levels, fpuVars, guest
  <1>2. CASE Return
    <2>1. sbBit' \in BOOLEAN /\ events' \in 0 .. MaxEvents
      <3>1. PICK e \in {FALSE, events < MaxEvents} :
              sbBit' = (sbBit \/ e) /\ events' = IF e THEN events + 1 ELSE events
        BY <1>2 DEF Return
      <3> QED BY <3>1, EventBound DEF Inv, TypeOK
    <2> QED
      BY <1>2, <2>1
      DEF Return, At, To, Inv, TypeOK, SlotInv, HandlerInv, latch, fpuVars, guest
  <1>3. CASE UNCHANGED vars
    BY <1>3 DEF vars, Inv, TypeOK, SlotInv, HandlerInv, latch, levels, fpuVars, guest
  <1> QED
    BY <1>1, <1>2, <1>3, ExecuteInv, SourceInv, CheckInv DEF Next

\* The invariant holds in every state of every behaviour.
THEOREM Invariance == Spec => []Inv
  BY InitInv, NextInv, PTL DEF Spec

\* Type correctness of the interrupt path.
THEOREM TypeCorrect == Spec => []TypeOK
  <1>1. Inv => TypeOK BY DEF Inv
  <1> QED BY <1>1, Invariance, PTL

\* The one-slot latch of emu88::request_int is empty before every instruction:
\* no request outlives the pass of run_batch that made it.
THEOREM SlotFree == Spec => []SlotFreeBetweenInstructions
  <1>1. Inv => SlotFreeBetweenInstructions
    BY DEF Inv, SlotInv, SlotFreeBetweenInstructions
  <1> QED BY <1>1, Invariance, PTL

\* No hardware interrupt is delivered into a handler.
THEOREM NoNesting == Spec => []HandlersDoNotNest
  <1>1. Inv => HandlersDoNotNest
    BY DEF Inv, HandlerInv, HandlersDoNotNest
  <1> QED BY <1>1, Invariance, PTL
=============================================================================
