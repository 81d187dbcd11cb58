--------------------------- MODULE Keyboard_proof ---------------------------
(***************************************************************************)
(* What holds of the key path for every ring, batch length, program and    *)
(* interleaving of the two threads.                                        *)
(*                                                                         *)
(* No wake-up is lost: the invariant follows the decision to wait from the *)
(* look at the ring to the semaphore, since what matters is not what the   *)
(* emulator thread sees when it parks but what it saw when it decided.     *)
(* IP stays on instructions, for a guest that has hooked both interrupts:  *)
(* a handler runs with interrupts off, so one frame is enough.  The ring   *)
(* is a FIFO: its words between the cursors, in order, are the queue of    *)
(* BoundedFifo, and each step of either thread is a step of it.            *)
(***************************************************************************)
EXTENDS Keyboard, SequenceTheorems, TLAPS

Slots == 0 .. RingSize - 1

\* What the two threads keep.
ThreadType ==
    /\ DOMAIN host = {"pc", "key"} /\ DOMAIN emu = {"pc", "i", "last", "age"}
    /\ host.key \in 0 .. MaxPresses /\ presses \in 0 .. MaxPresses /\ permits \in Nat

-----------------------------------------------------------------------------
LEMMA HostMoves ==
    ASSUME ThreadType, NEW pc, HostTo(pc)
    PROVE  DOMAIN host' = {"pc", "key"} /\ host'.pc = pc /\ host'.key = host.key
BY DEF ThreadType, HostTo

LEMMA EmuMoves ==
    ASSUME ThreadType, NEW pc, EmuTo(pc)
    PROVE  DOMAIN emu' = {"pc", "i", "last", "age"} /\ emu'.pc = pc
BY DEF ThreadType, EmuTo

LEMMA InitThreads == Init => ThreadType
<1>1. TypedAhead \in 0 .. MaxPresses
  BY KeyboardAssumption DEF Smaller
<1> QED
  BY <1>1, KeyboardAssumption DEF Init, ThreadType, NoKey

LEMMA HostStep ==
    ASSUME ThreadType, PressKey \/ QueueKey
    PROVE  ThreadType'
<1>1. CASE PressKey
  <2>1. presses' = presses + 1 /\ presses' \in 0 .. MaxPresses
    BY <1>1, KeyboardAssumption DEF PressKey, ThreadType
  <2> QED
    BY <1>1, <2>1 DEF PressKey, ThreadType
<1>2. CASE PublishKey \/ QueueMake \/ QueueBreak
  BY <1>2, HostMoves DEF PublishKey, QueueMake, QueueBreak, ThreadType
<1>3. CASE RaiseIrq1 \/ StoreVector \/ WakeReader \/ WakeCpu
  BY <1>3, HostMoves DEF RaiseIrq1, StoreVector, WakeReader, WakeCpu, ThreadType
<1>4. CASE Signal
  BY <1>4, KeyboardAssumption DEF Signal, ThreadType, NoKey
<1> QED
  BY <1>1, <1>2, <1>3, <1>4 DEF QueueKey

LEMMA EmuStep == ASSUME ThreadType, RunLoop PROVE ThreadType'
<1>1. CASE StartBatch \/ Yield
  BY <1>1 DEF StartBatch, Yield, ThreadType
<1>2. CASE Halted \/ Execute
  BY <1>2, EmuMoves
  DEF Halted, Execute, ReadKey, CheckKey, Block, Rewind, Found, OtherInt, SetIF, Hlt,
      ReadPort60, Iret, ThreadType
<1>3. CASE Tick
  BY <1>3 DEF Tick, ThreadType
<1>4. CASE StoreTimerVector
  BY <1>4 DEF StoreTimerVector, EmuTo, ThreadType
<1>5. CASE CheckInterrupts \/ Deliver
  BY <1>5, EmuMoves DEF CheckInterrupts, Deliver, ThreadType
<1>6. CASE NextInstruction
  BY <1>6 DEF NextInstruction, EmuTo, ThreadType
<1>7. CASE Return
  BY <1>7, EmuMoves DEF Return, ThreadType
<1>8. CASE Unpark
  BY <1>8, EmuMoves DEF Unpark, ThreadType
<1> QED
  BY <1>1, <1>2, <1>3, <1>4, <1>5, <1>6, <1>7, <1>8 DEF RunLoop

LEMMA NextThreads == ThreadType /\ [Next]_vars => ThreadType'
<1>1. ThreadType /\ UNCHANGED vars => ThreadType'
  BY DEF vars, ThreadType
<1> QED
  BY <1>1, HostStep, EmuStep DEF Next

-----------------------------------------------------------------------------
(* The wait for a key. *)

\* The emulator thread has decided to wait, or is about to, and has not
\* started another batch since.
Decided == emu.pc # "loop" /\ (waiting \/ emu.pc \in {"block", "park"})

\* It decided so when the ring was empty; whoever has queued a key since has
\* left a permit or is going to.
WakeupKept == Decided /\ head # tail => permits > 0 \/ host.pc # "idle"

LEMMA InitWakeup == Init => WakeupKept
BY DEF Init, WakeupKept, Decided

LEMMA HostWakeup == ASSUME ThreadType, WakeupKept, PressKey \/ QueueKey PROVE WakeupKept'
<1>1. CASE PressKey
  BY <1>1 DEF PressKey, WakeupKept
<1>2. CASE PublishKey \/ QueueMake \/ QueueBreak
  BY <1>2, HostMoves DEF PublishKey, QueueMake, QueueBreak, WakeupKept
<1>3. CASE RaiseIrq1 \/ StoreVector \/ WakeReader \/ WakeCpu
  BY <1>3, HostMoves DEF RaiseIrq1, StoreVector, WakeReader, WakeCpu, WakeupKept
<1>4. CASE Signal
  BY <1>4 DEF Signal, ThreadType, WakeupKept
<1> QED
  BY <1>1, <1>2, <1>3, <1>4 DEF QueueKey

LEMMA EmuWakeup == ASSUME ThreadType, WakeupKept, RunLoop PROVE WakeupKept'
<1>1. CASE StartBatch
  BY <1>1 DEF StartBatch, ThreadType, WakeupKept, Decided
<1>2. CASE Yield
  BY <1>2 DEF Yield, EmuAt, ringVars, ThreadType, WakeupKept, Decided
<1>3. CASE Halted
  BY <1>3, EmuMoves DEF Halted, EmuAt, ringVars, WakeupKept, Decided
<1>4. CASE ReadKey
  BY <1>4, EmuMoves DEF ReadKey, Executing, WakeupKept, Decided
<1>5. CASE CheckKey
  BY <1>5, EmuMoves DEF CheckKey, Executing, ringVars, WakeupKept, Decided
<1>6. CASE Block
  BY <1>6, EmuMoves DEF Block, EmuAt, ringVars, WakeupKept, Decided
<1>7. CASE Rewind \/ Found
  BY <1>7, EmuMoves DEF Rewind, Found, EmuAt, ringVars, WakeupKept, Decided
<1>8. CASE OtherInt \/ SetIF \/ Hlt \/ ReadPort60 \/ Iret
  BY <1>8, EmuMoves
  DEF OtherInt, SetIF, Hlt, ReadPort60, Iret, Executing, ringVars, WakeupKept, Decided
<1>9. CASE Tick
  BY <1>9 DEF Tick, EmuAt, ringVars, ThreadType, WakeupKept, Decided
<1>10. CASE StoreTimerVector
  BY <1>10 DEF StoreTimerVector, EmuAt, EmuTo, ringVars, ThreadType, WakeupKept, Decided
<1>11. CASE CheckInterrupts \/ Deliver
  BY <1>11, EmuMoves DEF CheckInterrupts, Deliver, EmuAt, ringVars, WakeupKept, Decided
<1>12. CASE NextInstruction
  BY <1>12 DEF NextInstruction, EmuAt, EmuTo, ringVars, ThreadType, WakeupKept, Decided
<1>13. CASE Return
  BY <1>13, EmuMoves DEF Return, EmuAt, ringVars, WakeupKept, Decided
<1>14. CASE Unpark
  BY <1>14, EmuMoves DEF Unpark, WakeupKept, Decided
<1> QED
  BY <1>1, <1>2, <1>3, <1>4, <1>5, <1>6, <1>7, <1>8, <1>9, <1>10, <1>11, <1>12, <1>13, <1>14
  DEF RunLoop, Execute

LEMMA NextWakeup == ThreadType /\ WakeupKept /\ [Next]_vars => WakeupKept'
<1>1. WakeupKept /\ UNCHANGED vars => WakeupKept'
  BY DEF vars, ringVars, WakeupKept, Decided
<1> QED
  BY <1>1, HostWakeup, EmuWakeup DEF Next

\* For every ring, batch, program, hooked and masked interrupt: whenever -runLoop
\* parks while the ring holds a key, a permit is there or queue_key is on its way
\* to signal one.
THEOREM NoWakeupIsLost == Spec => []NoLostWakeup
<1>1. WakeupKept => NoLostWakeup
  BY DEF WakeupKept, NoLostWakeup, Decided
<1> QED
  BY InitThreads, NextThreads, InitWakeup, NextWakeup, <1>1, PTL DEF Spec

-----------------------------------------------------------------------------
(* The guest's instruction pointer. *)

InHandler == insn \in {"in60", "iret"}

\* A handler runs with interrupts off, over the frame of an instruction of the
\* program itself; so it is not interrupted in its turn.
HandlerReturns ==
    /\ skew = 0
    /\ vector \in Line
    /\ InHandler => /\ intFlag = FALSE
                    /\ frame[1].skew = 0 /\ frame[1].insn \notin {"in60", "iret"}
    /\ emu.pc = "deliver" => intFlag = TRUE

LEMMA InitIp == Init => HandlerReturns
BY DEF Init, HandlerReturns, InHandler, Line

LEMMA HostIp == ASSUME HandlerReturns, PressKey \/ QueueKey PROVE HandlerReturns'
BY DEF PressKey, QueueKey, PublishKey, QueueMake, QueueBreak, RaiseIrq1, StoreVector,
       WakeReader, WakeCpu, Signal, latch, guest, HandlerReturns, InHandler, Line

LEMMA EmuIp == ASSUME Hooked = Line, ThreadType, HandlerReturns, RunLoop PROVE HandlerReturns'
<1>1. CASE StartBatch \/ Yield
  BY <1>1 DEF StartBatch, Yield, latch, guest, ThreadType, HandlerReturns, InHandler
<1>2. CASE Halted \/ Block \/ Return \/ Unpark
  BY <1>2, EmuMoves
  DEF Halted, Block, Return, Unpark, latch, guest, HandlerReturns, InHandler
<1>3. CASE ReadKey \/ CheckKey
  BY <1>3, EmuMoves
  DEF ReadKey, CheckKey, Executing, IpStays, latch, HandlerReturns, InHandler
<1>4. CASE Rewind \/ Found
  BY <1>4, EmuMoves
  DEF Rewind, Found, NextInsn, latch, guest, HandlerReturns, InHandler
<1>5. CASE OtherInt \/ SetIF \/ Hlt
  BY <1>5, EmuMoves
  DEF OtherInt, SetIF, Hlt, NextInsn, latch, HandlerReturns, InHandler
<1>6. CASE ReadPort60
  <2>1. InHandler
    BY <1>6, KeyboardAssumption DEF ReadPort60, Executing, InHandler
  <2> QED
    BY <1>6, <2>1, EmuMoves DEF ReadPort60, HandlerReturns, InHandler, Line
<1>7. CASE Iret
  <2>1. InHandler
    BY <1>7, KeyboardAssumption DEF Iret, Executing, InHandler
  <2> QED
    BY <1>7, <2>1, EmuMoves DEF Iret, latch, HandlerReturns, InHandler
<1>8. CASE Tick
  BY <1>8 DEF Tick, latch, guest, ThreadType, HandlerReturns, InHandler
<1>9. CASE StoreTimerVector
  BY <1>9 DEF StoreTimerVector, EmuTo, guest, ThreadType, HandlerReturns, InHandler, Line
<1>10. CASE CheckInterrupts
  BY <1>10, EmuMoves DEF CheckInterrupts, guest, HandlerReturns, InHandler
<1>11. CASE Deliver
  <2>1. ~ InHandler /\ vector \in Hooked
    BY <1>11 DEF Deliver, EmuAt, HandlerReturns
  <2> QED
    BY <1>11, <2>1, EmuMoves DEF Deliver, latch, HandlerReturns, InHandler
<1>12. CASE NextInstruction
  BY <1>12 DEF NextInstruction, EmuTo, latch, guest, ThreadType, HandlerReturns, InHandler
<1> QED
  BY <1>1, <1>2, <1>3, <1>4, <1>5, <1>6, <1>7, <1>8, <1>9, <1>10, <1>11, <1>12
  DEF RunLoop, Execute

LEMMA NextIp == Hooked = Line /\ ThreadType /\ HandlerReturns /\ [Next]_vars => HandlerReturns'
<1>1. HandlerReturns /\ UNCHANGED vars => HandlerReturns'
  BY DEF vars, latch, guest, HandlerReturns, InHandler
<1> QED
  BY <1>1, HostIp, EmuIp DEF Next

\* A guest that has hooked both interrupts executes from instruction boundaries
\* only, however its waits for a key, its own HLTs and the interrupts of both
\* threads interleave.
THEOREM IpStaysOnInstructions == Hooked = Line => (Spec => []IpOnInstruction)
<1> SUFFICES ASSUME Hooked = Line PROVE Spec => []IpOnInstruction
  OBVIOUS
<1>1. HandlerReturns => IpOnInstruction
  BY DEF HandlerReturns, IpOnInstruction
<1>2. ThreadType /\ HandlerReturns /\ [Next]_vars => HandlerReturns'
  BY NextIp
<1> QED
  BY InitThreads, NextThreads, InitIp, <1>1, <1>2, PTL DEF Spec

-----------------------------------------------------------------------------
(* The key ring: cursors that wrap. *)

\* A number less than two turns, reduced.
LEMMA Wrapped ==
    ASSUME NEW c \in Nat, c > 0, NEW a \in Nat, a < 2 * c
    PROVE  a % c = IF a < c THEN a ELSE a - c
<1>1. CASE a < c
  BY <1>1, SMT
<1>2. CASE a >= c
  <2> DEFINE q == a \div c
  <2>1. q \in Int /\ a % c \in 0 .. c - 1 /\ a = c * q + (a % c)
    BY SMT
  <2> HIDE DEF q
  <2>2. CASE q <= 0
    <3>1. c * q <= 0
      BY <2>1, <2>2, SMT
    <3> QED
      BY <1>2, <2>1, <3>1
  <2>3. CASE q >= 2
    <3>1. c * q >= 2 * c
      BY <2>1, <2>3, SMT
    <3> QED
      BY <2>1, <3>1
  <2>4. CASE q = 1
    BY <1>2, <2>1, <2>4
  <2> QED
    BY <2>1, <2>2, <2>3, <2>4
<1> QED
  BY <1>1, <1>2

\* How many words from h to t, and the j-th of them.
Reduced(a) == a % RingSize
Gap(h, t) == Reduced(t + RingSize - h)
Place(h, j) == Reduced(h + j - 1)

LEMMA RingArithmetic ==
    /\ RingSize \in Nat /\ RingSize >= 2
    /\ \A h, t \in Slots : Gap(h, t) = IF t < h THEN t + RingSize - h ELSE t - h
    /\ \A h \in Slots : \A j \in 1 .. RingSize :
         Place(h, j) = IF h + j - 1 < RingSize THEN h + j - 1 ELSE h + j - 1 - RingSize
    /\ \A h \in Slots : NextSlot(h) = IF h + 1 = RingSize THEN 0 ELSE h + 1
<1>1. RingSize \in Nat /\ RingSize >= 2
  BY KeyboardAssumption
<1>2. \A a \in Nat : a < 2 * RingSize =>
                       Reduced(a) = IF a < RingSize THEN a ELSE a - RingSize
  BY <1>1, Wrapped DEF Reduced
<1>3. \A h : NextSlot(h) = Reduced(h + 1)
  BY DEF NextSlot, Reduced
<1> QED
  BY <1>1, <1>2, <1>3 DEF Gap, Place, Slots

LEMMA Places ==
    ASSUME NEW h \in Slots, NEW t \in Slots
    PROVE  /\ Gap(h, t) \in 0 .. RingSize - 1
           /\ NextSlot(t) \in Slots
           /\ \A j \in 1 .. RingSize : Place(h, j) \in Slots
           /\ \A j \in 1 .. Gap(h, t) : j \in 1 .. RingSize /\ Place(h, j) # t
           /\ Place(h, Gap(h, t) + 1) = t
           /\ NextSlot(t) # h => Gap(h, NextSlot(t)) = Gap(h, t) + 1
           /\ h # t => /\ Gap(NextSlot(h), t) = Gap(h, t) - 1 /\ Gap(h, t) >= 1
                       /\ Place(h, 1) = h
                       /\ \A j \in 1 .. Gap(h, t) - 1 : Place(NextSlot(h), j) = Place(h, j + 1)
                       /\ NextSlot(t) # NextSlot(h)
<1>1. /\ RingSize \in Nat /\ RingSize >= 2
      /\ h \in Nat /\ h < RingSize /\ t \in Nat /\ t < RingSize
  BY RingArithmetic DEF Slots
<1>2. Gap(h, t) = IF t < h THEN t + RingSize - h ELSE t - h
  BY RingArithmetic
<1>3. \A j \in 1 .. RingSize :
        Place(h, j) = IF h + j - 1 < RingSize THEN h + j - 1 ELSE h + j - 1 - RingSize
  BY RingArithmetic
<1>4. /\ NextSlot(t) = IF t + 1 = RingSize THEN 0 ELSE t + 1
      /\ NextSlot(h) = IF h + 1 = RingSize THEN 0 ELSE h + 1
  BY RingArithmetic
<1>5. NextSlot(t) \in Slots /\ NextSlot(h) \in Slots
  BY <1>1, <1>4 DEF Slots
<1>6. /\ Gap(h, NextSlot(t)) = IF NextSlot(t) < h THEN NextSlot(t) + RingSize - h
                                                  ELSE NextSlot(t) - h
      /\ Gap(NextSlot(h), t) = IF t < NextSlot(h) THEN t + RingSize - NextSlot(h)
                                                  ELSE t - NextSlot(h)
  BY <1>5, RingArithmetic
<1>7. \A j \in 1 .. RingSize :
        Place(NextSlot(h), j) = IF NextSlot(h) + j - 1 < RingSize
                                THEN NextSlot(h) + j - 1 ELSE NextSlot(h) + j - 1 - RingSize
  BY <1>5, RingArithmetic
<1>8. /\ Gap(h, t) \in 0 .. RingSize - 1
      /\ \A j \in 1 .. RingSize : Place(h, j) \in Slots
  BY <1>1, <1>2, <1>3 DEF Slots
<1>9. \A j \in 1 .. Gap(h, t) : j \in 1 .. RingSize /\ Place(h, j) # t
  BY <1>1, <1>2, <1>3
<1>10. Place(h, Gap(h, t) + 1) = t
  <2>1. Gap(h, t) + 1 \in 1 .. RingSize
    BY <1>1, <1>8
  <2> QED
    BY <1>1, <1>2, <1>3, <2>1
<1>11. NextSlot(t) # h => Gap(h, NextSlot(t)) = Gap(h, t) + 1
  BY <1>1, <1>2, <1>4, <1>6
<1>12. h # t => /\ Gap(NextSlot(h), t) = Gap(h, t) - 1 /\ Gap(h, t) >= 1
                /\ NextSlot(t) # NextSlot(h)
  BY <1>1, <1>2, <1>4, <1>6
<1>13. Place(h, 1) = h
  BY <1>1, <1>3
<1>14. \A j \in 1 .. Gap(h, t) - 1 : Place(NextSlot(h), j) = Place(h, j + 1)
  BY <1>1, <1>3, <1>4, <1>7, <1>8
<1> QED
  BY <1>5, <1>8, <1>9, <1>10, <1>11, <1>12, <1>13, <1>14

-----------------------------------------------------------------------------
(* The key ring is a FIFO. *)

\* The words between the cursors hold keys, and a key being published is in
\* the word after them.
RingHoldsKeys ==
    /\ head \in Slots /\ tail \in Slots /\ DOMAIN ring = Slots
    /\ \A j \in 1 .. Gap(head, tail) : ring[Place(head, j)] \in Key
    /\ host.pc = "publish" => /\ host.key \in Key /\ ring[tail] = host.key
                              /\ NextSlot(tail) # head

\* What most steps leave alone.
RingKept == UNCHANGED ringVars /\ (host'.pc = "publish" => host' = host)

LEMMA InitRing == Init => RingHoldsKeys
<1> SUFFICES ASSUME Init PROVE RingHoldsKeys
  OBVIOUS
<1>1. /\ RingSize \in Nat /\ RingSize >= 2
      /\ FirstWord \in Slots /\ TypedAhead \in 0 .. RingSize - 1 /\ TypedAhead <= MaxPresses
  BY KeyboardAssumption DEF Slots, Smaller
<1>2. /\ head = FirstWord /\ tail = Place(FirstWord, TypedAhead + 1)
      /\ DOMAIN ring = Slots /\ host.pc = "idle"
      /\ \A s \in Slots : ring[s] = IF Gap(FirstWord, s) < TypedAhead
                                    THEN Gap(FirstWord, s) + 1 ELSE NoKey
  BY <1>1 DEF Init, Gap, Place, Reduced, Slots
<1>3. \A j \in 1 .. RingSize : /\ Place(FirstWord, j) \in Slots
                               /\ Gap(FirstWord, Place(FirstWord, j)) = j - 1
  <2> TAKE j \in 1 .. RingSize
  <2>1. Place(FirstWord, j) \in Slots
    BY <1>1, Places
  <2>2. /\ Place(FirstWord, j) = IF FirstWord + j - 1 < RingSize
                                 THEN FirstWord + j - 1 ELSE FirstWord + j - 1 - RingSize
        /\ Gap(FirstWord, Place(FirstWord, j)) =
              IF Place(FirstWord, j) < FirstWord
              THEN Place(FirstWord, j) + RingSize - FirstWord
              ELSE Place(FirstWord, j) - FirstWord
    BY <1>1, <2>1, RingArithmetic
  <2> QED
    BY <1>1, <2>1, <2>2 DEF Slots
<1>4. tail \in Slots /\ Gap(head, tail) = TypedAhead
  BY <1>1, <1>2, <1>3
<1>5. ASSUME NEW j \in 1 .. Gap(head, tail) PROVE ring[Place(head, j)] \in Key
  <2>1. j \in 1 .. RingSize /\ j - 1 < TypedAhead /\ j \in 1 .. MaxPresses
    BY <1>1, <1>4, KeyboardAssumption
  <2>2. ring[Place(head, j)] = j
    BY <1>2, <1>3, <2>1
  <2> QED
    BY <2>1, <2>2 DEF Key
<1> QED
  BY <1>1, <1>2, <1>4, <1>5 DEF RingHoldsKeys

LEMMA KeptRing == ASSUME RingHoldsKeys, RingKept PROVE RingHoldsKeys'
BY DEF RingHoldsKeys, RingKept, ringVars

LEMMA PressRing == ASSUME ThreadType, RingHoldsKeys, PressKey PROVE RingHoldsKeys'
<1>1. CASE NextSlot(tail) = head
  BY <1>1 DEF PressKey, RingHoldsKeys
<1>2. CASE NextSlot(tail) # head
  <2>1. /\ ring' = [ring EXCEPT ![tail] = presses'] /\ head' = head /\ tail' = tail
        /\ host' = [pc |-> "publish", key |-> presses']
        /\ presses' \in Key
    BY <1>2, KeyboardAssumption DEF PressKey, ThreadType, Key
  <2>2. \A j \in 1 .. Gap(head, tail) : ring'[Place(head, j)] = ring[Place(head, j)]
    BY <2>1, Places DEF RingHoldsKeys
  <2> QED
    BY <1>2, <2>1, <2>2 DEF RingHoldsKeys
<1> QED
  BY <1>1, <1>2

LEMMA PublishRing == ASSUME ThreadType, RingHoldsKeys, PublishKey PROVE RingHoldsKeys'
<1>1. /\ tail' = NextSlot(tail) /\ head' = head /\ ring' = ring /\ host'.pc = "make"
      /\ host.key \in Key /\ ring[tail] = host.key /\ NextSlot(tail) # head
  BY HostMoves DEF PublishKey, HostAt, RingHoldsKeys
<1>2. /\ head \in Slots /\ tail \in Slots /\ tail' \in Slots
      /\ Gap(head, tail') = Gap(head, tail) + 1 /\ Gap(head, tail) \in Nat
      /\ ring[Place(head, Gap(head, tail) + 1)] = host.key
  <2>1. head \in Slots /\ tail \in Slots
    BY DEF RingHoldsKeys
  <2>2. /\ NextSlot(tail) \in Slots /\ Gap(head, NextSlot(tail)) = Gap(head, tail) + 1
        /\ Gap(head, tail) \in 0 .. RingSize - 1
        /\ Place(head, Gap(head, tail) + 1) = tail
    BY <1>1, <2>1, Places
  <2> QED
    BY <1>1, <2>1, <2>2, RingArithmetic
<1>3. \A j \in 1 .. Gap(head, tail') : ring[Place(head, j)] \in Key
  BY <1>1, <1>2 DEF RingHoldsKeys
<1> QED
  BY <1>1, <1>2, <1>3 DEF RingHoldsKeys

LEMMA ReadRing == ASSUME ThreadType, RingHoldsKeys, ReadKey PROVE RingHoldsKeys'
<1>1. tail' = tail /\ ring' = ring /\ host' = host
  BY DEF ReadKey
<1>2. CASE head = tail
  BY <1>1, <1>2 DEF ReadKey, RingHoldsKeys
<1>3. CASE head # tail
  <2>1. head' = NextSlot(head)
    BY <1>3 DEF ReadKey
  <2>2. /\ head \in Slots /\ tail \in Slots /\ head' \in Slots
        /\ Gap(head', tail) = Gap(head, tail) - 1 /\ Gap(head, tail) \in Nat
        /\ \A j \in 1 .. Gap(head, tail) - 1 : Place(head', j) = Place(head, j + 1)
        /\ NextSlot(tail) # head'
    BY <1>3, <2>1, Places, RingArithmetic DEF RingHoldsKeys
  <2>3. \A j \in 1 .. Gap(head', tail) : ring[Place(head', j)] \in Key
    BY <2>2 DEF RingHoldsKeys
  <2> QED
    BY <1>1, <2>2, <2>3 DEF RingHoldsKeys
<1> QED
  BY <1>2, <1>3

\* Only PressKey, PublishKey and ReadKey touch the ring, only ReadKey and
\* Rewind what INT 16h has found.
LEMMA StepKinds ==
    ASSUME ThreadType, [Next]_vars
    PROVE  \/ PressKey \/ PublishKey \/ ReadKey
           \/ RingKept /\ (Rewind \/ got' = got)
<1>1. CASE UNCHANGED vars
  BY <1>1 DEF vars, RingKept
<1>2. CASE QueueKey
  <2>1. CASE QueueMake \/ QueueBreak
    BY <2>1, HostMoves DEF QueueMake, QueueBreak, RingKept
  <2>2. CASE RaiseIrq1 \/ StoreVector \/ WakeReader \/ WakeCpu
    BY <2>2, HostMoves DEF RaiseIrq1, StoreVector, WakeReader, WakeCpu, RingKept
  <2>3. CASE Signal
    BY <2>3 DEF Signal, RingKept
  <2> QED
    BY <1>2, <2>1, <2>2, <2>3 DEF QueueKey
<1>3. CASE RunLoop
  BY <1>3
  DEF RunLoop, Execute, StartBatch, Yield, Halted, CheckKey, Block, Rewind, Found, OtherInt,
      SetIF, Hlt, ReadPort60, Iret, Tick, StoreTimerVector, CheckInterrupts, Deliver,
      NextInstruction, Return, Unpark, RingKept, ringVars
<1> QED
  BY <1>1, <1>2, <1>3 DEF Next

LEMMA NextRing == ThreadType /\ RingHoldsKeys /\ [Next]_vars => RingHoldsKeys'
BY StepKinds, KeptRing, PressRing, PublishRing, ReadRing

-----------------------------------------------------------------------------
(* The refinement. *)

Delivered == IF got = NoKey THEN << >> ELSE <<got>>

QueueOfKeys ==
    /\ Queued = [j \in 1 .. Gap(head, tail) |-> ring[Place(head, j)]]
    /\ Gap(head, tail) \in 0 .. RingSize - 1
    /\ Queued \in Seq(Key) /\ Len(Queued) = Gap(head, tail)

LEMMA QueuedKeys == RingHoldsKeys => QueueOfKeys
<1> SUFFICES ASSUME RingHoldsKeys PROVE QueueOfKeys
  OBVIOUS
<1>1. Gap(head, tail) \in 0 .. RingSize - 1
  BY Places DEF RingHoldsKeys
<1>2. Queued = [j \in 1 .. Gap(head, tail) |-> ring[Place(head, j)]]
  BY DEF Queued, Gap, Place, Reduced
<1>3. Gap(head, tail) \in Nat
  BY <1>1, RingArithmetic
<1>4. Queued \in [1 .. Gap(head, tail) -> Key]
  BY <1>2 DEF RingHoldsKeys
<1>5. Queued \in Seq(Key) /\ Len(Queued) = Gap(head, tail)
  BY <1>3, <1>4
<1> QED
  BY <1>1, <1>2, <1>5 DEF QueueOfKeys

LEMMA InitRefines == Init => Fifo!Init
<1> SUFFICES ASSUME Init PROVE Fifo!Init
  OBVIOUS
<1>1. Len(Queued) <= RingSize - 1
  BY InitRing, QueuedKeys, RingArithmetic DEF QueueOfKeys
<1>2. got = NoKey
  BY DEF Init
<1> QED
  BY <1>1, <1>2 DEF Fifo!Init

\* queue_key puts its key at the end.
LEMMA PublishRefines ==
    ASSUME ThreadType, RingHoldsKeys, RingHoldsKeys', PublishKey
    PROVE  Fifo!Next
<1> DEFINE n == Gap(head, tail)
           k == host.key
<1>1. /\ tail' = NextSlot(tail) /\ head' = head /\ ring' = ring /\ got' = got
      /\ k \in Key /\ ring[tail] = k /\ NextSlot(tail) # head
      /\ head \in Slots /\ tail \in Slots
  BY DEF PublishKey, HostAt, RingHoldsKeys
<1>2. /\ Queued = [j \in 1 .. n |-> ring[Place(head, j)]]
      /\ n \in 0 .. RingSize - 1
      /\ Queued \in Seq(Key) /\ Len(Queued) = n
  BY QueuedKeys DEF QueueOfKeys
<1>3. /\ Gap(head, tail') = n + 1 /\ Place(head, n + 1) = tail
  BY <1>1, Places
<1>4. /\ Queued' = [j \in 1 .. n + 1 |-> ring[Place(head, j)]]
      /\ n + 1 \in 0 .. RingSize - 1
      /\ Queued' \in Seq(Key) /\ Len(Queued') = n + 1
  <2>1. QueueOfKeys'
    BY QueuedKeys, PTL
  <2> QED
    BY <1>1, <1>3, <2>1 DEF QueueOfKeys
<1> HIDE DEF n, k
<1>5. n \in Nat /\ RingSize \in Nat
  BY <1>2, RingArithmetic
<1>6. Queued' = Queued \o <<k>>
  <2>1. <<k>> \in Seq(Key) /\ Len(<<k>>) = 1 /\ <<k>>[1] = k
    BY <1>1
  <2>2. /\ Queued \o <<k>> \in Seq(Key) /\ Len(Queued \o <<k>>) = n + 1
        /\ \A j \in 1 .. n + 1 :
             (Queued \o <<k>>)[j] = IF j <= n THEN Queued[j] ELSE <<k>>[j - n]
    BY <1>2, <1>5, <2>1, ConcatProperties
  <2>3. ASSUME NEW j \in 1 .. n + 1 PROVE Queued'[j] = (Queued \o <<k>>)[j]
    <3>1. CASE j <= n
      BY <1>2, <1>4, <1>5, <2>2, <3>1
    <3>2. CASE j = n + 1
      <4>1. j - n = 1 /\ ~ (j <= n)
        BY <1>5, <3>2
      <4>2. (Queued \o <<k>>)[j] = k
        BY <2>1, <2>2, <4>1
      <4>3. Queued'[j] = ring[Place(head, n + 1)]
        BY <1>4, <3>2
      <4>4. ring[Place(head, n + 1)] = k
        BY <1>1, <1>3
      <4> QED
        BY <4>2, <4>3, <4>4
    <3>3. j <= n \/ j = n + 1
      BY <1>5
    <3> QED
      BY <3>1, <3>2, <3>3
  <2> QED
    BY <1>4, <2>2, <2>3, SeqEqual
<1>7. <<k>> \in [1 .. 1 -> Key] /\ Len(<<k>>) = 1
  BY <1>1
<1>8. Delivered' = Delivered
  BY <1>1 DEF Delivered
<1>9. 1 \in 0 .. RingSize - 1 /\ Len(Queued) + 1 <= RingSize - 1
  BY <1>2, <1>4, <1>5, RingArithmetic
<1>10. Fifo!Put(<<k>>)
  BY <1>6, <1>7, <1>8, <1>9 DEF Fifo!Put, Delivered
<1> QED
  BY <1>7, <1>9, <1>10 DEF Fifo!Next

\* A word written beyond the queue does not change it.
LEMMA PressRefines ==
    ASSUME ThreadType, RingHoldsKeys, PressKey
    PROVE  UNCHANGED Fifo!fifoVars
<1> DEFINE n == Gap(head, tail)
<1>1. /\ head' = head /\ tail' = tail /\ got' = got
      /\ ring' = ring \/ ring' = [ring EXCEPT ![tail] = presses']
  BY DEF PressKey
<1>2. /\ head \in Slots /\ tail \in Slots /\ DOMAIN ring = Slots
      /\ \A j \in 1 .. n : Place(head, j) \in Slots /\ Place(head, j) # tail
  BY Places DEF RingHoldsKeys
<1>3. \A j \in 1 .. n : ring'[Place(head, j)] = ring[Place(head, j)]
  BY <1>1, <1>2
<1>4. /\ Queued = [j \in 1 .. n |-> ring[Place(head, j)]]
      /\ Queued' = [j \in 1 .. n |-> ring'[Place(head, j)]]
  BY <1>1 DEF Queued, Gap, Place, Reduced
<1> HIDE DEF n
<1>5. Queued' = Queued
  BY <1>3, <1>4
<1> QED
  BY <1>1, <1>5 DEF Fifo!fifoVars

\* INT 16h takes the key at the head.
LEMMA ReadRefines ==
    ASSUME ThreadType, RingHoldsKeys, RingHoldsKeys', ReadKey
    PROVE  Fifo!Next \/ UNCHANGED Fifo!fifoVars
<1> DEFINE n == Gap(head, tail)
<1>1. CASE head = tail
  BY <1>1 DEF ReadKey, Queued, Fifo!fifoVars
<1>2. CASE head # tail
  <2>1. /\ head' = NextSlot(head) /\ tail' = tail /\ ring' = ring /\ got' = ring[head]
        /\ head \in Slots /\ tail \in Slots
    BY <1>2 DEF ReadKey, RingHoldsKeys
  <2>2. /\ Queued = [j \in 1 .. n |-> ring[Place(head, j)]]
        /\ n \in 0 .. RingSize - 1
        /\ Queued \in Seq(Key) /\ Len(Queued) = n
    BY QueuedKeys DEF QueueOfKeys
  <2>3. /\ Gap(head', tail) = n - 1 /\ n >= 1 /\ Place(head, 1) = head
        /\ \A j \in 1 .. n - 1 : Place(head', j) = Place(head, j + 1)
    BY <1>2, <2>1, Places
  <2>4. /\ Queued' = [j \in 1 .. n - 1 |-> ring[Place(head', j)]]
        /\ Queued' \in Seq(Key) /\ Len(Queued') = n - 1
    <3>1. QueueOfKeys'
      BY QueuedKeys, PTL
    <3> QED
      BY <2>1, <2>3, <3>1 DEF QueueOfKeys
  <2> HIDE DEF n
  <2>5. n \in Nat /\ RingSize \in Nat /\ n <= RingSize - 1
    BY <2>2, RingArithmetic
  <2>6. \A j \in 1 .. n - 1 : Queued'[j] = Queued[j + 1]
    <3> TAKE j \in 1 .. n - 1
    <3>1. j + 1 \in 1 .. n
      BY <2>5
    <3> QED
      BY <2>2, <2>3, <2>4, <3>1
  <2>7. Queued' = SubSeq(Queued, 2, n)
    <3>1. \A i \in 2 .. n : Queued[i] \in Key
      BY <2>2, <2>5
    <3>2. /\ SubSeq(Queued, 2, n) \in Seq(Key)
          /\ Len(SubSeq(Queued, 2, n)) = IF 2 <= n THEN n - 2 + 1 ELSE 0
          /\ \A i \in 1 .. n - 2 + 1 : SubSeq(Queued, 2, n)[i] = Queued[2 + i - 1]
      BY <2>5, <3>1, SubSeqProperties
    <3>3. /\ Len(SubSeq(Queued, 2, n)) = n - 1
          /\ \A i \in 1 .. n - 1 : SubSeq(Queued, 2, n)[i] = Queued[i + 1]
      BY <2>3, <2>5, <3>2
    <3> QED
      BY <2>4, <2>6, <3>2, <3>3, SeqEqual
  <2>8. Queued[1] = ring[head] /\ Queued[1] \in Key
    BY <2>2, <2>3, <2>5
  <2>9. SubSeq(Queued, 1, 1) = <<ring[head]>>
    <3>1. \A i \in 1 .. 1 : Queued[i] \in Key
      BY <2>8
    <3>2. /\ SubSeq(Queued, 1, 1) \in Seq(Key)
          /\ Len(SubSeq(Queued, 1, 1)) = IF 1 <= 1 THEN 1 - 1 + 1 ELSE 0
          /\ \A i \in 1 .. 1 - 1 + 1 : SubSeq(Queued, 1, 1)[i] = Queued[1 + i - 1]
      BY <3>1, SubSeqProperties
    <3>3. Len(SubSeq(Queued, 1, 1)) = 1 /\ SubSeq(Queued, 1, 1)[1] = ring[head]
      BY <2>8, <3>2
    <3>4. <<ring[head]>> \in Seq(Key) /\ Len(<<ring[head]>>) = 1
      BY <2>8
    <3>5. \A i \in 1 .. Len(SubSeq(Queued, 1, 1)) : SubSeq(Queued, 1, 1)[i] = <<ring[head]>>[i]
      BY <3>3
    <3> QED
      BY <3>2, <3>3, <3>4, <3>5, SeqEqual
  <2>10. Delivered' = <<ring[head]>>
    <3>1. ring[head] # NoKey
      BY <2>8, KeyboardAssumption DEF Key, NoKey
    <3> QED
      BY <2>1, <3>1 DEF Delivered
  <2>11. 1 \in 0 .. RingSize - 1 /\ 1 <= Len(Queued)
    BY <2>2, <2>3, <2>5, RingArithmetic
  <2>12. Queued' = SubSeq(Queued, 1 + 1, Len(Queued))
    BY <2>2, <2>7
  <2>13. Fifo!Take(1)
    BY <2>9, <2>10, <2>11, <2>12 DEF Fifo!Take, Delivered
  <2> QED
    BY <2>11, <2>13 DEF Fifo!Next
<1> QED
  BY <1>1, <1>2

\* When the service ends, nothing is delivered.
LEMMA RewindRefines ==
    ASSUME RingHoldsKeys, Rewind, UNCHANGED ringVars
    PROVE  Fifo!Next
<1>1. Queued \in Seq(Key) /\ Len(Queued) \in Nat
  BY QueuedKeys, RingArithmetic DEF QueueOfKeys
<1>2. Queued' = Queued /\ got' = NoKey
  BY DEF Rewind, ringVars, Queued
<1>3. SubSeq(Queued, 1, 0) = << >>
  BY SubSeqEmpty
<1>4. SubSeq(Queued, 1, Len(Queued)) = Queued
  BY <1>1, SubSeqFull
<1>5. Delivered' = << >>
  BY <1>2 DEF Delivered
<1>6. 0 \in 0 .. RingSize - 1 /\ 0 <= Len(Queued)
  BY <1>1, RingArithmetic
<1>7. Queued' = SubSeq(Queued, 0 + 1, Len(Queued))
  BY <1>2, <1>4
<1>8. Fifo!Take(0)
  BY <1>3, <1>5, <1>6, <1>7 DEF Fifo!Take, Delivered
<1> QED
  BY <1>6, <1>8 DEF Fifo!Next

LEMMA StepRefines ==
    ThreadType /\ RingHoldsKeys /\ RingHoldsKeys' /\ [Next]_vars => [Fifo!Next]_(Fifo!fifoVars)
<1> SUFFICES ASSUME ThreadType, RingHoldsKeys, RingHoldsKeys', [Next]_vars
             PROVE  Fifo!Next \/ UNCHANGED Fifo!fifoVars
  OBVIOUS
<1>1. CASE PressKey
  BY <1>1, PressRefines
<1>2. CASE PublishKey
  BY <1>2, PublishRefines
<1>3. CASE ReadKey
  BY <1>3, ReadRefines
<1>4. CASE RingKept /\ Rewind
  BY <1>4, RewindRefines DEF RingKept
<1>5. CASE RingKept /\ got' = got
  BY <1>5 DEF RingKept, ringVars, Queued, Fifo!fifoVars
<1> QED
  BY <1>1, <1>2, <1>3, <1>4, <1>5, StepKinds

\* The BIOS key ring, whatever its size and however queue_key and INT 16h
\* interleave on its cursors and words, is the bounded queue BoundedFifo: a key
\* accepted is read once, in the order typed, and none is invented.
THEOREM KeyRingIsAFifo == Spec => KeysAreAFifo
<1>1. Init => ThreadType /\ RingHoldsKeys /\ Fifo!Init
  BY InitThreads, InitRing, InitRefines
<1>2. ThreadType /\ RingHoldsKeys /\ [Next]_vars => ThreadType' /\ RingHoldsKeys'
  BY NextThreads, NextRing
<1>3. ThreadType /\ RingHoldsKeys /\ RingHoldsKeys' /\ [Next]_vars
        => [Fifo!Next]_(Fifo!fifoVars)
  BY StepRefines
<1> QED
  BY <1>1, <1>2, <1>3, PTL DEF Spec, KeysAreAFifo, Fifo!Spec
=============================================================================
