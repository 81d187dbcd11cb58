---------------------------- MODULE Devices_proof ----------------------------
(***************************************************************************)
(* What holds of the devices for every value of their constants.           *)
(*                                                                         *)
(* The audio ring is a bounded FIFO across the wrap of its cursors; the    *)
(* chipset ends no sequence of bytes in the middle of another one,         *)
(* whatever was left unfinished; the Sound Blaster takes each byte for the *)
(* command or the parameter it is, and says that a block has ended only    *)
(* when it has played the programmed buffer; the serial line's two queues  *)
(* are one; a pixel is shown where it was drawn; a disk call moves the     *)
(* sectors it names and no others.  The number of source samples a host    *)
(* frame crosses, of frames a call renders, of bytes in the FIFO and in a  *)
(* pixel is any number, so the recursive functions over them need the      *)
(* induction of TextScreen_proof.                                          *)
(***************************************************************************)
EXTENDS AudioRing, Chipset, SoundBlaster, Serial, Framebuffer, BiosDisk, TextScreen_proof

-----------------------------------------------------------------------------
(***************************************************************************)
(* The chipset: a sequence of bytes, wherever the one before it was left.  *)
(***************************************************************************)
JobKinds == {"none", "icw1", "control", "latch", "write", "read", "D0", "D1"}
Job == [start : JobKinds, arg : Nat, bytes : Seq(Nat)]

\* The bytes of the sequence so far.
Sent == Len(job.bytes)

LEMMA PortNumbers == PortByte \in Nat /\ PortByte > 1 /\ Entries \in Nat /\ Entries > 1
                     /\ PortBytes = 0 .. PortByte - 1 /\ NoJob \in Job /\ NoJob.start = "none"
<1>1. NoJob \in Job
  <2>1. <<>> \in Seq(Nat)
    OBVIOUS
  <2> QED
    BY <2>1 DEF NoJob, Job, JobKinds
<1> QED
  BY <1>1, ChipsetAssumption DEF PortBytes, NoJob

\* The byte joins the sequence, or the sequence is over.
LEMMA Continued ==
    ASSUME job \in Job, NEW what \in JobKinds, NEW n \in Nat, NEW v \in Nat, Continuing(what, n, v)
    PROVE  /\ job' \in Job
           /\ Sent \in Nat
           /\ \/ job'.start = "none"
              \/ /\ job.start = what /\ job'.start = what /\ job'.arg = job.arg
                 /\ Sent < n /\ Sent' = Sent + 1
                 /\ job'.bytes[Sent'] = v
                 /\ \A i \in 1 .. Sent : job'.bytes[i] = job.bytes[i]
<1>1. CASE job.start = what /\ Sent < n
  <2>1. job' = [job EXCEPT !.bytes = Append(job.bytes, v)]
    BY <1>1 DEF Continuing, Sent
  <2>2. job.bytes \in Seq(Nat)
    BY DEF Job
  <2>3. Append(job.bytes, v) \in Seq(Nat)
    BY <2>2
  <2>5. job' \in Job /\ job'.start = job.start /\ job'.arg = job.arg
        /\ job'.bytes = Append(job.bytes, v)
    BY <2>1, <2>3 DEF Job
  <2>4. /\ Len(Append(job.bytes, v)) = Sent + 1
        /\ Append(job.bytes, v)[Sent + 1] = v
        /\ \A i \in 1 .. Sent : Append(job.bytes, v)[i] = job.bytes[i]
    BY <2>2, AppendProperties DEF Sent
  <2>6. Sent' = Sent + 1 /\ Sent < n /\ Sent \in Nat
    BY <1>1, <2>2, <2>4, <2>5 DEF Sent
  <2> QED
    BY <1>1, <2>4, <2>5, <2>6
<1>2. CASE ~ (job.start = what /\ Sent < n)
  BY <1>2, PortNumbers DEF Continuing, Job, Sent
<1> QED
  BY <1>1, <1>2

LEMMA Started ==
    ASSUME NEW what \in JobKinds, NEW arg \in Nat, Starting(what, arg)
    PROVE  job' \in Job /\ job'.start = what /\ job'.arg = arg /\ Sent' = 0
<1>1. <<>> \in Seq(Nat) /\ Len(<<>>) = 0
  OBVIOUS
<1> QED
  BY <1>1 DEF Starting, Job, Sent

-----------------------------------------------------------------------------
(* The interrupt controller. *)
PicState == [pic_init_step : 0 .. 3, icw4_needed : BOOLEAN, vector_base : Nat, imr : Nat]

PicSequence ==
    LET n == Sent
    IN  /\ job.arg \in 0 .. 1
        /\ n \in 0 .. 3 + job.arg
        /\ n = 0 => state.pic_init_step = 1 /\ (state.icw4_needed <=> job.arg = 1)
        /\ n = 1 => state.pic_init_step = 2 /\ (state.icw4_needed <=> job.arg = 1)
        /\ n = 2 /\ job.arg = 1 => state.pic_init_step = 3
        /\ n = 2 /\ job.arg = 0 => state.pic_init_step = 0
        /\ n >= 3 => state.pic_init_step = 0
        /\ n >= 1 => state.vector_base = job.bytes[1]
        /\ n = 3 + job.arg => state.imr = job.bytes[n]

PicInv ==
    /\ state \in PicState
    /\ job.start \in {"none", "icw1"}
    /\ job.start = "icw1" => PicSequence

LEMMA PicIcw1 ==
    ASSUME PicInv, NEW b \in BOOLEAN, WriteIcw1(b)
    PROVE  job' \in Job /\ PicInv'
<1> DEFINE arg == IF b THEN 1 ELSE 0
<1>1. Starting("icw1", arg) /\ state' = [state EXCEPT !.pic_init_step = 1, !.icw4_needed = b]
  BY DEF WriteIcw1
<1>2. job' \in Job /\ job'.start = "icw1" /\ job'.arg = arg /\ Sent' = 0
  BY <1>1, Started DEF JobKinds
<1>3. state' \in PicState /\ state'.pic_init_step = 1 /\ (state'.icw4_needed <=> arg = 1)
  <2> DEFINE step == [state EXCEPT !.pic_init_step = 1]
  <2>1. step \in PicState /\ step.pic_init_step = 1
    BY DEF PicInv, PicState
  <2>2. state' = [step EXCEPT !.icw4_needed = b]
    BY <1>1
  <2> HIDE DEF step
  <2>3. state' \in PicState /\ state'.pic_init_step = 1 /\ state'.icw4_needed = b
    BY <2>1, <2>2 DEF PicState
  <2> QED
    BY <2>3
<1>4. arg \in 0 .. 1
  OBVIOUS
<1> HIDE DEF arg
<1> QED
  BY <1>2, <1>3, <1>4 DEF PicInv, PicSequence

LEMMA PicData ==
    ASSUME job \in Job, PicInv, NEW v \in PortBytes, WritePicData(v)
    PROVE  job' \in Job /\ PicInv'
<1>1. v \in Nat
  BY PortNumbers
<1>2. Continuing("icw1", 3 + job.arg, v) /\ 3 + job.arg \in Nat
  BY DEF WritePicData, Job
<1>3. /\ job' \in Job /\ Sent \in Nat
      /\ \/ job'.start = "none"
         \/ /\ job.start = "icw1" /\ job'.start = "icw1" /\ job'.arg = job.arg
            /\ Sent < 3 + job.arg /\ Sent' = Sent + 1
            /\ job'.bytes[Sent'] = v
            /\ \A i \in 1 .. Sent : job'.bytes[i] = job.bytes[i]
  BY <1>1, <1>2, Continued DEF JobKinds
<1>4. /\ state' \in PicState
      /\ \/ /\ state.pic_init_step = 1 /\ state'.vector_base = v /\ state'.pic_init_step = 2
            /\ (state'.icw4_needed <=> state.icw4_needed)
         \/ /\ state.pic_init_step = 2 /\ state'.vector_base = state.vector_base
            /\ (state.icw4_needed => state'.pic_init_step = 3)
            /\ (~ state.icw4_needed => state'.pic_init_step = 0)
         \/ /\ state.pic_init_step = 3 /\ state'.vector_base = state.vector_base
            /\ state'.pic_init_step = 0
         \/ /\ state.pic_init_step = 0 /\ state'.vector_base = state.vector_base
            /\ state'.pic_init_step = 0 /\ state'.imr = v
  <2>1. CASE state.pic_init_step = 1
    <3>1. state' = [state EXCEPT !.vector_base = v, !.pic_init_step = 2]
      BY <2>1 DEF WritePicData
    <3> DEFINE step == [state EXCEPT !.vector_base = v]
    <3>2. step \in PicState /\ step.vector_base = v /\ step.icw4_needed = state.icw4_needed
      BY <1>1 DEF PicInv, PicState
    <3>4. state' = [step EXCEPT !.pic_init_step = 2]
      BY <3>1
    <3> HIDE DEF step
    <3>3. /\ state' \in PicState /\ state'.vector_base = v /\ state'.pic_init_step = 2
          /\ state'.icw4_needed = step.icw4_needed
      BY <3>2, <3>4 DEF PicState
    <3> QED
      BY <2>1, <3>2, <3>3 DEF PicState
  <2>2. CASE state.pic_init_step = 2
    BY <1>1, <2>2 DEF WritePicData, PicInv, PicState
  <2>3. CASE state.pic_init_step = 3
    BY <1>1, <2>3 DEF WritePicData, PicInv, PicState
  <2>4. CASE state.pic_init_step = 0
    BY <1>1, <2>4 DEF WritePicData, PicInv, PicState
  <2> QED
    BY <2>1, <2>2, <2>3, <2>4 DEF PicInv, PicState
<1>5. CASE job'.start = "none"
  BY <1>3, <1>4, <1>5 DEF PicInv
<1>6. CASE job'.start # "none"
  <2>1. PicSequence /\ job.arg \in 0 .. 1
    BY <1>3, <1>6 DEF PicInv, PicSequence
  <2>2. PICK n \in 0 .. 3 :
            /\ n = Sent /\ n < 3 + job.arg /\ Sent' = n + 1
            /\ job'.arg = job.arg /\ job'.bytes[n + 1] = v
            /\ \A i \in 1 .. n : job'.bytes[i] = job.bytes[i]
    BY <1>3, <1>6, <2>1
  <2>3. PicSequence'
    <3>1. CASE n = 0
      BY <1>4, <2>1, <2>2, <3>1 DEF PicSequence
    <3>2. CASE n = 1
      BY <1>4, <2>1, <2>2, <3>2 DEF PicSequence
    <3>3. CASE n = 2
      BY <1>4, <2>1, <2>2, <3>3 DEF PicSequence
    <3>4. CASE n = 3
      BY <1>4, <2>1, <2>2, <3>4 DEF PicSequence
    <3> QED
      BY <3>1, <3>2, <3>3, <3>4
  <2> QED
    BY <1>3, <1>4, <1>6, <2>3 DEF PicInv
<1> QED
  BY <1>3, <1>5, <1>6

-----------------------------------------------------------------------------
(* A channel of the timer. *)
Low(x) == x % PortByte
High(x) == x \div PortByte

LEMMA Halves ==
    ASSUME NEW x \in Nat
    PROVE  /\ Low(x) \in 0 .. PortByte - 1 /\ Low(x) \in Nat /\ High(x) \in Nat
           /\ Low(x) + PortByte * High(x) = x /\ PortByte * High(x) \in Nat /\ x - Low(x) \in Nat
<1>1. PortByte \in Nat /\ PortByte > 1
  BY PortNumbers
<1>2. x % PortByte \in 0 .. PortByte - 1 /\ x \div PortByte \in Nat
      /\ x = PortByte * (x \div PortByte) + (x % PortByte)
  BY <1>1
<1>3. PortByte * (x \div PortByte) \in Nat
  BY <1>1, <1>2
<1> QED
  BY <1>1, <1>2, <1>3 DEF Low, High

\* A low byte under a higher one.
LEMMA LowOfSum ==
    ASSUME NEW x \in Nat, NEW v \in PortBytes
    PROVE  Low((x - Low(x)) + v) = v /\ (x - Low(x)) + v \in Nat
<1> DEFINE q == High(x)
           P == PortByte
<1>a. P \in Nat /\ P > 1 /\ v \in 0 .. P - 1
  BY PortNumbers
<1>b. Low(x) \in 0 .. P - 1 /\ q \in Nat /\ Low(x) + P * q = x /\ P * q \in Nat
  BY Halves
<1>1. P \in Nat /\ P > 1 /\ v \in 0 .. P - 1 /\ q \in Nat /\ x - Low(x) = P * q
  <2> HIDE DEF q, P
  <2> QED
    BY <1>a, <1>b
<1>2. P * q \in Nat
  BY <1>1
<1> HIDE DEF q, P
<1>3. (P * q + v) % P = v
  BY <1>1, Remainder
<1> QED
  BY <1>1, <1>2, <1>3 DEF Low, P
PitFields == {"access", "write_phase", "read_phase", "counter", "reload", "elapsed",
              "latch_pending", "latch_value"}
PitShape ==
    /\ state = [f \in PitFields |-> state[f]]
    /\ state.access \in 1 .. 3 /\ state.write_phase \in 0 .. 1 /\ state.read_phase \in 0 .. 1
    /\ state.counter \in Nat /\ state.reload \in Nat /\ state.elapsed \in Nat
    /\ state.latch_value \in Nat

\* A count that is being loaded.
ControlSequence ==
    /\ job.arg = state.access
    /\ Sent \in 0 .. (IF job.arg = 3 THEN 2 ELSE 1)
    /\ Sent = 0 => state.write_phase = 0
    /\ job.arg = 3 /\ Sent = 1 =>
          state.write_phase = 1 /\ Low(state.counter) = job.bytes[1]
    /\ job.arg = 3 /\ Sent = 2 => state.reload = job.bytes[1] + PortByte * job.bytes[2]
    /\ job.arg = 1 /\ Sent = 1 => state.reload = job.bytes[1]
    /\ job.arg = 2 /\ Sent = 1 => state.reload = PortByte * job.bytes[1]

\* A latched count that is being read, the low half first where both are.
LatchSequence ==
    /\ Sent \in 0 .. (IF state.access = 3 THEN 2 ELSE 1)
    /\ Sent = 0 => state.latch_pending /\ state.latch_value = job.arg /\ state.read_phase = 0
    /\ state.access = 3 /\ Sent = 1 =>
          state.latch_pending /\ state.latch_value = job.arg /\ state.read_phase = 1
    /\ state.access \in {1, 3} /\ Sent >= 1 => job.bytes[1] = Low(job.arg)
    /\ state.access = 3 /\ Sent = 2 => job.bytes[2] = High(job.arg)
    /\ state.access = 2 /\ Sent = 1 => job.bytes[1] = High(job.arg)

PitInv ==
    /\ PitShape
    /\ job.start \in {"none", "control", "latch"}
    /\ job.start = "control" => ControlSequence
    /\ job.start = "latch" => LatchSequence

LEMMA PitCounts ==
    ASSUME PitShape
    PROVE  Reload \in Nat /\ Reload > 0 /\ pit_current_count \in Nat
<1>1. PortByte \in Nat /\ PortByte > 1 /\ PortByte * PortByte \in Nat /\ PortByte * PortByte > 0
  BY PortNumbers
<1>2. Reload \in Nat /\ Reload > 0 /\ state.elapsed \in Nat
  BY <1>1 DEF Reload, PitShape
<1> QED
  BY <1>1, <1>2 DEF pit_current_count

LEMMA PitTick == PitInv /\ Tick => PitInv'
<1> SUFFICES ASSUME PitInv, Tick PROVE PitInv'
  OBVIOUS
<1>1. job' = job /\ state' = [state EXCEPT !.elapsed = (@ + 1) % Reload]
  BY DEF Tick
<1>2. state.elapsed \in Nat /\ Reload \in Nat /\ Reload > 0
  BY PitCounts DEF PitInv, PitShape
<1>3. (state.elapsed + 1) % Reload \in Nat
  BY <1>2
<1>4. /\ state' = [f \in PitFields |-> state'[f]] /\ state'.elapsed \in Nat
      /\ \A f \in PitFields \ {"elapsed"} : state'[f] = state[f]
  BY <1>1, <1>3 DEF PitInv, PitShape, PitFields
<1> QED
  BY <1>1, <1>4 DEF PitInv, PitShape, PitFields, ControlSequence, LatchSequence, Sent

LEMMA PitLatch == PitInv /\ WriteLatch => job' \in Job /\ PitInv'
<1> SUFFICES ASSUME PitInv, WriteLatch PROVE job' \in Job /\ PitInv'
  OBVIOUS
<1>1. state' = Latches /\ Starting("latch", pit_current_count) /\ pit_current_count \in Nat
  BY PitCounts DEF WriteLatch, PitInv
<1>2. job' \in Job /\ job'.start = "latch" /\ job'.arg = pit_current_count /\ Sent' = 0
  BY <1>1, Started DEF JobKinds
<1>3. /\ state' = [f \in PitFields |-> state'[f]]
      /\ state'.latch_value = pit_current_count /\ state'.latch_pending /\ state'.read_phase = 0
      /\ \A f \in PitFields \ {"latch_value", "latch_pending", "read_phase"} : state'[f] = state[f]
  BY <1>1 DEF Latches, PitInv, PitShape, PitFields
<1> QED
  BY <1>1, <1>2, <1>3 DEF PitInv, PitShape, PitFields, LatchSequence

LEMMA PitControl ==
    ASSUME PitInv, NEW access \in 1 .. 3, WriteControl(access)
    PROVE  job' \in Job /\ PitInv'
<1>1. /\ state' = [state EXCEPT !.access = access, !.write_phase = 0, !.read_phase = 0]
      /\ Starting("control", access)
  BY DEF WriteControl
<1>2. job' \in Job /\ job'.start = "control" /\ job'.arg = access /\ Sent' = 0
  BY <1>1, Started DEF JobKinds
<1>3. /\ state' = [f \in PitFields |-> state'[f]]
      /\ state'.access = access /\ state'.write_phase = 0 /\ state'.read_phase = 0
      /\ \A f \in PitFields \ {"access", "write_phase", "read_phase"} : state'[f] = state[f]
  BY <1>1 DEF PitInv, PitShape, PitFields
<1> QED
  BY <1>2, <1>3 DEF PitInv, PitShape, PitFields, ControlSequence
\* What a written byte does to the counter.
Counted(v) ==
    \/ /\ state.access = 3 /\ state.write_phase = 0 /\ state'.write_phase = 1
       /\ Low(state'.counter) = v
    \/ /\ state.access = 3 /\ state.write_phase = 1
       /\ state'.reload = Low(state.counter) + PortByte * v
    \/ state.access = 1 /\ state'.reload = v
    \/ state.access = 2 /\ state'.reload = PortByte * v

LEMMA CountWritten ==
    ASSUME PitShape, NEW v \in PortBytes, WriteCount(v)
    PROVE  /\ PitShape' /\ Counted(v)
           /\ \A f \in {"access", "read_phase", "latch_value", "latch_pending"} :
                 state'[f] = state[f]
<1>1. v \in Nat /\ PortByte * v \in Nat /\ Low(state.counter) \in Nat
      /\ Low(state.counter) + PortByte * v \in Nat
  <2>1. v \in Nat /\ PortByte \in Nat /\ PortByte > 1 /\ state.counter \in Nat
    BY PortNumbers DEF PitShape
  <2>2. PortByte * v \in Nat
    BY <2>1
  <2>3. Low(state.counter) \in Nat
    BY <2>1, Halves
  <2> QED
    BY <2>1, <2>2, <2>3
<1>2. CASE state.access = 3 /\ state.write_phase = 0
  <2> DEFINE value == (state.counter - Low(state.counter)) + v
  <2>1. value \in Nat /\ Low(value) = v
    BY LowOfSum DEF PitShape
  <2>2. state' = [state EXCEPT !.counter = value, !.write_phase = 1]
    BY <1>2 DEF WriteCount, Low
  <2> HIDE DEF value
  <2>3. /\ state' = [f \in PitFields |-> state'[f]]
        /\ state'.counter = value /\ state'.write_phase = 1
        /\ \A f \in PitFields \ {"counter", "write_phase"} : state'[f] = state[f]
    BY <2>2 DEF PitShape, PitFields
  <2> QED
    BY <1>2, <2>1, <2>3 DEF PitShape, PitFields, Counted
<1>3. CASE state.access = 3 /\ state.write_phase = 1
  <2> DEFINE value == Low(state.counter) + PortByte * v
  <2>1. state' = [state EXCEPT !.counter = value, !.reload = value, !.elapsed = 0,
                               !.write_phase = 0]
    BY <1>3 DEF WriteCount, Loads, Low
  <2>2. value \in Nat
    BY <1>1
  <2>3. /\ state' = [f \in PitFields |-> state'[f]]
        /\ state'.counter = value /\ state'.reload = value /\ state'.elapsed = 0
        /\ state'.write_phase = 0
        /\ \A f \in PitFields \ {"counter", "reload", "elapsed", "write_phase"} :
              state'[f] = state[f]
    BY <2>1 DEF PitShape, PitFields
  <2>4. Counted(v)
    BY <1>3, <2>3 DEF Counted
  <2> HIDE DEF value
  <2> QED
    BY <1>3, <2>2, <2>3, <2>4 DEF PitShape, PitFields
<1>4. ASSUME NEW value \in Nat,
             state' = [Loads(value) EXCEPT !.write_phase = state.write_phase]
      PROVE  /\ PitShape' /\ state'.reload = value
             /\ \A f \in {"access", "read_phase", "latch_value", "latch_pending"} :
                   state'[f] = state[f]
  <2>1. /\ state' = [f \in PitFields |-> state'[f]]
        /\ state'.counter = value /\ state'.reload = value /\ state'.elapsed = 0
        /\ \A f \in PitFields \ {"counter", "reload", "elapsed"} : state'[f] = state[f]
    BY <1>4 DEF Loads, PitShape, PitFields
  <2> QED
    BY <2>1 DEF PitShape, PitFields
<1>5. CASE state.access = 1
  <2>1. state' = [Loads(v) EXCEPT !.write_phase = state.write_phase]
    BY <1>5 DEF WriteCount
  <2> QED
    BY <1>1, <1>4, <1>5, <2>1 DEF Counted
<1>6. CASE state.access = 2
  <2>1. state' = [Loads(PortByte * v) EXCEPT !.write_phase = state.write_phase]
    BY <1>6 DEF WriteCount
  <2> QED
    BY <1>1, <1>4, <1>6, <2>1 DEF Counted
<1> QED
  BY <1>2, <1>3, <1>5, <1>6 DEF PitShape

LEMMA PitWrite ==
    ASSUME job \in Job, PitInv, NEW v \in PortBytes, WriteCount(v)
    PROVE  job' \in Job /\ PitInv'
<1>1. /\ PitShape /\ PitShape' /\ Counted(v) /\ v \in Nat
      /\ \A f \in {"access", "read_phase", "latch_value", "latch_pending"} :
            state'[f] = state[f]
  BY CountWritten, PortNumbers DEF PitInv
<1>2. CASE job.start = "latch"
  <2>1. job' = job
    BY <1>2 DEF WriteCount
  <2>2. LatchSequence'
    BY <1>1, <1>2, <2>1 DEF PitInv, LatchSequence, Sent
  <2> QED
    BY <1>1, <1>2, <2>1, <2>2 DEF PitInv
<1>3. CASE job.start # "latch"
  <2> DEFINE n == IF state.access = 3 THEN 2 ELSE 1
  <2>1. Continuing("control", n, v) /\ n \in Nat
    BY <1>3 DEF WriteCount
  <2>2. /\ job' \in Job /\ Sent \in Nat
        /\ \/ job'.start = "none"
           \/ /\ job.start = "control" /\ job'.start = "control" /\ job'.arg = job.arg
              /\ Sent < n /\ Sent' = Sent + 1
              /\ job'.bytes[Sent'] = v
              /\ \A i \in 1 .. Sent : job'.bytes[i] = job.bytes[i]
    BY <1>1, <2>1, Continued DEF JobKinds
  <2>3. ASSUME job'.start # "none" PROVE job'.start = "control" /\ ControlSequence'
    <3>1. /\ job.start = "control" /\ job'.start = "control" /\ job'.arg = job.arg
          /\ Sent < n /\ Sent' = Sent + 1 /\ job'.bytes[Sent + 1] = v
          /\ \A i \in 1 .. Sent : job'.bytes[i] = job.bytes[i]
      BY <2>2, <2>3
    <3>2. ControlSequence /\ state'.access = state.access
      BY <1>1, <3>1 DEF PitInv
    <3>3. CASE state.access = 3 /\ Sent = 0
      BY <1>1, <3>1, <3>2, <3>3 DEF ControlSequence, Counted
    <3>4. CASE state.access = 3 /\ Sent = 1
      BY <1>1, <3>1, <3>2, <3>4 DEF ControlSequence, Counted
    <3>5. CASE state.access # 3 /\ Sent = 0
      BY <1>1, <3>1, <3>2, <3>5 DEF ControlSequence, Counted
    <3>6. Sent = 0 \/ (state.access = 3 /\ Sent = 1)
      BY <2>2, <3>1
    <3> QED
      BY <3>1, <3>3, <3>4, <3>5, <3>6
  <2> QED
    BY <1>1, <2>2, <2>3 DEF PitInv
<1> QED
  BY <1>2, <1>3

-----------------------------------------------------------------------------
LEMMA PitRead == ASSUME job \in Job, PitInv, ReadCount PROVE job' \in Job /\ PitInv'
<1> DEFINE val == IF state.latch_pending THEN state.latch_value ELSE pit_current_count
           n == IF state.access = 3 THEN 2 ELSE 1
<1>1. PitShape /\ val \in Nat /\ Low(val) \in Nat /\ High(val) \in Nat
  <2>1. val \in Nat
    BY PitCounts DEF PitInv, PitShape
  <2> HIDE DEF val
  <2> QED
    BY <2>1, Halves DEF PitInv
<1>2. PICK v \in {Low(val), High(val)} :
          /\ IF job.start = "control" THEN job' = job ELSE Continuing("latch", n, v)
          /\ PitShape'
          /\ \A f \in {"access", "latch_value", "reload", "counter", "write_phase"} :
                state'[f] = state[f]
          /\ \/ /\ state.access = 3 /\ state.read_phase = 0 /\ v = Low(val)
                /\ state'.read_phase = 1 /\ (state.latch_pending => state'.latch_pending)
             \/ state.access = 3 /\ state.read_phase = 1 /\ v = High(val)
             \/ state.access = 1 /\ v = Low(val)
             \/ state.access = 2 /\ v = High(val)
  <2>1. CASE state.access = 3 /\ state.read_phase = 0
    <3>1. /\ IF job.start = "control" THEN job' = job ELSE Continuing("latch", n, Low(val))
          /\ state' = [state EXCEPT !.read_phase = 1]
      BY <2>1 DEF ReadCount, Low
    <3> HIDE DEF val, n
    <3>2. /\ state' = [f \in PitFields |-> state'[f]] /\ state'.read_phase = 1
          /\ \A f \in PitFields \ {"read_phase"} : state'[f] = state[f]
      BY <1>1, <3>1 DEF PitShape, PitFields
    <3> QED
      BY <1>1, <2>1, <3>1, <3>2 DEF PitShape, PitFields
  <2>2. CASE state.access = 3 /\ state.read_phase = 1
    <3>1. /\ IF job.start = "control" THEN job' = job ELSE Continuing("latch", n, High(val))
          /\ state' = [state EXCEPT !.read_phase = 0, !.latch_pending = FALSE]
      BY <2>2 DEF ReadCount, High
    <3> HIDE DEF val, n
    <3>2. /\ state' = [f \in PitFields |-> state'[f]] /\ state'.read_phase = 0
          /\ \A f \in PitFields \ {"read_phase", "latch_pending"} : state'[f] = state[f]
      BY <1>1, <3>1 DEF PitShape, PitFields
    <3>3. PitShape'
      BY <1>1, <3>2 DEF PitShape, PitFields
    <3>4. \A f \in {"access", "latch_value", "reload", "counter", "write_phase"} :
              state'[f] = state[f]
      BY <3>2 DEF PitFields
    <3> QED
      BY <2>2, <3>1, <3>3, <3>4
  <2>3. CASE state.access \in {1, 2}
    <3>1. PICK v \in {Low(val), High(val)} :
              /\ IF job.start = "control" THEN job' = job ELSE Continuing("latch", n, v)
              /\ (state.access = 1 /\ v = Low(val)) \/ (state.access = 2 /\ v = High(val))
              /\ state' = [state EXCEPT !.latch_pending = FALSE]
      BY <2>3 DEF ReadCount, Low, High
    <3> HIDE DEF val, n
    <3>2. /\ state' = [f \in PitFields |-> state'[f]]
          /\ \A f \in PitFields \ {"latch_pending"} : state'[f] = state[f]
      BY <1>1, <3>1 DEF PitShape, PitFields
    <3> QED
      BY <1>1, <2>3, <3>1, <3>2 DEF PitShape, PitFields
  <2> QED
    BY <1>1, <2>1, <2>2, <2>3 DEF PitShape
<1>3. CASE job.start = "control"
  <2>1. job' = job
    BY <1>2, <1>3
  <2>2. ControlSequence'
    BY <1>2, <1>3, <2>1 DEF PitInv, ControlSequence, Sent
  <2> QED
    BY <1>2, <1>3, <2>1, <2>2 DEF PitInv
<1>4. CASE job.start # "control"
  <2>1. Continuing("latch", n, v) /\ n \in Nat /\ v \in Nat
    BY <1>1, <1>2, <1>4
  <2>2. /\ job' \in Job /\ Sent \in Nat
        /\ \/ job'.start = "none"
           \/ /\ job.start = "latch" /\ job'.start = "latch" /\ job'.arg = job.arg
              /\ Sent < n /\ Sent' = Sent + 1
              /\ job'.bytes[Sent'] = v
              /\ \A i \in 1 .. Sent : job'.bytes[i] = job.bytes[i]
    BY <2>1, Continued DEF JobKinds
  <2>3. ASSUME job'.start # "none" PROVE job'.start = "latch" /\ LatchSequence'
    <3>1. /\ job.start = "latch" /\ job'.start = "latch" /\ job'.arg = job.arg
          /\ Sent < n /\ Sent' = Sent + 1 /\ job'.bytes[Sent + 1] = v
          /\ \A i \in 1 .. Sent : job'.bytes[i] = job.bytes[i]
      BY <2>2, <2>3
    <3>2. LatchSequence /\ state'.access = state.access /\ state'.latch_value = state.latch_value
      BY <1>2, <3>1 DEF PitInv
    <3>3. Sent = 0 \/ (state.access = 3 /\ Sent = 1)
      BY <2>2, <3>1
    <3>4. state.latch_pending /\ val = job.arg
      BY <3>2, <3>3 DEF LatchSequence
    <3> HIDE DEF val
    <3>5. CASE state.access = 3 /\ Sent = 0
      BY <1>2, <3>1, <3>2, <3>4, <3>5 DEF LatchSequence
    <3>6. CASE state.access = 3 /\ Sent = 1
      BY <1>2, <3>1, <3>2, <3>4, <3>6 DEF LatchSequence
    <3>7. CASE state.access # 3 /\ Sent = 0
      BY <1>1, <1>2, <3>1, <3>2, <3>4, <3>7 DEF LatchSequence
    <3> QED
      BY <3>1, <3>3, <3>5, <3>6, <3>7
  <2> QED
    BY <1>2, <2>2, <2>3 DEF PitInv
<1> QED
  BY <1>3, <1>4
-----------------------------------------------------------------------------
(* The palette. *)
DacFields == {"vga_dac", "read_index", "write_index", "component"}
Palette == [0 .. Entries - 1 -> [1 .. 3 -> Nat]]
DacShape ==
    /\ state = [f \in DacFields |-> state[f]]
    /\ state.vga_dac \in Palette
    /\ state.read_index \in 0 .. Entries - 1 /\ state.write_index \in 0 .. Entries - 1
    /\ state.component \in 0 .. 2

After(i) == (i + 1) % Entries

\* The components of two entries that are written or read in turn, the next of
\* them at index.
DacSequence(index) ==
    /\ job.arg \in 0 .. Entries - 1 /\ Sent \in 0 .. 6
    /\ Sent < 3 => index = job.arg /\ state.component = Sent
    /\ Sent \in 3 .. 5 => index = After(job.arg) /\ state.component = Sent - 3
    /\ \A i \in 1 .. Sent : i <= 3 => state.vga_dac[job.arg][i] = job.bytes[i]
    /\ \A i \in 1 .. Sent : i > 3 => state.vga_dac[After(job.arg)][i - 3] = job.bytes[i]

DacInv ==
    /\ DacShape
    /\ job.start \in {"none", "write", "read"}
    /\ job.start = "write" => DacSequence(state.write_index)
    /\ job.start = "read" => DacSequence(state.read_index)

\* Two entries in turn are two.
LEMMA AfterIsAnother ==
    ASSUME NEW i \in 0 .. Entries - 1
    PROVE  After(i) \in 0 .. Entries - 1 /\ After(i) # i
<1>1. Entries \in Nat /\ Entries > 1
  BY PortNumbers
<1>2. CASE i = Entries - 1
  BY <1>1, <1>2 DEF After
<1>3. CASE i # Entries - 1
  BY <1>1, <1>3 DEF After
<1> QED
  BY <1>2, <1>3

LEMMA DacIndex ==
    ASSUME DacInv, NEW i \in 0 .. Entries - 1, WriteDacIndex(i) \/ WriteReadIndex(i)
    PROVE  job' \in Job /\ DacInv'
<1>1. i \in Nat
  BY PortNumbers
<1>2. CASE WriteDacIndex(i)
  <2>1. Starting("write", i) /\ state' = [state EXCEPT !.write_index = i, !.component = 0]
    BY <1>2 DEF WriteDacIndex
  <2>2. job' \in Job /\ job'.start = "write" /\ job'.arg = i /\ Sent' = 0
    BY <1>1, <2>1, Started DEF JobKinds
  <2>3. /\ state' = [f \in DacFields |-> state'[f]]
        /\ state'.write_index = i /\ state'.component = 0
        /\ \A f \in DacFields \ {"write_index", "component"} : state'[f] = state[f]
    BY <2>1 DEF DacInv, DacShape, DacFields
  <2>4. DacShape'
    BY <2>3 DEF DacInv, DacShape, DacFields
  <2>5. DacSequence(state.write_index)'
    BY <2>2, <2>3 DEF DacSequence
  <2> QED
    BY <2>2, <2>4, <2>5 DEF DacInv
<1>3. CASE WriteReadIndex(i)
  <2>1. Starting("read", i) /\ state' = [state EXCEPT !.read_index = i, !.component = 0]
    BY <1>3 DEF WriteReadIndex
  <2>2. job' \in Job /\ job'.start = "read" /\ job'.arg = i /\ Sent' = 0
    BY <1>1, <2>1, Started DEF JobKinds
  <2>3. /\ state' = [f \in DacFields |-> state'[f]]
        /\ state'.read_index = i /\ state'.component = 0
        /\ \A f \in DacFields \ {"read_index", "component"} : state'[f] = state[f]
    BY <2>1 DEF DacInv, DacShape, DacFields
  <2>4. DacShape'
    BY <2>3 DEF DacInv, DacShape, DacFields
  <2>5. DacSequence(state.read_index)'
    BY <2>2, <2>3 DEF DacSequence
  <2> QED
    BY <2>2, <2>4, <2>5 DEF DacInv
<1> QED
  BY <1>2, <1>3

\* One more component v of the entry at index, when the palette has it.
LEMMA OneMore ==
    ASSUME NEW index \in 0 .. Entries - 1, DacShape, DacSequence(index), NEW next, NEW v,
           next = AfterEntry(index), Sent < 6, Sent' = Sent + 1, job'.arg = job.arg, job'.bytes[Sent'] = v,
           \A i \in 1 .. Sent : job'.bytes[i] = job.bytes[i],
           state'.vga_dac[index][state.component + 1] = v,
           \A e \in 0 .. Entries - 1, k \in 1 .. 3 :
              (e # index \/ k # state.component + 1) =>
                 state'.vga_dac[e][k] = state.vga_dac[e][k],
           state'.component = (state.component + 1) % 3
    PROVE  DacSequence(next)'
<1>1. PICK s \in 0 .. 5 : s = Sent /\ Sent' = s + 1
  BY DEF DacSequence
<1>2. PICK a \in 0 .. Entries - 1 : a = job.arg /\ job'.arg = a
  BY DEF DacSequence
<1>3. After(a) \in 0 .. Entries - 1 /\ After(a) # a
  BY AfterIsAnother
<1>4. /\ s < 3 => index = a /\ state.component = s
      /\ s \in 3 .. 5 => index = After(a) /\ state.component = s - 3
      /\ \A i \in 1 .. s : i <= 3 => state.vga_dac[a][i] = job.bytes[i]
      /\ \A i \in 1 .. s : i > 3 => state.vga_dac[After(a)][i - 3] = job.bytes[i]
  BY <1>1, <1>2 DEF DacSequence
<1>5. /\ job'.bytes[s + 1] = v
      /\ \A i \in 1 .. s : job'.bytes[i] = job.bytes[i]
  BY <1>1
<1>6. /\ s + 1 < 3 => next = a /\ state'.component = s + 1
      /\ s + 1 \in 3 .. 5 => next = After(a) /\ state'.component = (s + 1) - 3
  <2>1. s \in {0, 1, 2, 3, 4, 5}
    OBVIOUS
  <2> QED
    BY <1>4, <2>1 DEF AfterEntry, After
<1>7. ASSUME NEW i \in 1 .. s + 1, i <= 3 PROVE state'.vga_dac[a][i] = job'.bytes[i]
  <2>1. CASE i = s + 1
    BY <1>4, <1>5, <1>7, <2>1
  <2>2. CASE i \in 1 .. s
    <3>1. a # index \/ i # state.component + 1
      BY <1>3, <1>4, <2>2
    <3> QED
      BY <1>4, <1>5, <1>7, <2>2, <3>1
  <2> QED
    BY <2>1, <2>2
<1>8. ASSUME NEW i \in 1 .. s + 1, i > 3 PROVE state'.vga_dac[After(a)][i - 3] = job'.bytes[i]
  <2>1. CASE i = s + 1
    BY <1>4, <1>5, <1>8, <2>1
  <2>2. CASE i \in 1 .. s
    <3>1. i - 3 \in 1 .. 3 /\ i - 3 # state.component + 1
      BY <1>4, <1>8, <2>2
    <3> QED
      BY <1>3, <1>4, <1>5, <1>8, <2>2, <3>1
  <2> QED
    BY <2>1, <2>2
<1> QED
  BY <1>1, <1>2, <1>6, <1>7, <1>8 DEF DacSequence, After

LEMMA DacWrite ==
    ASSUME job \in Job, DacInv, NEW v \in PortBytes, WriteDac(v)
    PROVE  job' \in Job /\ DacInv'
<1>0. PICK w \in 0 .. Entries - 1, k \in 1 .. 3 : w = state.write_index /\ k = state.component + 1
  BY DEF DacInv, DacShape
<1>1. v \in Nat /\ state.vga_dac \in Palette
  BY PortNumbers DEF DacInv, DacShape
<1>2. state' = [state EXCEPT !.vga_dac[w][k] = v, !.component = NextComponent,
                             !.write_index = AfterEntry(w)]
  BY <1>0 DEF WriteDac
<1>3. PICK next \in 0 .. Entries - 1 : next = AfterEntry(w)
  BY <1>0, AfterIsAnother DEF AfterEntry, After
<1>b. NextComponent \in 0 .. 2
  BY DEF NextComponent, DacInv, DacShape
<1>4. /\ state' = [f \in DacFields |-> state'[f]]
      /\ state'.vga_dac = [state.vga_dac EXCEPT ![w][k] = v]
      /\ state'.component = NextComponent /\ state'.write_index = next
      /\ state'.read_index = state.read_index
  BY <1>2, <1>3 DEF DacInv, DacShape, DacFields
<1>c. [state.vga_dac[w] EXCEPT ![k] = v] \in [1 .. 3 -> Nat]
  BY <1>1 DEF Palette
<1>5. /\ state'.vga_dac \in Palette /\ state'.vga_dac[w][k] = v
      /\ \A e \in 0 .. Entries - 1, l \in 1 .. 3 :
            (e # w \/ l # k) => state'.vga_dac[e][l] = state.vga_dac[e][l]
  <2>1. state'.vga_dac = [state.vga_dac EXCEPT ![w] = [state.vga_dac[w] EXCEPT ![k] = v]]
    BY <1>1, <1>4 DEF Palette
  <2>2. state'.vga_dac \in Palette /\ state'.vga_dac[w] = [state.vga_dac[w] EXCEPT ![k] = v]
        /\ \A e \in 0 .. Entries - 1 : e # w => state'.vga_dac[e] = state.vga_dac[e]
    BY <1>1, <1>c, <2>1 DEF Palette
  <2>3. state.vga_dac[w] \in [1 .. 3 -> Nat]
    BY <1>1 DEF Palette
  <2> QED
    BY <2>2, <2>3
<1>6. DacShape'
  BY <1>3, <1>b, <1>4, <1>5 DEF DacInv, DacShape
<1>7. /\ job' \in Job /\ Sent \in Nat
      /\ \/ job'.start = "none"
         \/ /\ job.start = "write" /\ job'.start = "write" /\ job'.arg = job.arg
            /\ Sent < 6 /\ Sent' = Sent + 1
            /\ job'.bytes[Sent'] = v
            /\ \A i \in 1 .. Sent : job'.bytes[i] = job.bytes[i]
  <2>1. Continuing("write", 6, v)
    BY DEF WriteDac
  <2> QED
    BY <1>1, <2>1, Continued DEF JobKinds
<1>8. ASSUME job'.start # "none" PROVE job'.start = "write" /\ DacSequence(state.write_index)'
  <2>1. DacSequence(w) /\ DacShape
    BY <1>0, <1>7, <1>8 DEF DacInv
  <2>2. state'.component = (state.component + 1) % 3
    BY <1>4 DEF NextComponent
  <2>3. DacSequence(next)'
    BY <1>0, <1>3, <1>5, <1>7, <1>8, <2>1, <2>2, OneMore
  <2> QED
    BY <1>4, <1>7, <1>8, <2>3 DEF DacSequence
<1> QED
  BY <1>6, <1>7, <1>8 DEF DacInv

LEMMA DacRead ==
    ASSUME job \in Job, DacInv, ReadDac
    PROVE  job' \in Job /\ DacInv'
<1>a. PICK r \in 0 .. Entries - 1, k \in 1 .. 3 : r = state.read_index /\ k = state.component + 1
  BY DEF DacInv, DacShape
<1>c. state.vga_dac[r][k] \in Nat
  <2>1. state.vga_dac[r] \in [1 .. 3 -> Nat]
    BY DEF DacInv, DacShape, Palette
  <2> QED
    BY <2>1
<1>0. PICK v \in Nat : r = state.read_index /\ k = state.component + 1 /\ v = state.vga_dac[r][k]
  BY <1>a, <1>c
<1>2. state' = [state EXCEPT !.component = NextComponent, !.read_index = AfterEntry(r)]
  BY <1>0 DEF ReadDac
<1>3. PICK next \in 0 .. Entries - 1 : next = AfterEntry(r)
  BY <1>0, AfterIsAnother DEF AfterEntry, After
<1>b. NextComponent \in 0 .. 2
  BY DEF NextComponent, DacInv, DacShape
<1>4. /\ state' = [f \in DacFields |-> state'[f]]
      /\ state'.vga_dac = state.vga_dac
      /\ state'.component = NextComponent /\ state'.read_index = next
      /\ state'.write_index = state.write_index
  BY <1>2, <1>3 DEF DacInv, DacShape, DacFields
<1>6. DacShape'
  BY <1>3, <1>b, <1>4 DEF DacInv, DacShape
<1>7. /\ job' \in Job /\ Sent \in Nat
      /\ \/ job'.start = "none"
         \/ /\ job.start = "read" /\ job'.start = "read" /\ job'.arg = job.arg
            /\ Sent < 6 /\ Sent' = Sent + 1
            /\ job'.bytes[Sent'] = v
            /\ \A i \in 1 .. Sent : job'.bytes[i] = job.bytes[i]
  <2>1. Continuing("read", 6, v)
    BY <1>0 DEF ReadDac
  <2> QED
    BY <2>1, Continued DEF JobKinds
<1>8. ASSUME job'.start # "none" PROVE job'.start = "read" /\ DacSequence(state.read_index)'
  <2>1. DacSequence(r) /\ DacShape
    BY <1>0, <1>7, <1>8 DEF DacInv
  <2>2. state'.component = (state.component + 1) % 3
    BY <1>4 DEF NextComponent
  <2>4. state'.vga_dac[r][state.component + 1] = v
    BY <1>0, <1>4
  <2>5. \A e \in 0 .. Entries - 1, l \in 1 .. 3 :
           (e # r \/ l # state.component + 1) => state'.vga_dac[e][l] = state.vga_dac[e][l]
    BY <1>4
  <2>3. DacSequence(next)'
    BY <1>0, <1>3, <1>7, <1>8, <2>1, <2>2, <2>4, <2>5, OneMore
  <2> QED
    BY <1>4, <1>7, <1>8, <2>3 DEF DacSequence
<1> QED
  BY <1>6, <1>7, <1>8 DEF DacInv

-----------------------------------------------------------------------------
(* The keyboard controller. *)
KbcShape == state = [kbd_cmd_pending |-> state.kbd_cmd_pending, a20 |-> state.a20]
            /\ state.kbd_cmd_pending \in {"none", "D0", "D1"} /\ state.a20 \in BOOLEAN
KbcInv ==
    /\ KbcShape
    /\ job.start \in {"none", "D0", "D1"}
    /\ job.start # "none" => Sent \in 0 .. 1
    /\ job.start # "none" /\ Sent = 0 => state.kbd_cmd_pending = job.start
    /\ job.start # "none" /\ Sent = 1 => (state.a20 <=> job.bytes[1] = 1)

LEMMA KbcCommand ==
    ASSUME KbcInv, NEW cmd \in {"D0", "D1", "DD", "DF"}, WriteCommand(cmd)
    PROVE  job' \in Job /\ KbcInv'
<1>1. CASE cmd \in {"D0", "D1"}
  <2>1. state' = [state EXCEPT !.kbd_cmd_pending = cmd] /\ Starting(cmd, 0)
    BY <1>1 DEF WriteCommand
  <2>2. job' \in Job /\ job'.start = cmd /\ Sent' = 0
    BY <1>1, <2>1, Started DEF JobKinds
  <2> QED
    BY <1>1, <2>1, <2>2 DEF KbcInv, KbcShape
<1>2. CASE cmd \in {"DD", "DF"}
  <2>1. job' = NoJob
    BY <1>2 DEF WriteCommand
  <2>2. job' \in Job /\ job'.start = "none"
    BY <2>1, PortNumbers
  <2>3. KbcShape'
    <3>1. CASE cmd = "DD"
      <4>1. state' = [state EXCEPT !.a20 = FALSE]
        BY <3>1 DEF WriteCommand
      <4> QED
        BY <4>1 DEF KbcInv, KbcShape
    <3>2. CASE cmd = "DF"
      <4>1. state' = [state EXCEPT !.a20 = TRUE]
        BY <3>2 DEF WriteCommand
      <4> QED
        BY <4>1 DEF KbcInv, KbcShape
    <3> QED
      BY <1>2, <3>1, <3>2
  <2> QED
    BY <2>2, <2>3 DEF KbcInv
<1> QED
  BY <1>1, <1>2

LEMMA KbcWrite ==
    ASSUME job \in Job, KbcInv, NEW v \in PortBytes, WriteDataPort(v)
    PROVE  job' \in Job /\ KbcInv'
<1>1. Continuing("D1", 1, v) /\ v \in Nat
  BY PortNumbers DEF WriteDataPort
<1>2. /\ job' \in Job /\ Sent \in Nat
      /\ \/ job'.start = "none"
         \/ /\ job.start = "D1" /\ job'.start = "D1"
            /\ Sent < 1 /\ Sent' = Sent + 1 /\ job'.bytes[Sent'] = v
  BY <1>1, Continued DEF JobKinds
<1>3. CASE state.kbd_cmd_pending = "D1"
  <2>1. state' = [kbd_cmd_pending |-> "none", a20 |-> v = 1]
    BY <1>3 DEF WriteDataPort
  <2>2. KbcShape' /\ (state'.a20 <=> v = 1)
    BY <2>1 DEF KbcShape
  <2> QED
    BY <1>2, <2>2 DEF KbcInv
<1>4. CASE state.kbd_cmd_pending # "D1"
  <2>1. state' = state
    BY <1>4 DEF WriteDataPort
  <2>2. job'.start = "none"
    BY <1>2, <1>4 DEF KbcInv
  <2> QED
    BY <1>2, <2>1, <2>2 DEF KbcInv, KbcShape
<1> QED
  BY <1>3, <1>4

LEMMA KbcRead ==
    ASSUME job \in Job, KbcInv, ReadDataPort
    PROVE  job' \in Job /\ KbcInv'
<1>1. CASE state.kbd_cmd_pending # "D0"
  <2>1. state' = state /\ job' = job
    BY <1>1 DEF ReadDataPort
  <2> QED
    BY <2>1 DEF KbcInv, KbcShape, Sent
<1>2. CASE state.kbd_cmd_pending = "D0"
  <2> DEFINE v == IF state.a20 THEN 1 ELSE 0
  <2>1. Continuing("D0", 1, v) /\ v \in Nat /\ (state.a20 <=> v = 1)
    BY <1>2 DEF ReadDataPort
  <2>2. state' = [state EXCEPT !.kbd_cmd_pending = "none"]
    BY <1>2 DEF ReadDataPort
  <2> HIDE DEF v
  <2>3. /\ job' \in Job /\ Sent \in Nat
        /\ \/ job'.start = "none"
           \/ /\ job.start = "D0" /\ job'.start = "D0"
              /\ Sent < 1 /\ Sent' = Sent + 1 /\ job'.bytes[Sent'] = v
    BY <2>1, Continued DEF JobKinds
  <2>4. KbcShape' /\ (state'.a20 <=> state.a20)
    BY <2>2 DEF KbcInv, KbcShape
  <2> QED
    BY <2>1, <2>3, <2>4 DEF KbcInv
<1> QED
  BY <1>1, <1>2

LEMMA KbcFastA20 ==
    ASSUME KbcInv, NEW v \in PortBytes, WriteFastA20(v)
    PROVE  job' \in Job /\ KbcInv'
<1>1. job' = NoJob /\ state' = [state EXCEPT !.a20 = v = 1]
  BY DEF WriteFastA20
<1>2. job' \in Job /\ job'.start = "none"
  BY <1>1, PortNumbers
<1>3. KbcShape'
  BY <1>1 DEF KbcInv, KbcShape
<1> QED
  BY <1>2, <1>3 DEF KbcInv

-----------------------------------------------------------------------------
(* All four. *)
ChipInv ==
    /\ job \in Job
    /\ chip \in {"pic", "pit", "dac", "kbc"}
    /\ chip = "pic" => PicInv
    /\ chip = "pit" => PitInv
    /\ chip = "dac" => DacInv
    /\ chip = "kbc" => KbcInv

LEMMA ChipInit == ChipsetInit => ChipInv
<1> SUFFICES ASSUME ChipsetInit PROVE ChipInv
  OBVIOUS
<1>1. job \in Job /\ job.start = "none"
  BY PortNumbers DEF ChipsetInit
<1>2. PicInit \in PicState
  BY DEF PicInit, PicState
<1>3. state = PitInit => PitShape
  BY DEF PitInit, PitShape, PitFields
<1>4. state = DacInit => DacShape
  <2> SUFFICES ASSUME state = DacInit PROVE DacShape
    OBVIOUS
  <2> DEFINE black == [i \in 0 .. Entries - 1 |-> <<0, 0, 0>>]
  <2>1. black \in Palette
    BY DEF Palette
  <2>2. 0 \in 0 .. Entries - 1
    BY PortNumbers
  <2>3. state = [vga_dac |-> black, read_index |-> 0, write_index |-> 0, component |-> 0]
    BY DEF DacInit
  <2> HIDE DEF black
  <2>4. state = [f \in DacFields |-> state[f]]
    BY <2>3 DEF DacFields
  <2>5. /\ state.vga_dac = black /\ state.read_index = 0 /\ state.write_index = 0
        /\ state.component = 0
    BY <2>3
  <2> QED
    BY <2>1, <2>2, <2>4, <2>5 DEF DacShape
<1>5. state = KbcInit => KbcShape
  BY DEF KbcInit, KbcShape
<1> QED
  BY <1>1, <1>2, <1>3, <1>4, <1>5 DEF ChipsetInit, ChipInv, PicInv, PitInv, DacInv, KbcInv

LEMMA ChipStep == ChipInv /\ ChipsetNext => ChipInv'
<1> SUFFICES ASSUME ChipInv, ChipsetNext PROVE ChipInv'
  OBVIOUS
<1>1. ASSUME NEW b \in BOOLEAN, WriteIcw1(b) PROVE ChipInv'
  BY <1>1, PicIcw1 DEF ChipInv, WriteIcw1, Is
<1>2. ASSUME WriteOcw2 PROVE ChipInv'
  BY <1>2 DEF ChipInv, WriteOcw2, Is, PicInv, PicSequence, Sent
<1>3. ASSUME Tick PROVE ChipInv'
  BY <1>3, PitTick DEF ChipInv, Tick, Is
<1>4. ASSUME WriteLatch PROVE ChipInv'
  BY <1>4, PitLatch DEF ChipInv, WriteLatch, Is
<1>5. ASSUME ReadCount PROVE ChipInv'
  BY <1>5, PitRead DEF ChipInv, ReadCount, Is
<1>6. ASSUME ReadDac PROVE ChipInv'
  BY <1>6, DacRead DEF ChipInv, ReadDac, Is
<1>7. ASSUME ReadDataPort PROVE ChipInv'
  BY <1>7, KbcRead DEF ChipInv, ReadDataPort, Is
<1>8. ASSUME NEW v \in PortBytes, WritePicData(v) PROVE ChipInv'
  BY <1>8, PicData DEF ChipInv, WritePicData, Is
<1>9. ASSUME NEW v \in PortBytes, WriteCount(v) PROVE ChipInv'
  BY <1>9, PitWrite DEF ChipInv, WriteCount, Is
<1>10. ASSUME NEW v \in PortBytes, WriteDac(v) PROVE ChipInv'
  BY <1>10, DacWrite DEF ChipInv, WriteDac, Is
<1>11. ASSUME NEW v \in PortBytes, WriteDataPort(v) PROVE ChipInv'
  BY <1>11, KbcWrite DEF ChipInv, WriteDataPort, Is
<1>12. ASSUME NEW v \in PortBytes, WriteFastA20(v) PROVE ChipInv'
  BY <1>12, KbcFastA20 DEF ChipInv, WriteFastA20, Is
<1>13. ASSUME NEW access \in 1 .. 3, WriteControl(access) PROVE ChipInv'
  BY <1>13, PitControl DEF ChipInv, WriteControl, Is
<1>14. ASSUME NEW i \in 0 .. Entries - 1, WriteDacIndex(i) \/ WriteReadIndex(i) PROVE ChipInv'
  BY <1>14, DacIndex DEF ChipInv, WriteDacIndex, WriteReadIndex, Is
<1>15. ASSUME NEW cmd \in {"D0", "D1", "DD", "DF"}, WriteCommand(cmd) PROVE ChipInv'
  BY <1>15, KbcCommand DEF ChipInv, WriteCommand, Is
<1> QED
  BY <1>1, <1>2, <1>3, <1>4, <1>5, <1>6, <1>7, <1>8, <1>9, <1>10, <1>11, <1>12, <1>13, <1>14,
     <1>15 DEF ChipsetNext

LEMMA ChipSafe == ChipInv => WholeSequencesWork
<1> SUFFICES ASSUME ChipInv PROVE WholeSequencesWork
  OBVIOUS
<1> DEFINE b == job.bytes
           n == Len(b)
<1>1. chip = "pic" \/ chip = "pit" \/ chip = "dac" \/ chip = "kbc"
  BY DEF ChipInv
<1>2. job.start = "icw1" /\ n = 3 + job.arg => state.vector_base = b[1] /\ state.imr = b[n]
  BY <1>1 DEF ChipInv, PicInv, PitInv, DacInv, KbcInv, PicSequence, Sent
<1>3. ASSUME job.start = "control", n = (IF job.arg = 3 THEN 2 ELSE 1)
      PROVE  state.reload = CASE job.arg = 3 -> b[1] + PortByte * b[2]
                              [] job.arg = 1 -> b[1]
                              [] job.arg = 2 -> PortByte * b[1]
  <2>1. PitShape /\ ControlSequence
    BY <1>1, <1>3 DEF ChipInv, PicInv, PitInv, DacInv, KbcInv
  <2>2. job.arg \in {1, 2, 3}
    BY <2>1 DEF PitShape, ControlSequence
  <2>3. Sent = (IF job.arg = 3 THEN 2 ELSE 1)
    BY <1>3 DEF Sent
  <2>4. /\ job.arg = 3 => state.reload = b[1] + PortByte * b[2]
        /\ job.arg = 1 => state.reload = b[1]
        /\ job.arg = 2 => state.reload = PortByte * b[1]
    BY <2>1, <2>3 DEF ControlSequence
  <2> HIDE DEF b
  <2> QED
    BY <2>2, <2>4
<1>4. ASSUME job.start = "latch", n = (IF state.access = 3 THEN 2 ELSE 1)
      PROVE  CASE state.access = 3 -> b[1] + PortByte * b[2] = job.arg
               [] state.access = 1 -> b[1] = job.arg % PortByte
               [] state.access = 2 -> b[1] = job.arg \div PortByte
  <2>1. PitShape /\ LatchSequence /\ job.arg \in Nat
    BY <1>1, <1>4 DEF ChipInv, PicInv, PitInv, DacInv, KbcInv, Job
  <2>2. state.access \in {1, 2, 3}
    BY <2>1 DEF PitShape
  <2>3. Sent = (IF state.access = 3 THEN 2 ELSE 1)
    BY <1>4 DEF Sent
  <2>4. /\ state.access = 3 => b[1] = Low(job.arg) /\ b[2] = High(job.arg)
        /\ state.access = 1 => b[1] = Low(job.arg)
        /\ state.access = 2 => b[1] = High(job.arg)
    BY <2>1, <2>3 DEF LatchSequence
  <2>5. Low(job.arg) + PortByte * High(job.arg) = job.arg
    BY <2>1, Halves
  <2> HIDE DEF b
  <2> QED
    BY <2>2, <2>4, <2>5 DEF Low, High
<1>5. ASSUME job.start \in {"write", "read"}, n >= 3
      PROVE  /\ <<b[1], b[2], b[3]>> = state.vga_dac[job.arg % Entries]
             /\ n = 6 => <<b[4], b[5], b[6]>> = state.vga_dac[(job.arg + 1) % Entries]
  <2>1. DacShape /\ (DacSequence(state.write_index) \/ DacSequence(state.read_index))
    BY <1>1, <1>5 DEF ChipInv, PicInv, PitInv, DacInv, KbcInv
  <2>2. PICK a \in 0 .. Entries - 1 : a = job.arg
    BY <2>1 DEF DacSequence
  <2>3. PICK s \in 3 .. 6 : s = Sent /\ s = n
    BY <1>5, <2>1 DEF DacSequence, Sent
  <2>4. /\ \A i \in 1 .. s : i <= 3 => state.vga_dac[a][i] = b[i]
        /\ \A i \in 1 .. s : i > 3 => state.vga_dac[After(a)][i - 3] = b[i]
    BY <2>1, <2>2, <2>3 DEF DacSequence
  <2>5. Entries \in Nat /\ Entries > 1 /\ a % Entries = a /\ After(a) \in 0 .. Entries - 1
        /\ After(a) = (job.arg + 1) % Entries
    <3>1. Entries \in Nat /\ Entries > 1
      BY PortNumbers
    <3>2. After(a) \in 0 .. Entries - 1
      BY AfterIsAnother
    <3>3. After(a) = (job.arg + 1) % Entries
      BY <2>2 DEF After
    <3> QED
      BY <3>1, <3>2, <3>3
  <2>6. state.vga_dac[a] \in [1 .. 3 -> Nat] /\ state.vga_dac[After(a)] \in [1 .. 3 -> Nat]
    BY <2>1, <2>5 DEF DacShape, Palette
  <2> HIDE DEF b, n
  <2>7. <<b[1], b[2], b[3]>> = state.vga_dac[a]
    <3>1. b[1] = state.vga_dac[a][1] /\ b[2] = state.vga_dac[a][2] /\ b[3] = state.vga_dac[a][3]
      BY <2>3, <2>4
    <3> QED
      BY <2>6, <3>1
  <2>8. n = 6 => <<b[4], b[5], b[6]>> = state.vga_dac[After(a)]
    <3> SUFFICES ASSUME n = 6 PROVE <<b[4], b[5], b[6]>> = state.vga_dac[After(a)]
      OBVIOUS
    <3>1. /\ b[4] = state.vga_dac[After(a)][1] /\ b[5] = state.vga_dac[After(a)][2]
          /\ b[6] = state.vga_dac[After(a)][3]
      <4>1. /\ state.vga_dac[After(a)][4 - 3] = b[4] /\ state.vga_dac[After(a)][5 - 3] = b[5]
            /\ state.vga_dac[After(a)][6 - 3] = b[6]
        BY <2>3, <2>4
      <4> QED
        BY <4>1
    <3> QED
      BY <2>6, <3>1
  <2> QED
    BY <2>2, <2>5, <2>7, <2>8
<1>6. job.start = "D1" /\ n = 1 => state.a20 = (b[1] = 1)
  BY <1>1 DEF ChipInv, PicInv, PitInv, DacInv, KbcInv, KbcShape, Sent
<1>7. job.start = "D0" /\ n = 1 => state.a20 = (b[1] = 1)
  BY <1>1 DEF ChipInv, PicInv, PitInv, DacInv, KbcInv, KbcShape, Sent
<1>8. ASSUME job.start \in {"write", "read"}, n >= 3
      PROVE  <<b[1], b[1 + 1], b[1 + 2]>> = state.vga_dac[job.arg % Entries]
  <2>1. <<b[1], b[2], b[3]>> = state.vga_dac[job.arg % Entries]
    BY <1>5, <1>8
  <2>2. 1 + 1 = 2 /\ 1 + 2 = 3
    OBVIOUS
  <2> QED
    BY <2>1, <2>2, Zenon
<1>9. ASSUME job.start \in {"write", "read"}, n = 6
      PROVE  <<b[4], b[4 + 1], b[4 + 2]>> = state.vga_dac[(job.arg + 1) % Entries]
  <2>1. n >= 3
    BY <1>9
  <2>2. <<b[4], b[5], b[6]>> = state.vga_dac[(job.arg + 1) % Entries]
    BY <1>5, <1>9, <2>1
  <2>3. 4 + 1 = 5 /\ 4 + 2 = 6
    OBVIOUS
  <2> QED
    BY <2>2, <2>3, Zenon
<1> QED
  BY <1>2, <1>3, <1>4, <1>8, <1>9, <1>6, <1>7, Zenon DEF WholeSequencesWork

\* Wherever a sequence of bytes to a chip was left, the next one that is sent or read as
\* a whole does what it is for: for every size of a byte and every palette of more
\* entries than one.
THEOREM WholeSequences == ChipsetInit /\ [][ChipsetNext]_chips => []WholeSequencesWork
<1>1. ChipInv /\ UNCHANGED chips => ChipInv'
  BY DEF ChipInv, chips, PicInv, PicSequence, PitInv, PitShape, ControlSequence, LatchSequence,
         DacInv, DacShape, DacSequence, KbcInv, KbcShape, Sent
<1> QED
  BY <1>1, ChipInit, ChipStep, ChipSafe, PTL

-----------------------------------------------------------------------------
(* The Sound Blaster. *)
CardFields == {"dma", "ff", "cmd", "need_params", "params", "reset_pending", "fifo", "speaker",
               "playing", "paused", "auto_init_mode", "mode_16bit", "stereo", "frac", "have",
               "fetched", "blocks"}
\* What playing leaves alone.
KeptFields == {"ff", "cmd", "need_params", "params", "reset_pending", "fifo", "speaker", "paused",
               "auto_init_mode", "mode_16bit", "stereo"}

Words == 0 .. Byte * Byte - 1
Register == [hi : 0 .. Byte - 1, lo : 0 .. Byte - 1]
ChanType == [base_addr : Register, cur_addr : Words, base_count : Register, cur_count : Words,
             masked : BOOLEAN, tc : BOOLEAN]

IsCard(d) ==
    /\ d = [f \in CardFields |-> d[f]]
    /\ d.dma \in [Channels -> ChanType]
    /\ d.blocks \in Seq(Seq(Nat)) /\ d.fetched \in Seq(Nat)

Active(d) == d.dma[active_dma(d)]
Base(d) == Value(Active(d).base_addr)
Last(d) == Value(Active(d).base_count)
Fetched(d) == Len(d.fetched)
Wrapped(x) == x % (Byte * Byte)

\* The channel is where the fetches of the block have taken it.
InPlace(d) ==
    /\ Active(d).cur_addr = Wrapped(Base(d) + Fetched(d))
    /\ Fetched(d) <= Last(d) => Active(d).cur_count = Last(d) - Fetched(d)
    /\ \A k \in 1 .. Fetched(d) : d.fetched[k] = Wrapped(Base(d) + k - 1)

\* The last unit of the block has been fetched when the card takes it for so.
Enough(d) == d.have \/ Fetched(d) > Last(d)

BlocksPlayed(d) ==
    \A i \in DOMAIN d.blocks :
        /\ Len(d.blocks[i]) > Last(d)
        /\ \A k \in 1 .. Last(d) + 1 : d.blocks[i][k] = Wrapped(Base(d) + k - 1)

Kept(d, e) ==
    /\ \A f \in KeptFields : e[f] = d[f]
    /\ \A ch \in Channels : e.dma[ch].base_addr = d.dma[ch].base_addr
                            /\ e.dma[ch].base_count = d.dma[ch].base_count

LEMMA WordRange ==
    /\ Byte \in Nat /\ Byte > 0 /\ Byte * Byte \in Nat /\ Byte * Byte > 0
    /\ \A r \in Register : Value(r) \in Words
<1>1. Byte \in Nat /\ Byte > 0 /\ Byte * Byte \in Nat /\ Byte * Byte > 0
  BY SoundBlasterAssumption
<1>2. ASSUME NEW r \in Register PROVE Value(r) \in Words
  <2>1. PICK h \in 0 .. Byte - 1, l \in 0 .. Byte - 1 : h = r.hi /\ l = r.lo
    BY DEF Register
  <2>2. PICK k \in Nat : Byte = h + 1 + k
    <3>1. Byte - h - 1 \in Nat /\ Byte = h + 1 + (Byte - h - 1)
      BY <1>1
    <3> QED
      BY <3>1
  <2>3. h * Byte \in Nat /\ k * Byte \in Nat /\ Byte * Byte = h * Byte + Byte + k * Byte
    BY <1>1, <2>2
  <2> QED
    BY <1>1, <2>1, <2>3 DEF Value, Words
<1> QED
  BY <1>1, <1>2

LEMMA WrapRange == ASSUME NEW x \in Int
                   PROVE  Wrapped(x) \in Words /\ (x \in Words => Wrapped(x) = x)
<1> DEFINE B == Byte * Byte
<1>1. B \in Nat /\ B > 0
  BY WordRange
<1> HIDE DEF B
<1>2. x % B \in 0 .. B - 1
  BY <1>1
<1>3. x \in 0 .. B - 1 => x % B = x
  BY <1>1
<1> QED
  BY <1>2, <1>3 DEF Wrapped, Words, B

\* A cursor that wraps goes on from where it is.
LEMMA WrapStep ==
    ASSUME NEW x \in Nat
    PROVE  Wrapped(x) \in Words /\ Wrapped(Wrapped(x) + 1) = Wrapped(x + 1)
<1> DEFINE B == Byte * Byte
<1>1. B \in Nat /\ B > 0
  BY WordRange
<1> HIDE DEF B
<1>2. PICK q \in Int, r \in 0 .. B - 1 : x = B * q + r /\ x % B = r
  <2>1. x % B \in 0 .. B - 1 /\ x \div B \in Int /\ x = B * (x \div B) + (x % B)
    BY <1>1
  <2> QED
    BY <2>1
<1>3. CASE r + 1 < B
  <2>1. x + 1 = B * q + (r + 1) /\ r + 1 \in 0 .. B - 1 /\ r + 1 = B * 0 + (r + 1)
    BY <1>1, <1>2, <1>3
  <2>2. (x + 1) % B = r + 1 /\ (r + 1) % B = r + 1
    BY <1>1, <2>1, Remainder
  <2> QED
    BY <1>1, <1>2, <2>2 DEF Wrapped, Words, B
<1>4. CASE r + 1 = B
  <2>1. PICK p \in Int, one \in Int, zero \in 0 .. B - 1 : p = q + 1 /\ one = 1 /\ zero = 0
    BY <1>1
  <2>2. (B * p + zero) % B = zero /\ (B * one + zero) % B = zero
    BY <1>1, Remainder
  <2>3. x + 1 = B * p + zero /\ r + 1 = B * one + zero
    BY <1>1, <1>2, <1>4, <2>1
  <2>4. (x + 1) % B = 0 /\ (r + 1) % B = 0
    BY <2>1, <2>2, <2>3
  <2> QED
    BY <1>1, <1>2, <2>4 DEF Wrapped, Words, B
<1> QED
  BY <1>1, <1>2, <1>3, <1>4

LEMMA ActiveChannel == ASSUME NEW d, IsCard(d)
                       PROVE  /\ active_dma(d) \in Channels /\ Active(d) \in ChanType
                              /\ Base(d) \in Words /\ Last(d) \in Words /\ Fetched(d) \in Nat
                              /\ Base(d) \in Nat /\ Last(d) \in Nat
<1>1. active_dma(d) \in Channels /\ Active(d) \in ChanType
  BY DEF IsCard, active_dma, Channels, Active
<1>2. Active(d).base_addr \in Register /\ Active(d).base_count \in Register
  BY <1>1 DEF ChanType
<1>3. Base(d) \in Words /\ Last(d) \in Words
  BY <1>2, WordRange DEF Base, Last
<1>4. Fetched(d) \in Nat
  BY DEF IsCard, Fetched
<1> QED
  BY <1>1, <1>3, <1>4, WordRange DEF Words

\* The address of the next unit is fetched.
LEMMA FetchOne ==
    ASSUME NEW d, IsCard(d), InPlace(d), BlocksPlayed(d)
    PROVE  LET e == Fetch(d)
           IN  /\ IsCard(e) /\ InPlace(e) /\ BlocksPlayed(e) /\ Kept(d, e)
               /\ (Enough(d) => Enough(e)) /\ e.playing = d.playing /\ e.blocks = d.blocks
<1> DEFINE e == Fetch(d)
           ch == active_dma(d)
           chan == d.dma[ch]
           next == [chan EXCEPT !.cur_addr = Wrapped(chan.cur_addr + 1),
                                !.cur_count = Wrapped(chan.cur_count - 1)]
           n == Fetched(d)
<1>1. ch \in Channels /\ chan \in ChanType /\ n \in Nat /\ Base(d) \in Nat /\ Last(d) \in Words
  BY ActiveChannel DEF Active
<1>0. chan.cur_addr + 1 \in Int /\ chan.cur_count - 1 \in Int
  BY <1>1, WordRange DEF ChanType, Words
<1>2. /\ e = [d EXCEPT !.fetched = Append(d.fetched, chan.cur_addr),
                       !.have = d.have /\ chan.cur_count # 0,
                       !.dma[ch] = next]
  BY DEF Fetch, Wrapped
<1> HIDE DEF e, next
<1>3. /\ e = [f \in CardFields |-> e[f]]
      /\ e.fetched = Append(d.fetched, chan.cur_addr)
      /\ e.have = (d.have /\ chan.cur_count # 0)
      /\ e.dma = [d.dma EXCEPT ![ch] = next]
      /\ \A f \in CardFields \ {"fetched", "have", "dma"} : e[f] = d[f]
  BY <1>2 DEF IsCard, CardFields
<1>4. /\ next \in ChanType /\ next.base_addr = chan.base_addr /\ next.base_count = chan.base_count
      /\ next.cur_addr = Wrapped(chan.cur_addr + 1) /\ next.cur_count = Wrapped(chan.cur_count - 1)
  <2>1. Wrapped(chan.cur_addr + 1) \in Words
    BY <1>0, WrapRange
  <2>2. Wrapped(chan.cur_count - 1) \in Words
    BY <1>0, WrapRange
  <2> QED
    BY <1>1, <2>1, <2>2 DEF ChanType, next
<1>a. Append(d.fetched, chan.cur_addr) \in Seq(Nat) /\ chan.cur_addr \in Nat
  BY <1>1, WordRange DEF IsCard, ChanType, Words
<1>5. IsCard(e) /\ e.dma[ch] = next
      /\ \A o \in Channels \ {ch} : e.dma[o] = d.dma[o]
  <2>1. e.dma \in [Channels -> ChanType] /\ e.dma[ch] = next
        /\ \A o \in Channels \ {ch} : e.dma[o] = d.dma[o]
    BY <1>1, <1>3, <1>4 DEF IsCard
  <2>2. e.blocks = d.blocks
    BY <1>3 DEF CardFields
  <2> QED
    BY <1>3, <1>a, <2>1, <2>2 DEF IsCard
<1>6. active_dma(e) = ch /\ e.stereo = d.stereo /\ Base(e) = Base(d) /\ Last(e) = Last(d)
      /\ Active(e) = next
  BY <1>3, <1>4, <1>5 DEF active_dma, Base, Last, Active, CardFields
<1>7. /\ Fetched(e) = n + 1 /\ e.fetched[n + 1] = chan.cur_addr
      /\ \A k \in 1 .. n : e.fetched[k] = d.fetched[k]
  <2>1. PICK s \in Seq(Nat), a \in Nat : s = d.fetched /\ a = chan.cur_addr
    BY <1>a DEF IsCard
  <2>2. /\ Len(Append(s, a)) = Len(s) + 1 /\ Append(s, a)[Len(s) + 1] = a
        /\ \A k \in 1 .. Len(s) : Append(s, a)[k] = s[k]
    BY AppendProperties
  <2>3. n = Len(s) /\ e.fetched = Append(s, a) /\ Fetched(e) = Len(Append(s, a))
    BY <1>3, <2>1 DEF Fetched
  <2> QED
    BY <2>1, <2>2, <2>3
<1>8. Kept(d, e) /\ e.playing = d.playing /\ e.blocks = d.blocks
  <2>1. \A f \in KeptFields : e[f] = d[f]
    BY <1>3 DEF KeptFields, CardFields
  <2>2. \A o \in Channels : e.dma[o].base_addr = d.dma[o].base_addr
                            /\ e.dma[o].base_count = d.dma[o].base_count
    BY <1>4, <1>5
  <2> QED
    BY <1>3, <2>1, <2>2 DEF Kept, CardFields
<1>9. BlocksPlayed(e)
  BY <1>6, <1>8 DEF BlocksPlayed
<1>10. InPlace(e)
  <2>1. chan.cur_addr = Wrapped(Base(d) + n) /\ (n <= Last(d) => chan.cur_count = Last(d) - n)
        /\ \A k \in 1 .. n : d.fetched[k] = Wrapped(Base(d) + k - 1)
    BY DEF InPlace, Active
  <2>2. next.cur_addr = Wrapped(Base(d) + (n + 1))
    <3>1. PICK x \in Nat : x = Base(d) + n
      BY <1>1
    <3>2. Wrapped(Wrapped(x) + 1) = Wrapped(x + 1)
      BY WrapStep
    <3>3. x + 1 = Base(d) + (n + 1)
      BY <1>1, <3>1
    <3>4. chan.cur_addr = Wrapped(x)
      BY <2>1, <3>1
    <3>5. next.cur_addr = Wrapped(x + 1)
      BY <1>4, <3>2, <3>4
    <3> HIDE DEF n
    <3> QED
      BY <3>3, <3>5, Zenon
  <2>3. n + 1 <= Last(d) => next.cur_count = Last(d) - (n + 1)
    <3> SUFFICES ASSUME n + 1 <= Last(d) PROVE next.cur_count = Last(d) - (n + 1)
      OBVIOUS
    <3>1. chan.cur_count - 1 = Last(d) - (n + 1) /\ chan.cur_count - 1 \in Words
      BY <1>1, <2>1, WordRange DEF Words
    <3> QED
      BY <1>0, <1>4, <3>1, WrapRange
  <2>4. ASSUME NEW k \in 1 .. n + 1 PROVE e.fetched[k] = Wrapped(Base(d) + k - 1)
    <3>1. CASE k = n + 1
      <4>1. Base(d) + k - 1 = Base(d) + n
        BY <1>1, <3>1
      <4> QED
        BY <1>7, <2>1, <3>1, <4>1
    <3>2. CASE k \in 1 .. n
      BY <1>7, <2>1, <3>2
    <3> QED
      BY <1>1, <3>1, <3>2
  <2> QED
    BY <1>6, <1>7, <2>2, <2>3, <2>4 DEF InPlace
<1>11. Enough(d) => Enough(e)
  <2>1. n <= Last(d) => chan.cur_count = Last(d) - n
    BY DEF InPlace, Active
  <2>2. ASSUME ~ e.have, Enough(d) PROVE n + 1 > Last(d)
    <3>1. ~ d.have \/ chan.cur_count = 0
      BY <1>3, <2>2
    <3>2. n > Last(d) \/ chan.cur_count = 0
      BY <2>2, <3>1 DEF Enough
    <3> QED
      BY <1>1, <2>1, <3>2 DEF Words
  <2> QED
    BY <1>6, <1>7, <2>2 DEF Enough
<1> QED
  BY <1>5, <1>8, <1>9, <1>10, <1>11 DEF e

\* A step of the stream, from d as it was when the host asked for samples.
Streams(d, e) ==
    /\ IsCard(e) /\ BlocksPlayed(e) /\ Kept(d, e)
    /\ e.playing => d.playing /\ InPlace(e) /\ Enough(e)

LEMMA KeptOn == ASSUME NEW d, NEW e, NEW f, Kept(d, e), Kept(e, f) PROVE Kept(d, f)
  BY DEF Kept

LEMMA KeptSame == ASSUME NEW d PROVE Kept(d, d)
  BY DEF Kept

\* The same card but for a field of the stream that says nothing of addresses.
LEMMA SameStream ==
    ASSUME NEW d, IsCard(d), NEW e, e = [f \in CardFields |-> e[f]],
           \A f \in CardFields \ {"have", "frac", "playing"} : e[f] = d[f]
    PROVE  IsCard(e) /\ Kept(d, e) /\ (InPlace(d) => InPlace(e)) /\ (BlocksPlayed(d) => BlocksPlayed(e))
           /\ Fetched(e) = Fetched(d) /\ Last(e) = Last(d)
<1>1. /\ e.dma = d.dma /\ e.mode_16bit = d.mode_16bit /\ e.fetched = d.fetched
      /\ e.blocks = d.blocks
  BY DEF CardFields
<1>2. Kept(d, e)
  BY <1>1 DEF Kept, KeptFields, CardFields
<1>3. Active(e) = Active(d) /\ Base(e) = Base(d) /\ Last(e) = Last(d) /\ Fetched(e) = Fetched(d)
  BY <1>1 DEF Active, active_dma, Base, Last, Fetched
<1> QED
  BY <1>1, <1>2, <1>3 DEF IsCard, InPlace, BlocksPlayed

LEMMA FetchOneFrame ==
    ASSUME NEW d, IsCard(d), InPlace(d), BlocksPlayed(d)
    PROVE  LET e == FetchFrame(d)
           IN  /\ IsCard(e) /\ InPlace(e) /\ BlocksPlayed(e) /\ Kept(d, e) /\ Enough(e)
               /\ e.playing = d.playing
<1>1. PICK p : p = [d EXCEPT !.have = TRUE]
  OBVIOUS
<1>2. p = [f \in CardFields |-> p[f]] /\ p.have = TRUE /\ \A f \in CardFields \ {"have"} : p[f] = d[f]
  BY <1>1 DEF IsCard, CardFields
<1>3. IsCard(p) /\ InPlace(p) /\ BlocksPlayed(p) /\ Kept(d, p)
  BY <1>2, SameStream
<1>4. Enough(p) /\ p.playing = d.playing /\ p.stereo = d.stereo
  BY <1>2 DEF Enough, CardFields
<1>5. PICK f : f = Fetch(p)
  OBVIOUS
<1>6. /\ IsCard(f) /\ InPlace(f) /\ BlocksPlayed(f) /\ Kept(p, f) /\ Enough(f)
      /\ f.playing = p.playing
  BY <1>3, <1>4, <1>5, FetchOne
<1>7. PICK g : g = Fetch(f)
  OBVIOUS
<1>8. /\ IsCard(g) /\ InPlace(g) /\ BlocksPlayed(g) /\ Kept(f, g) /\ Enough(g)
      /\ g.playing = f.playing
  BY <1>6, <1>7, FetchOne
<1>9. FetchFrame(d) = IF d.stereo THEN g ELSE f
  BY <1>1, <1>5, <1>7 DEF FetchFrame
<1>10. Kept(d, f) /\ Kept(d, g)
  BY <1>3, <1>6, <1>8, KeptOn
<1> QED
  BY <1>4, <1>6, <1>8, <1>9, <1>10

\* The block is over: the channel is at its beginning again or playing is over.
LEMMA Reloads ==
    ASSUME NEW d, IsCard(d)
    PROVE  LET e == BlockComplete(d)
           IN  /\ IsCard(e) /\ Kept(d, e) /\ (e.playing => d.playing /\ InPlace(e))
               /\ e.blocks = Append(d.blocks, d.fetched) /\ Base(e) = Base(d) /\ Last(e) = Last(d)
               /\ e.have = d.have
<1> DEFINE e == BlockComplete(d)
           ch == active_dma(d)
           chan == d.dma[ch]
           next == e.dma[ch]
<1>1. ch \in Channels /\ chan \in ChanType /\ Base(d) \in Words /\ Last(d) \in Words
      /\ Fetched(d) \in Nat
  BY ActiveChannel DEF Active
<1>a. Value(chan.base_addr) = Base(d) /\ Value(chan.base_count) = Last(d)
  BY DEF Base, Last, Active
<1>2. /\ e = [f \in CardFields |-> e[f]]
      /\ e.fetched = <<>> /\ e.blocks = Append(d.blocks, d.fetched)
      /\ \A f \in CardFields \ {"fetched", "blocks", "dma", "playing"} : e[f] = d[f]
      /\ e.dma \in [Channels -> ChanType]
      /\ \A o \in Channels \ {ch} : e.dma[o] = d.dma[o]
      /\ next.base_addr = chan.base_addr /\ next.base_count = chan.base_count
      /\ \/ e.playing = FALSE
         \/ /\ e.playing = d.playing
            /\ next.cur_addr = Base(d) /\ next.cur_count = Last(d)
  <2>1. CASE d.auto_init_mode
    <3> DEFINE new == [chan EXCEPT !.tc = TRUE, !.cur_addr = Base(d), !.cur_count = Last(d)]
    <3>1. new \in ChanType /\ new.base_addr = chan.base_addr /\ new.base_count = chan.base_count
          /\ new.cur_addr = Base(d) /\ new.cur_count = Last(d)
      <4>1. PICK t : t = [chan EXCEPT !.tc = TRUE]
        OBVIOUS
      <4>2. t \in ChanType /\ t.base_addr = chan.base_addr /\ t.base_count = chan.base_count
        BY <1>1, <4>1 DEF ChanType
      <4>3. new = [t EXCEPT !.cur_addr = Base(d), !.cur_count = Last(d)]
        BY <4>1
      <4> HIDE DEF new
      <4> QED
        BY <1>1, <4>2, <4>3 DEF ChanType
    <3>2. e = [d EXCEPT !.blocks = Append(d.blocks, d.fetched), !.fetched = <<>>, !.dma[ch] = new]
      BY <2>1, <1>a DEF BlockComplete, active_dma, IsCard, CardFields
    <3> HIDE DEF e, new
    <3>3. /\ e = [f \in CardFields |-> e[f]]
          /\ e.fetched = <<>> /\ e.blocks = Append(d.blocks, d.fetched)
          /\ \A f \in CardFields \ {"fetched", "blocks", "dma"} : e[f] = d[f]
          /\ e.dma = [d.dma EXCEPT ![ch] = new]
      BY <3>2 DEF IsCard, CardFields
    <3>4. e.playing = d.playing
      BY <3>3 DEF CardFields
    <3>5. /\ e.dma \in [Channels -> ChanType] /\ e.dma[ch] = new
          /\ \A o \in Channels \ {ch} : e.dma[o] = d.dma[o]
      BY <1>1, <3>1, <3>3 DEF IsCard
    <3> QED
      BY <3>1, <3>3, <3>4, <3>5
  <2>2. CASE ~ d.auto_init_mode
    <3> DEFINE new == [chan EXCEPT !.tc = TRUE]
    <3>1. new \in ChanType /\ new.base_addr = chan.base_addr /\ new.base_count = chan.base_count
      BY <1>1 DEF ChanType
    <3>2. e = [d EXCEPT !.blocks = Append(d.blocks, d.fetched), !.fetched = <<>>,
                        !.dma[ch] = new, !.playing = FALSE]
      BY <2>2, <1>a DEF BlockComplete, active_dma, IsCard, CardFields
    <3> HIDE DEF e, new
    <3>3. /\ e = [f \in CardFields |-> e[f]]
          /\ e.fetched = <<>> /\ e.blocks = Append(d.blocks, d.fetched)
          /\ \A f \in CardFields \ {"fetched", "blocks", "dma", "playing"} : e[f] = d[f]
          /\ e.dma = [d.dma EXCEPT ![ch] = new] /\ e.playing = FALSE
      BY <3>2 DEF IsCard, CardFields
    <3>5. /\ e.dma \in [Channels -> ChanType] /\ e.dma[ch] = new
          /\ \A o \in Channels \ {ch} : e.dma[o] = d.dma[o]
      BY <1>1, <3>1, <3>3 DEF IsCard
    <3> QED
      BY <3>1, <3>3, <3>5
  <2> QED
    BY <2>1, <2>2
<1> HIDE DEF e
<1>3. active_dma(e) = ch /\ Active(e) = next /\ Base(e) = Base(d) /\ Last(e) = Last(d)
  BY <1>2 DEF active_dma, Active, Base, Last, CardFields
<1>4. IsCard(e)
  <2>1. <<>> \in Seq(Nat) /\ Append(d.blocks, d.fetched) \in Seq(Seq(Nat))
    BY DEF IsCard
  <2> QED
    BY <1>2, <2>1 DEF IsCard
<1>5. Kept(d, e)
  <2>1. \A f \in KeptFields : e[f] = d[f]
    BY <1>2 DEF KeptFields, CardFields
  <2>2. \A o \in Channels : e.dma[o].base_addr = d.dma[o].base_addr
                            /\ e.dma[o].base_count = d.dma[o].base_count
    BY <1>1, <1>2
  <2> QED
    BY <2>1, <2>2 DEF Kept
<1>7. e.playing => d.playing /\ InPlace(e)
  <2> SUFFICES ASSUME e.playing PROVE d.playing /\ InPlace(e)
    OBVIOUS
  <2>1. d.playing /\ next.cur_addr = Base(d) /\ next.cur_count = Last(d)
    BY <1>2
  <2>2. Fetched(e) = 0
    BY <1>2 DEF Fetched
  <2>3. Wrapped(Base(d)) = Base(d) /\ Base(d) + 0 = Base(d) /\ Last(d) - 0 = Last(d)
    BY <1>1, WrapRange, ActiveChannel
  <2> QED
    BY <1>3, <2>1, <2>2, <2>3 DEF InPlace
<1>8. e.have = d.have
  BY <1>2 DEF CardFields
<1> QED
  BY <1>2, <1>3, <1>4, <1>5, <1>7, <1>8 DEF e

\* What was fetched of it is what the card was given.
LEMMA Completes ==
    ASSUME NEW d, IsCard(d), BlocksPlayed(d), InPlace(d), Fetched(d) > Last(d)
    PROVE  LET e == BlockComplete(d)
           IN  /\ IsCard(e) /\ BlocksPlayed(e) /\ Kept(d, e)
               /\ e.playing => d.playing /\ InPlace(e)
<1>1. Base(d) \in Words /\ Last(d) \in Words /\ Fetched(d) \in Nat
  BY ActiveChannel
<1>2. PICK e : e = BlockComplete(d)
  OBVIOUS
<1>3. /\ IsCard(e) /\ Kept(d, e) /\ (e.playing => d.playing /\ InPlace(e))
      /\ e.blocks = Append(d.blocks, d.fetched) /\ Base(e) = Base(d) /\ Last(e) = Last(d)
  BY <1>2, Reloads
<1>6. BlocksPlayed(e)
  <2>1. PICK s \in Seq(Seq(Nat)), b \in Seq(Nat) : s = d.blocks /\ b = d.fetched
    BY DEF IsCard
  <2>2. /\ DOMAIN Append(s, b) = 1 .. Len(s) + 1 /\ Append(s, b)[Len(s) + 1] = b
        /\ \A k \in 1 .. Len(s) : Append(s, b)[k] = s[k]
        /\ DOMAIN s = 1 .. Len(s) /\ Len(s) \in Nat
    BY AppendProperties
  <2>3. Len(b) > Last(d) /\ \A k \in 1 .. Last(d) + 1 : b[k] = Wrapped(Base(d) + k - 1)
    <3>1. \A k \in 1 .. Fetched(d) : b[k] = Wrapped(Base(d) + k - 1)
      BY <2>1 DEF InPlace
    <3>2. Last(d) \in Nat
      BY ActiveChannel
    <3> QED
      BY <1>1, <2>1, <3>1, <3>2 DEF Fetched
  <2>4. ASSUME NEW i \in DOMAIN e.blocks
        PROVE  Len(e.blocks[i]) > Last(d)
               /\ \A k \in 1 .. Last(d) + 1 : e.blocks[i][k] = Wrapped(Base(d) + k - 1)
    <3>1. e.blocks = Append(s, b)
      BY <1>3, <2>1
    <3>2. CASE i = Len(s) + 1
      BY <2>2, <2>3, <3>1, <3>2
    <3>3. CASE i \in 1 .. Len(s)
      <4>1. e.blocks[i] = s[i] /\ i \in DOMAIN d.blocks /\ s = d.blocks
        BY <2>1, <2>2, <3>1, <3>3
      <4> QED
        BY <4>1 DEF BlocksPlayed
    <3> QED
      BY <2>2, <3>1, <3>2, <3>3
  <2> QED
    BY <1>3, <2>4 DEF BlocksPlayed
<1> QED
  BY <1>2, <1>3, <1>6

LEMMA NextSourceStreams ==
    ASSUME NEW d0, NEW d, Streams(d0, d), d.playing
    PROVE  Streams(d0, NextSource(d))
<1>1. IsCard(d) /\ InPlace(d) /\ BlocksPlayed(d) /\ Enough(d) /\ Kept(d0, d) /\ d0.playing
  BY DEF Streams
<1>2. CASE d.have
  <2>1. PICK e : e = FetchFrame(d) /\ e = NextSource(d)
    BY <1>2 DEF NextSource
  <2>2. IsCard(e) /\ InPlace(e) /\ BlocksPlayed(e) /\ Kept(d, e) /\ Enough(e)
    BY <1>1, <2>1, FetchOneFrame
  <2>3. Kept(d0, e)
    BY <1>1, <2>2, KeptOn
  <2> QED
    BY <1>1, <2>1, <2>2, <2>3 DEF Streams
<1>3. CASE ~ d.have
  <2>1. PICK e : e = BlockComplete(d)
    OBVIOUS
  <2>2. Fetched(d) > Last(d)
    BY <1>1, <1>3 DEF Enough
  <2>3. IsCard(e) /\ BlocksPlayed(e) /\ Kept(d, e) /\ (e.playing => InPlace(e))
    BY <1>1, <2>1, <2>2, Completes
  <2>4. Kept(d0, e)
    BY <1>1, <2>3, KeptOn
  <2>5. CASE ~ e.playing
    <3>1. NextSource(d) = e
      BY <1>3, <2>1, <2>5 DEF NextSource
    <3> QED
      BY <2>3, <2>4, <2>5, <3>1 DEF Streams
  <2>6. CASE e.playing /\ e.dma[active_dma(e)].masked
    <3>1. PICK f : f = [e EXCEPT !.playing = FALSE] /\ f = NextSource(d)
      BY <1>3, <2>1, <2>6 DEF NextSource
    <3>2. f = [g \in CardFields |-> f[g]] /\ f.playing = FALSE
          /\ \A g \in CardFields \ {"playing"} : f[g] = e[g]
      BY <2>3, <3>1 DEF IsCard, CardFields
    <3>3. IsCard(f) /\ BlocksPlayed(f) /\ Kept(e, f)
      BY <2>3, <3>2, SameStream
    <3>4. Kept(d0, f)
      BY <2>4, <3>3, KeptOn
    <3> QED
      BY <3>1, <3>2, <3>3, <3>4 DEF Streams
  <2>7. CASE e.playing /\ ~ e.dma[active_dma(e)].masked
    <3>1. PICK f : f = FetchFrame(e) /\ f = NextSource(d)
      BY <1>3, <2>1, <2>7 DEF NextSource
    <3>2. IsCard(f) /\ InPlace(f) /\ BlocksPlayed(f) /\ Kept(e, f) /\ Enough(f)
      BY <2>3, <2>7, <3>1, FetchOneFrame
    <3>3. Kept(d0, f)
      BY <2>4, <3>2, KeptOn
    <3> QED
      BY <1>1, <3>1, <3>2, <3>3 DEF Streams
  <2> QED
    BY <2>5, <2>6, <2>7
<1> QED
  BY <1>2, <1>3

\* A field that only counts.
LEMMA FracStreams ==
    ASSUME NEW d0, NEW d, Streams(d0, d), NEW x, NEW e, e = [d EXCEPT !.frac = x]
    PROVE  Streams(d0, e) /\ (e.playing <=> d.playing)
<1>2. e = [g \in CardFields |-> e[g]] /\ \A g \in CardFields \ {"frac"} : e[g] = d[g]
  BY DEF Streams, IsCard, CardFields
<1>3. /\ IsCard(e) /\ Kept(d, e) /\ (InPlace(d) => InPlace(e)) /\ BlocksPlayed(e)
      /\ Fetched(e) = Fetched(d) /\ Last(e) = Last(d)
  BY <1>2, SameStream DEF Streams
<1>4. Kept(d0, e)
  BY <1>3, KeptOn DEF Streams
<1>5. e.playing = d.playing /\ e.have = d.have
  BY <1>2 DEF CardFields
<1> QED
  BY <1>3, <1>4, <1>5 DEF Streams, Enough

\* A function that is defined by recursion over 0 .. n, as HostFrame has it.
LEMMA CrossExists ==
    ASSUME NEW a, NEW n \in Nat
    PROVE  \E f : f = [k \in 0 .. n |-> IF k = 0 THEN a ELSE CrossOne(f[k - 1])]
<1> DEFINE Upto(m) == \E f : f = [k \in 0 .. m |-> IF k = 0 THEN a ELSE CrossOne(f[k - 1])]
           S == {m \in Nat : Upto(m)}
<1>1. Upto(0)
  <2> DEFINE f == [k \in 0 .. 0 |-> a]
  <2>1. f = [k \in 0 .. 0 |-> IF k = 0 THEN a ELSE CrossOne(f[k - 1])]
    OBVIOUS
  <2> QED
    BY <2>1
<1>2. ASSUME NEW m \in Nat, Upto(m) PROVE Upto(m + 1)
  <2>1. PICK f : f = [k \in 0 .. m |-> IF k = 0 THEN a ELSE CrossOne(f[k - 1])]
    BY <1>2
  <2> DEFINE h == [k \in 0 .. m + 1 |-> IF k <= m THEN f[k] ELSE CrossOne(f[m])]
  <2>2. h = [k \in 0 .. m + 1 |-> IF k = 0 THEN a ELSE CrossOne(h[k - 1])]
    <3>1. ASSUME NEW k \in 0 .. m + 1 PROVE h[k] = IF k = 0 THEN a ELSE CrossOne(h[k - 1])
      <4>1. CASE k <= m
        BY <2>1, <4>1
      <4>2. CASE k = m + 1
        BY <4>2
      <4> QED
        BY <4>1, <4>2
    <3> HIDE DEF h
    <3>2. h = [k \in 0 .. m + 1 |-> h[k]]
      BY DEF h
    <3> QED
      BY <3>1, <3>2
  <2> HIDE DEF h
  <2> QED
    BY <2>2
<1> HIDE DEF Upto
<1>3. \A m \in Nat : m \in S
  <2>1. 0 \in S /\ \A m \in Nat : m \in S => m + 1 \in S
    BY <1>1, <1>2
  <2> HIDE DEF S
  <2> QED
    BY <2>1, Induction
<1>4. Upto(n)
  BY <1>3
<1> QED
  BY <1>4 DEF Upto

LEMMA HostFrameStreams ==
    ASSUME NEW d0, NEW d, Streams(d0, d), NEW step \in Nat
    PROVE  Streams(d0, HostFrame(d, step))
<1>a. SUFFICES ASSUME d.playing PROVE Streams(d0, HostFrame(d, step))
  BY DEF HostFrame
<1> DEFINE start == [d EXCEPT !.frac = @ + step]
<1>0. PICK a : a = start
  OBVIOUS
<1>3. Streams(d0, a)
  BY <1>0, FracStreams
<1> DEFINE Cross[k \in 0 .. step] == IF k = 0 THEN a ELSE CrossOne(Cross[k - 1])
<1>1. HostFrame(d, step) = Cross[step]
  BY <1>0, <1>a DEF HostFrame
<1>2. Cross = CHOOSE f : f = [k \in 0 .. step |-> IF k = 0 THEN a ELSE CrossOne(f[k - 1])]
  OBVIOUS
<1> HIDE DEF Cross
<1>4. Cross[0] = a /\ \A k \in 1 .. step : Cross[k] = CrossOne(Cross[k - 1])
  <2>1. \E f : f = [k \in 0 .. step |-> IF k = 0 THEN a ELSE CrossOne(f[k - 1])]
    BY CrossExists, Zenon
  <2>2. Cross = [k \in 0 .. step |-> IF k = 0 THEN a ELSE CrossOne(Cross[k - 1])]
    BY <1>2, <2>1
  <2>3. \A k \in 0 .. step : Cross[k] = IF k = 0 THEN a ELSE CrossOne(Cross[k - 1])
    BY <2>2, Zenon
  <2>4. 0 \in 0 .. step /\ \A k \in 1 .. step : k \in 0 .. step /\ k # 0
    OBVIOUS
  <2> QED
    BY <2>3, <2>4, Zenon
<1> DEFINE S == {k \in Nat : k <= step => Streams(d0, Cross[k])}
<1>5. 0 \in S
  BY <1>0, <1>3, <1>4
<1>6. ASSUME NEW k \in Nat, k \in S PROVE k + 1 \in S
  <2> SUFFICES ASSUME k + 1 <= step PROVE Streams(d0, Cross[k + 1])
    OBVIOUS
  <2>1. PICK e : e = Cross[k] /\ Streams(d0, e)
    BY <1>6
  <2>2. k + 1 \in 1 .. step /\ (k + 1) - 1 = k
    OBVIOUS
  <2>3. Cross[k + 1] = CrossOne(e)
    BY <1>4, <2>1, <2>2
  <2>4. CASE e.playing /\ e.frac >= One
    <3>1. PICK x : x = [e EXCEPT !.frac = e.frac - One]
      OBVIOUS
    <3>2. Streams(d0, x) /\ x.playing
      BY <2>1, <2>4, <3>1, FracStreams
    <3>3. Cross[k + 1] = NextSource(x)
      BY <2>3, <2>4, <3>1 DEF CrossOne
    <3> QED
      BY <3>2, <3>3, NextSourceStreams
  <2>5. CASE ~ (e.playing /\ e.frac >= One)
    BY <2>1, <2>3, <2>5 DEF CrossOne
  <2> QED
    BY <2>4, <2>5
<1> HIDE DEF S
<1>7. step \in S
  BY <1>5, <1>6, Induction
<1> QED
  BY <1>1, <1>7 DEF S

\* Between two calls of render.
Ready(d) == IsCard(d) /\ BlocksPlayed(d) /\ (d.playing => InPlace(d)) /\ d.have = TRUE

\* A call of render, whatever it plays.
LEMMA RenderedStreams ==
    ASSUME NEW d, Ready(d), NEW frames \in Nat, NEW step \in Nat
    PROVE  LET e == Rendered(d, frames, step)
           IN  Streams(d, e) /\ e.have = TRUE
<1>1. CASE ~ d.playing \/ d.paused \/ ~ d.speaker \/ d.dma[active_dma(d)].masked
  <2>1. Rendered(d, frames, step) = d
    BY <1>1 DEF Rendered
  <2>2. Kept(d, d)
    BY KeptSame
  <2> QED
    BY <2>1, <2>2 DEF Streams, Enough, Ready
<1>2. CASE ~ (~ d.playing \/ d.paused \/ ~ d.speaker \/ d.dma[active_dma(d)].masked)
  <2>0. PICK a : a = FetchFrame(d)
    OBVIOUS
  <2> DEFINE Sample[i \in 0 .. frames] == IF i = 0 THEN a ELSE HostFrame(Sample[i - 1], step)
  <2>1. Rendered(d, frames, step) = [Sample[frames] EXCEPT !.have = TRUE]
    BY <1>2, <2>0 DEF Rendered
  <2>2. Sample = CHOOSE f : f = [i \in 0 .. frames |->
                                   IF i = 0 THEN a ELSE HostFrame(f[i - 1], step)]
    OBVIOUS
  <2> HIDE DEF Sample
  <2>3. Sample[0] = a /\ \A i \in 1 .. frames : Sample[i] = HostFrame(Sample[i - 1], step)
    <3>1. \E f : f = [i \in 0 .. frames |-> IF i = 0 THEN a ELSE HostFrame(f[i - 1], step)]
      <4> DEFINE Upto(m) == \E f : f = [i \in 0 .. m |-> IF i = 0 THEN a ELSE HostFrame(f[i - 1], step)]
                 N == {m \in Nat : Upto(m)}
      <4>1. Upto(0)
        <5> DEFINE f == [i \in 0 .. 0 |-> a]
        <5>1. f = [i \in 0 .. 0 |-> IF i = 0 THEN a ELSE HostFrame(f[i - 1], step)]
          OBVIOUS
        <5> QED
          BY <5>1
      <4>2. ASSUME NEW m \in Nat, Upto(m) PROVE Upto(m + 1)
        <5>1. PICK f : f = [i \in 0 .. m |-> IF i = 0 THEN a ELSE HostFrame(f[i - 1], step)]
          BY <4>2
        <5> DEFINE h == [i \in 0 .. m + 1 |-> IF i <= m THEN f[i] ELSE HostFrame(f[m], step)]
        <5>2. h = [i \in 0 .. m + 1 |-> IF i = 0 THEN a ELSE HostFrame(h[i - 1], step)]
          <6>1. ASSUME NEW i \in 0 .. m + 1 PROVE h[i] = IF i = 0 THEN a ELSE HostFrame(h[i - 1], step)
            <7>1. CASE i <= m
              BY <5>1, <7>1
            <7>2. CASE i = m + 1
              BY <7>2
            <7> QED
              BY <7>1, <7>2
          <6> HIDE DEF h
          <6>2. h = [i \in 0 .. m + 1 |-> h[i]]
            BY DEF h
          <6> QED
            BY <6>1, <6>2
        <5> HIDE DEF h
        <5> QED
          BY <5>2
      <4> HIDE DEF Upto
      <4>3. \A m \in Nat : m \in N
        <5>1. 0 \in N /\ \A m \in Nat : m \in N => m + 1 \in N
          BY <4>1, <4>2
        <5> HIDE DEF N
        <5> QED
          BY <5>1, Induction
      <4>4. Upto(frames)
        BY <4>3
      <4> QED
        BY <4>4 DEF Upto
    <3>2. Sample = [i \in 0 .. frames |-> IF i = 0 THEN a ELSE HostFrame(Sample[i - 1], step)]
      BY <2>2, <3>1
    <3>3. \A i \in 0 .. frames : Sample[i] = IF i = 0 THEN a ELSE HostFrame(Sample[i - 1], step)
      BY <3>2, Zenon
    <3>4. 0 \in 0 .. frames /\ \A i \in 1 .. frames : i \in 0 .. frames /\ i # 0
      OBVIOUS
    <3> QED
      BY <3>3, <3>4, Zenon
  <2>4. Streams(d, a)
    <3>1. IsCard(a) /\ InPlace(a) /\ BlocksPlayed(a) /\ Kept(d, a) /\ Enough(a)
      BY <1>2, <2>0, FetchOneFrame DEF Ready
    <3> QED
      BY <1>2, <3>1 DEF Streams
  <2> DEFINE S == {i \in Nat : i <= frames => Streams(d, Sample[i])}
  <2>5. 0 \in S
    BY <2>3, <2>4
  <2>6. ASSUME NEW i \in Nat, i \in S PROVE i + 1 \in S
    <3> SUFFICES ASSUME i + 1 <= frames PROVE Streams(d, Sample[i + 1])
      OBVIOUS
    <3>1. PICK e : e = Sample[i] /\ Streams(d, e)
      BY <2>6
    <3>2. i + 1 \in 1 .. frames /\ (i + 1) - 1 = i
      OBVIOUS
    <3>3. Sample[i + 1] = HostFrame(e, step)
      BY <2>3, <3>1, <3>2
    <3> QED
      BY <3>1, <3>3, HostFrameStreams
  <2> HIDE DEF S
  <2>7. frames \in S
    BY <2>5, <2>6, Induction
  <2>a. Streams(d, Sample[frames])
    BY <2>7 DEF S
  <2>8. PICK e, f : e = Sample[frames] /\ f = [e EXCEPT !.have = TRUE] /\ Streams(d, e)
    BY <2>a
  <2>9. f = [g \in CardFields |-> f[g]] /\ f.have = TRUE
        /\ \A g \in CardFields \ {"have"} : f[g] = e[g]
    BY <2>8 DEF Streams, IsCard, CardFields
  <2>10. /\ IsCard(f) /\ Kept(e, f) /\ (InPlace(e) => InPlace(f)) /\ BlocksPlayed(f)
    BY <2>8, <2>9, SameStream DEF Streams
  <2>11. Kept(d, f)
    BY <2>8, <2>10, KeptOn DEF Streams
  <2>12. f.playing = e.playing
    BY <2>9 DEF CardFields
  <2> QED
    BY <2>1, <2>8, <2>9, <2>10, <2>11, <2>12 DEF Streams, Enough
<1> QED
  BY <1>1, <1>2

LEMMA ReadyStays ==
    ASSUME NEW d, Ready(d), NEW e, e = [f \in CardFields |-> e[f]],
           e.dma \in [Channels -> ChanType],
           \A ch \in Channels :
              /\ e.dma[ch].base_addr = d.dma[ch].base_addr /\ e.dma[ch].cur_addr = d.dma[ch].cur_addr
              /\ e.dma[ch].base_count = d.dma[ch].base_count
              /\ e.dma[ch].cur_count = d.dma[ch].cur_count,
           \A f \in {"mode_16bit", "fetched", "have", "blocks"} : e[f] = d[f],
           e.playing => d.playing
    PROVE  Ready(e)
<1>1. /\ e.mode_16bit = d.mode_16bit /\ e.fetched = d.fetched /\ e.have = d.have
      /\ e.blocks = d.blocks
  OBVIOUS
<1>2. active_dma(e) = active_dma(d) /\ active_dma(d) \in Channels
  BY <1>1 DEF active_dma, Channels
<1>3. /\ Base(e) = Base(d) /\ Last(e) = Last(d) /\ Fetched(e) = Fetched(d)
      /\ Active(e).cur_addr = Active(d).cur_addr /\ Active(e).cur_count = Active(d).cur_count
  BY <1>1, <1>2 DEF Base, Last, Fetched, Active
<1>4. IsCard(e)
  BY <1>1 DEF Ready, IsCard
<1>5. InPlace(d) => InPlace(e)
  BY <1>1, <1>3 DEF InPlace
<1>6. BlocksPlayed(d) => BlocksPlayed(e)
  BY <1>1, <1>3 DEF BlocksPlayed
<1> QED
  BY <1>1, <1>4, <1>5, <1>6 DEF Ready

\* Nothing but what does not concern the stream.
LEMMA ReadyAside ==
    ASSUME NEW d, Ready(d), NEW e, e = [f \in CardFields |-> e[f]],
           \A f \in {"dma", "mode_16bit", "fetched", "have", "blocks"} : e[f] = d[f],
           e.playing => d.playing
    PROVE  Ready(e)
<1>1. /\ e.dma = d.dma /\ \A f \in {"mode_16bit", "fetched", "have", "blocks"} : e[f] = d[f]
  OBVIOUS
<1>2. d.dma \in [Channels -> ChanType]
  BY DEF Ready, IsCard
<1> QED
  BY <1>1, <1>2, ReadyStays

\* A card that begins to play is at the beginning of what it was given.
LEMMA ReadyStart ==
    ASSUME NEW d, Ready(d), d.blocks = <<>>, NEW auto \in BOOLEAN, NEW sixteen \in BOOLEAN,
           AtStart(d.dma[IF sixteen THEN "dma16" ELSE "dma8"])
    PROVE  LET e == StartPlayback(d, auto, sixteen)
           IN  /\ Ready(e)
               /\ \A f \in {"fifo", "need_params", "reset_pending", "blocks"} : e[f] = d[f]
<1>1. PICK e : e = StartPlayback(d, auto, sixteen)
  OBVIOUS
<1>2. /\ e = [f \in CardFields |-> e[f]] /\ e.mode_16bit = sixteen /\ e.fetched = <<>>
      /\ \A f \in {"dma", "have", "blocks", "fifo", "need_params", "reset_pending"} : e[f] = d[f]
  BY <1>1 DEF StartPlayback, Ready, IsCard, CardFields
<1>3. /\ e.dma = d.dma /\ e.have = d.have /\ e.blocks = <<>>
  BY <1>2
<1>4. IsCard(e) /\ <<>> \in Seq(Nat)
  BY <1>2, <1>3, SMTT(30) DEF Ready, IsCard
<1>5. AtStart(Active(e)) /\ Fetched(e) = 0
  BY <1>2, <1>3 DEF Active, active_dma, Fetched
<1>6. Base(e) \in Words /\ Base(e) \in Nat /\ Last(e) \in Nat
  BY <1>4, ActiveChannel
<1>7. InPlace(e)
  <2>1. Base(e) + 0 = Base(e) /\ Last(e) - 0 = Last(e) /\ Wrapped(Base(e)) = Base(e)
    BY <1>6, WrapRange
  <2>2. Active(e).cur_addr = Base(e) /\ Active(e).cur_count = Last(e)
    BY <1>5 DEF AtStart, Base, Last
  <2> QED
    BY <1>5, <2>1, <2>2 DEF InPlace
<1>8. BlocksPlayed(e)
  BY <1>3 DEF BlocksPlayed
<1> QED
  BY <1>1, <1>2, <1>3, <1>4, <1>7, <1>8 DEF Ready

LEMMA FirstReply ==
    ASSUME NEW d, Ready(d), d.fifo = <<>>, NEW S, NEW replies \in Seq(S), Len(replies) <= 2
    PROVE  LET e == PushFifo(d, replies)
           IN  /\ Ready(e) /\ e.fifo = replies
               /\ \A f \in {"need_params", "reset_pending", "blocks"} : e[f] = d[f]
<1>1. d.fifo \o replies = replies
  BY ConcatEmptySeq
<1>2. FIFO_SZ \in Nat /\ FIFO_SZ >= 2 /\ Len(replies) \in Nat
  BY SoundBlasterAssumption
<1>3. ~ (Len(replies) > FIFO_SZ)
  BY <1>2
<1>4. PushFifo(d, replies) = [d EXCEPT !.fifo = replies]
  BY <1>1, <1>3 DEF PushFifo, Ready, IsCard, CardFields
<1>5. PICK e : e = [d EXCEPT !.fifo = replies]
  OBVIOUS
<1>6. /\ e = [f \in CardFields |-> e[f]] /\ e.fifo = replies
      /\ \A f \in CardFields \ {"fifo"} : e[f] = d[f]
  BY <1>5 DEF Ready, IsCard, CardFields
<1>7. e.playing = d.playing
      /\ \A f \in {"dma", "mode_16bit", "fetched", "have", "blocks"} : e[f] = d[f]
  BY <1>6 DEF CardFields
<1>8. Ready(e)
  BY <1>6, <1>7, ReadyAside
<1> QED
  BY <1>4, <1>5, <1>6, <1>8 DEF CardFields

AtRest(d, cmd) == ~ d.playing /\ AtStart(d.dma[StartChannel(cmd)])

\* What a command does.
LEMMA CommandAnswers ==
    ASSUME NEW d, Ready(d), d.blocks = <<>>, d.fifo = <<>>, NEW cmd, NEW params,
           cmd \in Starts => AtRest(d, cmd)
    PROVE  LET e == Answer(d, cmd, params)
           IN  /\ Ready(e) /\ e.fifo = Reply(d, cmd, params[1])
               /\ e.need_params = d.need_params /\ e.reset_pending = d.reset_pending
<1> DEFINE Right(e) == /\ Ready(e) /\ e.fifo = Reply(d, cmd, params[1])
                       /\ e.need_params = d.need_params /\ e.reset_pending = d.reset_pending
<1> SUFFICES Right(Answer(d, cmd, params))
  OBVIOUS
\* A command that sets a field and has no reply.
<1>0. ASSUME NEW e, e = [f \in CardFields |-> e[f]], NEW g \in {"speaker", "paused", "auto_init_mode"},
             \A f \in CardFields \ {g} : e[f] = d[f], Reply(d, cmd, params[1]) = <<>>
      PROVE  Right(e)
  <2>1. \A f \in {"dma", "mode_16bit", "fetched", "have", "blocks", "playing", "fifo",
                  "need_params", "reset_pending"} : e[f] = d[f]
    BY <1>0 DEF CardFields
  <2>2. Ready(e)
    BY <1>0, <2>1, ReadyAside
  <2> QED
    BY <1>0, <2>1, <2>2
<1>1. CASE cmd = "E0"
  <2>1. Answer(d, cmd, params) = PushFifo(d, <<<<"not", params[1]>>>>)
        /\ Reply(d, cmd, params[1]) = <<<<"not", params[1]>>>>
    BY <1>1 DEF Answer, Reply
  <2> DEFINE r == <<"not", params[1]>>
  <2>2. <<r>> \in Seq({r}) /\ Len(<<r>>) <= 2
    OBVIOUS
  <2> HIDE DEF r
  <2>3. Right(PushFifo(d, <<r>>)) \/ <<r>> # Reply(d, cmd, params[1])
    BY <2>2, FirstReply
  <2> QED
    BY <2>1, <2>3 DEF r
<1>2. CASE cmd = "E1"
  <2> DEFINE S == {"major", "minor"}
             q == <<"major", "minor">>
  <2>1. q \in Seq(S) /\ Len(q) <= 2
    OBVIOUS
  <2>2. Answer(d, cmd, params) = PushFifo(d, q) /\ Reply(d, cmd, params[1]) = q
    BY <1>2 DEF Answer, Reply
  <2> HIDE DEF S, q
  <2>3. Right(PushFifo(d, q)) \/ q # Reply(d, cmd, params[1])
    BY <2>1, FirstReply
  <2> QED
    BY <2>2, <2>3
<1>3. CASE cmd = "E8"
  <2> DEFINE S == {"zero"}
             q == <<"zero">>
  <2>1. q \in Seq(S) /\ Len(q) <= 2
    OBVIOUS
  <2>2. Answer(d, cmd, params) = PushFifo(d, q) /\ Reply(d, cmd, params[1]) = q
    BY <1>3 DEF Answer, Reply
  <2> HIDE DEF S, q
  <2>3. Right(PushFifo(d, q)) \/ q # Reply(d, cmd, params[1])
    BY <2>1, FirstReply
  <2> QED
    BY <2>2, <2>3
<1>4. CASE cmd = "D8"
  <2> DEFINE S == {d.speaker}
             q == <<d.speaker>>
  <2>1. q \in Seq(S) /\ Len(q) <= 2
    OBVIOUS
  <2>2. Answer(d, cmd, params) = PushFifo(d, q) /\ Reply(d, cmd, params[1]) = q
    BY <1>4 DEF Answer, Reply
  <2> HIDE DEF S, q
  <2>3. Right(PushFifo(d, q)) \/ q # Reply(d, cmd, params[1])
    BY <2>1, FirstReply
  <2> QED
    BY <2>2, <2>3
<1>5. CASE cmd \in {"D1", "D3"}
  <2>1. PICK e : e = [d EXCEPT !.speaker = (cmd = "D1")] /\ e = Answer(d, cmd, params)
    BY <1>5 DEF Answer
  <2>2. e = [f \in CardFields |-> e[f]] /\ \A f \in CardFields \ {"speaker"} : e[f] = d[f]
    BY <2>1 DEF Ready, IsCard, CardFields
  <2>3. Reply(d, cmd, params[1]) = <<>>
    BY <1>5 DEF Reply
  <2> QED
    BY <1>0, <2>1, <2>2, <2>3
<1>6. CASE cmd \in {"D0", "D5", "D4", "D6"}
  <2>1. PICK e : e = Answer(d, cmd, params)
    OBVIOUS
  <2>2. e = [d EXCEPT !.paused = TRUE] \/ e = [d EXCEPT !.paused = FALSE]
    BY <1>6, <2>1 DEF Answer
  <2>3. e = [f \in CardFields |-> e[f]] /\ \A f \in CardFields \ {"paused"} : e[f] = d[f]
    BY <2>2 DEF Ready, IsCard, CardFields
  <2>4. Reply(d, cmd, params[1]) = <<>>
    BY <1>6 DEF Reply
  <2> QED
    BY <1>0, <2>1, <2>3, <2>4
<1>7. CASE cmd \in {"DA", "D9"}
  <2>1. PICK e : e = [d EXCEPT !.auto_init_mode = FALSE] /\ e = Answer(d, cmd, params)
    BY <1>7 DEF Answer
  <2>2. e = [f \in CardFields |-> e[f]] /\ \A f \in CardFields \ {"auto_init_mode"} : e[f] = d[f]
    BY <2>1 DEF Ready, IsCard, CardFields
  <2>3. Reply(d, cmd, params[1]) = <<>>
    BY <1>7 DEF Reply
  <2> QED
    BY <1>0, <2>1, <2>2, <2>3
<1>8. CASE cmd = "F2"
  <2>1. PICK b, e : b = BlockComplete(d) /\ e = [b EXCEPT !.blocks = d.blocks]
                    /\ e = Answer(d, cmd, params)
    BY <1>8 DEF Answer
  <2>2. IsCard(b) /\ Kept(d, b) /\ (b.playing => InPlace(b)) /\ b.have = d.have
    BY <2>1, Reloads DEF Ready
  <2>3. e = [f \in CardFields |-> e[f]] /\ e.blocks = <<>>
        /\ \A f \in CardFields \ {"blocks"} : e[f] = b[f]
    BY <2>1, <2>2 DEF IsCard, CardFields
  <2>4. /\ e.dma = b.dma /\ e.fetched = b.fetched /\ e.mode_16bit = b.mode_16bit
        /\ e.have = b.have /\ e.playing = b.playing /\ e.fifo = b.fifo
        /\ e.need_params = b.need_params /\ e.reset_pending = b.reset_pending
    BY <2>3 DEF CardFields
  <2>5. IsCard(e) /\ BlocksPlayed(e)
    <3>1. <<>> \in Seq(Seq(Nat)) /\ DOMAIN <<>> = {}
      OBVIOUS
    <3>2. BlocksPlayed(e)
      BY <2>3, <3>1 DEF BlocksPlayed
    <3> QED
      BY <2>2, <2>3, <2>4, <3>1, <3>2 DEF IsCard
  <2>6. InPlace(b) => InPlace(e)
    BY <2>4 DEF InPlace, Active, active_dma, Base, Last, Fetched
  <2>7. Ready(e)
    BY <2>2, <2>4, <2>5, <2>6 DEF Ready
  <2>8. b.fifo = d.fifo /\ b.need_params = d.need_params /\ b.reset_pending = d.reset_pending
    BY <2>2 DEF Kept, KeptFields
  <2>9. Reply(d, cmd, params[1]) = <<>>
    BY <1>8 DEF Reply
  <2> QED
    BY <2>1, <2>4, <2>7, <2>8, <2>9
<1>9. CASE cmd \in {"14", "91", "1C", "90"}
  <2>1. PICK auto \in BOOLEAN : Answer(d, cmd, params) = StartPlayback(d, auto, FALSE)
    BY <1>9 DEF Answer
  <2>2. AtStart(d.dma["dma8"]) /\ Reply(d, cmd, params[1]) = <<>>
    BY <1>9 DEF Starts, AtRest, StartChannel, Reply
  <2>3. /\ Ready(StartPlayback(d, auto, FALSE))
        /\ \A f \in {"fifo", "need_params", "reset_pending", "blocks"} :
              StartPlayback(d, auto, FALSE)[f] = d[f]
    BY <2>2, ReadyStart
  <2> QED
    BY <2>1, <2>2, <2>3
<1>10. CASE cmd \in {"B0", "B4", "C0", "C4"}
  <2>1. PICK a : a = [d EXCEPT !.stereo = (params[1] = "stereo")]
    OBVIOUS
  <2>2. a = [f \in CardFields |-> a[f]] /\ \A f \in CardFields \ {"stereo"} : a[f] = d[f]
    BY <2>1 DEF Ready, IsCard, CardFields
  <2>3. \A f \in {"dma", "mode_16bit", "fetched", "have", "blocks", "playing", "fifo",
                  "need_params", "reset_pending"} : a[f] = d[f]
    BY <2>2 DEF CardFields
  <2>4. Ready(a) /\ a.dma = d.dma /\ a.blocks = <<>>
    BY <2>2, <2>3, ReadyAside
  <2> DEFINE auto == cmd \in {"B4", "C4"}
             sixteen == cmd \in {"B0", "B4"}
  <2>6. Answer(d, cmd, params) = StartPlayback(a, auto, sixteen)
    BY <1>10, <2>1 DEF Answer
  <2>7. AtStart(a.dma[IF sixteen THEN "dma16" ELSE "dma8"]) /\ Reply(d, cmd, params[1]) = <<>>
    BY <1>10, <2>4 DEF Starts, AtRest, StartChannel, Reply
  <2>5. auto \in BOOLEAN /\ sixteen \in BOOLEAN
    OBVIOUS
  <2> HIDE DEF auto, sixteen
  <2>8. /\ Ready(StartPlayback(a, auto, sixteen))
        /\ \A f \in {"fifo", "need_params", "reset_pending", "blocks"} :
              StartPlayback(a, auto, sixteen)[f] = a[f]
    BY <2>4, <2>5, <2>7, ReadyStart
  <2> QED
    BY <2>3, <2>6, <2>7, <2>8
<1>11. CASE cmd \notin {"E0", "E1", "E8", "D8", "D1", "D3", "D0", "D5", "D4", "D6", "DA", "D9",
                        "F2", "14", "91", "1C", "90", "B0", "B4", "C0", "C4"}
  <2>1. Answer(d, cmd, params) = d /\ Reply(d, cmd, params[1]) = <<>>
    BY <1>11 DEF Answer, Reply
  <2> QED
    BY <2>1
<1> QED
  BY <1>1, <1>2, <1>3, <1>4, <1>5, <1>6, <1>7, <1>8, <1>9, <1>10, <1>11

-----------------------------------------------------------------------------
(* The driver. *)
Bytes == Commands \cup {"mono", "stereo", "lo", "hi"}
DspFields == {"need_params", "cmd", "params", "reset_pending", "fifo", "speaker"}

\* The command the DSP is to carry out once it has the rest of it.
Doing(d, cmd, rest, replies) ==
    /\ replies = Reply(d, cmd, rest[1])
    /\ cmd \in Starts => AtRest(d, cmd)

\* How far the DSP is with what the driver is sending.
InStep(d, bytes, replies) ==
    /\ bytes = <<>> => d.need_params = 0 /\ d.fifo = replies
    /\ bytes # <<>> => d.fifo = <<>>
    /\ bytes # <<>> /\ d.need_params = 0 =>
          /\ Len(Tail(bytes)) = Parameters(Head(bytes))
          /\ Doing(d, Head(bytes), Tail(bytes), replies)
    /\ d.need_params # 0 =>
          /\ d.need_params = Len(bytes)
          /\ Doing(d, d.cmd, bytes, replies)
          /\ d.cmd = "E0" => d.params = <<>> /\ Len(bytes) = 1

Resets(d, bytes, replies) == bytes = <<>> /\ replies = <<"AA">>

\* What holds of the card and its driver.
CardInv ==
    /\ Ready(c) /\ sending \in Seq(Bytes)
    /\ IF c.reset_pending THEN Resets(c, sending, expected) ELSE InStep(c, sending, expected)

LEMMA EmptyTail == ASSUME NEW S, NEW q \in Seq(S), q # <<>>
                   PROVE  /\ Len(q) \in Nat /\ Len(q) > 0 /\ Tail(q) \in Seq(S)
                          /\ Len(Tail(q)) = Len(q) - 1 /\ Head(q) \in S /\ Head(q) = q[1]
                          /\ (Tail(q) = <<>> <=> Len(q) = 1)
<1>1. /\ Len(q) \in Nat /\ Tail(q) \in Seq(S) /\ Head(q) \in S /\ Head(q) = q[1]
      /\ Len(Tail(q)) = Len(q) - 1 /\ Len(q) # 0
  BY HeadTailProperties, EmptySeq
<1>2. Tail(q) = <<>> <=> Len(Tail(q)) = 0
  BY <1>1, EmptySeq
<1> QED
  BY <1>1, <1>2

LEMMA SameReply ==
    ASSUME NEW d, NEW e, d.speaker = e.speaker, NEW cmd, NEW p, NEW q, cmd = "E0" => p = q
    PROVE  Reply(d, cmd, p) = Reply(e, cmd, q)
  BY DEF Reply

\* A step before which the driver has seen no block end.
LEMMA CardReady ==
    ASSUME NEW d, Ready(d)
    PROVE  LET e == [d EXCEPT !.blocks = <<>>]
           IN  Ready(e) /\ e.blocks = <<>> /\ \A f \in CardFields \ {"blocks"} : e[f] = d[f]
<1>1. PICK e : e = [d EXCEPT !.blocks = <<>>]
  OBVIOUS
<1>2. /\ e = [f \in CardFields |-> e[f]] /\ e.blocks = <<>>
      /\ \A f \in CardFields \ {"blocks"} : e[f] = d[f]
  BY <1>1 DEF Ready, IsCard, CardFields
<1>3. /\ e.dma = d.dma /\ e.fetched = d.fetched /\ e.mode_16bit = d.mode_16bit
      /\ e.have = d.have /\ e.playing = d.playing
  BY <1>2 DEF CardFields
<1>4. <<>> \in Seq(Seq(Nat)) /\ DOMAIN <<>> = {}
  OBVIOUS
<1>5. IsCard(e) /\ BlocksPlayed(e)
  BY <1>2, <1>3, <1>4 DEF Ready, IsCard, BlocksPlayed
<1>6. InPlace(d) => InPlace(e)
  BY <1>3 DEF InPlace, Active, active_dma, Base, Last, Fetched
<1>7. Ready(e)
  BY <1>3, <1>5, <1>6 DEF Ready
<1> QED
  BY <1>1, <1>2, <1>7

\* What plays, and what else the driver writes, is not in the DSP's way.
LEMMA StillInStep ==
    ASSUME NEW d, NEW e, NEW bytes, NEW replies, InStep(d, bytes, replies),
           \A f \in DspFields : e[f] = d[f],
           bytes = <<>> \/ \A cmd \in Starts : AtRest(d, cmd) => AtRest(e, cmd)
    PROVE  InStep(e, bytes, replies)
<1>1. /\ e.need_params = d.need_params /\ e.cmd = d.cmd /\ e.params = d.params
      /\ e.fifo = d.fifo /\ e.speaker = d.speaker
  BY DEF DspFields
<1>2. ASSUME bytes # <<>>, NEW cmd, NEW rest, Doing(d, cmd, rest, replies)
      PROVE  Doing(e, cmd, rest, replies)
  <2>1. Reply(d, cmd, rest[1]) = Reply(e, cmd, rest[1])
    BY <1>1, SameReply
  <2> QED
    BY <1>2, <2>1 DEF Doing
<1>3. ASSUME d.need_params # 0 PROVE bytes # <<>>
  BY <1>3 DEF InStep
<1> QED
  BY <1>1, <1>2, <1>3 DEF InStep

\* The DSP takes a byte for what the driver means.
LEMMA Sends ==
    ASSUME NEW d, Ready(d), d.blocks = <<>>, NEW bytes \in Seq(Bytes), bytes # <<>>, NEW replies,
           InStep(d, bytes, replies)
    PROVE  LET e == DspWrite(d, Head(bytes))
           IN  Ready(e) /\ e.reset_pending = d.reset_pending /\ InStep(e, Tail(bytes), replies)
<1> DEFINE v == Head(bytes)
           rest == Tail(bytes)
           n == d.need_params
           collected == Append(d.params, v)
<1>1. /\ Len(bytes) \in Nat /\ Len(bytes) > 0 /\ Len(rest) = Len(bytes) - 1 /\ v = bytes[1]
      /\ (rest = <<>> <=> Len(bytes) = 1) /\ d.fifo = <<>>
  BY EmptyTail DEF InStep
<1>2. n # 0 => n = Len(bytes) /\ Doing(d, d.cmd, bytes, replies)
               /\ (d.cmd = "E0" => d.params = <<>> /\ Len(bytes) = 1)
  BY DEF InStep
<1>3. n = 0 => Len(rest) = Parameters(v) /\ Doing(d, v, rest, replies)
  BY DEF InStep
<1>4. Parameters(v) \in Nat /\ Parameters("E0") = 1
  BY DEF Parameters
\* A card of which only what the DSP was told has changed.
<1>5. ASSUME NEW e, e = [f \in CardFields |-> e[f]],
             \A f \in CardFields \ {"cmd", "need_params", "params"} : e[f] = d[f]
      PROVE  Ready(e) /\ e.blocks = <<>> /\ e.fifo = <<>> /\ e.reset_pending = d.reset_pending
             /\ e.speaker = d.speaker /\ (\A cmd : AtRest(d, cmd) => AtRest(e, cmd))
  <2>1. \A f \in {"dma", "mode_16bit", "fetched", "have", "blocks", "playing", "fifo",
                  "reset_pending", "speaker"} : e[f] = d[f]
    BY <1>5 DEF CardFields
  <2>2. Ready(e)
    BY <1>5, <2>1, ReadyAside
  <2>3. e.dma = d.dma /\ e.playing = d.playing
    BY <2>1
  <2> QED
    BY <1>1, <2>1, <2>2, <2>3 DEF AtRest
<1>6. CASE n # 0 /\ n > 1
  <2>1. PICK e : e = [d EXCEPT !.params = collected, !.need_params = n - 1]
    OBVIOUS
  <2>2. DspWrite(d, v) = e
    BY <1>6, <2>1 DEF DspWrite
  <2>3. /\ e = [f \in CardFields |-> e[f]]
        /\ \A f \in CardFields \ {"cmd", "need_params", "params"} : e[f] = d[f]
        /\ e.cmd = d.cmd /\ e.need_params = n - 1
    BY <2>1 DEF Ready, IsCard, CardFields
  <2>4. Ready(e) /\ e.fifo = <<>> /\ e.reset_pending = d.reset_pending /\ e.speaker = d.speaker
        /\ (\A cmd : AtRest(d, cmd) => AtRest(e, cmd))
    BY <1>5, <2>3
  <2>5. d.cmd # "E0" /\ rest # <<>> /\ e.need_params = Len(rest) /\ e.need_params # 0
    BY <1>1, <1>2, <1>6, <2>3
  <2>6. Doing(e, e.cmd, rest, replies)
    <3>1. Reply(d, d.cmd, bytes[1]) = Reply(e, e.cmd, rest[1])
      BY <2>3, <2>4, <2>5, SameReply
    <3> QED
      BY <1>2, <1>6, <2>3, <2>4, <3>1 DEF Doing
  <2>7. InStep(e, rest, replies)
    BY <2>3, <2>4, <2>5, <2>6 DEF InStep
  <2> QED
    BY <2>2, <2>4, <2>7
<1>7. CASE n = 1
  <2>1. PICK e : e = [d EXCEPT !.params = collected, !.need_params = n - 1]
    OBVIOUS
  <2>2. DspWrite(d, v) = Answer(e, d.cmd, collected)
    <3>1. ~ (n > 1) /\ d.need_params = 1
      BY <1>7
    <3> QED
      BY <2>1, <3>1, Zenon DEF DspWrite
  <2>3. /\ e = [f \in CardFields |-> e[f]]
        /\ \A f \in CardFields \ {"cmd", "need_params", "params"} : e[f] = d[f]
        /\ e.need_params = n - 1
    BY <2>1 DEF Ready, IsCard, CardFields
  <2>a. e.need_params = 0
    BY <1>7, <2>3
  <2>4. Ready(e) /\ e.blocks = <<>> /\ e.fifo = <<>> /\ e.reset_pending = d.reset_pending
        /\ e.speaker = d.speaker /\ (\A cmd : AtRest(d, cmd) => AtRest(e, cmd))
    BY <1>5, <2>3
  <2>5. d.cmd \in Starts => AtRest(e, d.cmd)
    BY <1>2, <1>7, <2>4 DEF Doing
  <2>6. /\ Ready(Answer(e, d.cmd, collected))
        /\ Answer(e, d.cmd, collected).fifo = Reply(e, d.cmd, collected[1])
        /\ Answer(e, d.cmd, collected).need_params = 0
        /\ Answer(e, d.cmd, collected).reset_pending = d.reset_pending
    <3>1. PICK p : p = collected
      OBVIOUS
    <3>2. /\ Ready(Answer(e, d.cmd, p)) /\ Answer(e, d.cmd, p).fifo = Reply(e, d.cmd, p[1])
          /\ Answer(e, d.cmd, p).need_params = e.need_params
          /\ Answer(e, d.cmd, p).reset_pending = e.reset_pending
      BY <2>4, <2>5, CommandAnswers
    <3> QED
      BY <2>4, <2>a, <3>1, <3>2
  <2>7. rest = <<>>
    <3>1. n = Len(bytes)
      BY <1>2, <1>7
    <3>2. Len(bytes) = 1
      BY <1>7, <3>1
    <3> QED
      BY <1>1, <3>2
  <2>8. Reply(e, d.cmd, collected[1]) = replies
    <3>1. d.cmd = "E0" => collected[1] = bytes[1]
      <4> SUFFICES ASSUME d.cmd = "E0" PROVE collected[1] = v
        BY <1>1
      <4>1. d.params = <<>>
        BY <1>2, <1>7
      <4>2. Append(<<>>, v)[1] = v
        OBVIOUS
      <4> QED
        BY <4>1, <4>2
    <3>2. Reply(d, d.cmd, bytes[1]) = Reply(e, d.cmd, collected[1])
      BY <2>4, <3>1 DEF Reply
    <3> QED
      BY <1>2, <1>7, <3>2 DEF Doing
  <2>9. InStep(Answer(e, d.cmd, collected), rest, replies)
    BY <2>6, <2>7, <2>8 DEF InStep
  <2> QED
    BY <2>2, <2>6, <2>9
<1>8. CASE n = 0
  <2>1. PICK e : e = [d EXCEPT !.cmd = v, !.params = <<>>, !.need_params = Parameters(v)]
    OBVIOUS
  <2>2. DspWrite(d, v) = IF Parameters(v) = 0 THEN Answer(e, v, <<>>) ELSE e
    BY <1>8, <2>1 DEF DspWrite
  <2>3. /\ e = [f \in CardFields |-> e[f]]
        /\ \A f \in CardFields \ {"cmd", "need_params", "params"} : e[f] = d[f]
        /\ e.need_params = Parameters(v) /\ e.cmd = v /\ e.params = <<>>
    BY <2>1 DEF Ready, IsCard, CardFields
  <2>4. Ready(e) /\ e.blocks = <<>> /\ e.fifo = <<>> /\ e.reset_pending = d.reset_pending
        /\ e.speaker = d.speaker /\ (\A cmd : AtRest(d, cmd) => AtRest(e, cmd))
    BY <1>5, <2>3
  <2>5. Doing(e, v, rest, replies)
    <3>1. Reply(d, v, rest[1]) = Reply(e, v, rest[1])
      BY <2>4 DEF Reply
    <3> QED
      BY <1>3, <1>8, <2>4, <3>1 DEF Doing
  <2>6. CASE Parameters(v) = 0
    <3>1. v \in Starts => AtRest(e, v)
      BY <2>5 DEF Doing
    <3> DEFINE none == <<>>
    <3>2. PICK a : a = Answer(e, v, none)
      OBVIOUS
    <3>3. Ready(a) /\ a.fifo = Reply(e, v, none[1]) /\ a.need_params = 0
          /\ a.reset_pending = d.reset_pending
      <4> HIDE DEF none
      <4> QED
        BY <2>3, <2>4, <2>6, <3>1, <3>2, CommandAnswers
    <3>4. v # "E0"
      BY <1>4, <2>6
    <3>5. Reply(e, v, none[1]) = Reply(e, v, rest[1])
      <4> HIDE DEF none
      <4> QED
        BY <3>4, SameReply
    <3>6. a.fifo = replies
      BY <2>5, <3>3, <3>5 DEF Doing
    <3>7. rest = <<>>
      BY <1>1, <1>3, <1>8, <2>6
    <3>8. InStep(a, rest, replies)
      BY <3>3, <3>6, <3>7 DEF InStep
    <3> QED
      BY <2>2, <2>6, <3>2, <3>3, <3>8
  <2>7. CASE Parameters(v) # 0
    <3>1. e.need_params # 0 /\ e.need_params = Len(rest) /\ rest # <<>>
      BY <1>1, <1>3, <1>8, <2>3, <2>7
    <3>2. e.cmd = "E0" => e.params = <<>> /\ Len(rest) = 1
      BY <1>3, <1>4, <1>8, <2>3
    <3>3. Doing(e, e.cmd, rest, replies)
      BY <2>3, <2>5
    <3>4. InStep(e, rest, replies)
      BY <2>4, <3>1, <3>2, <3>3 DEF InStep
    <3> QED
      BY <2>2, <2>4, <2>7, <3>4
  <2> QED
    BY <2>6, <2>7
<1> QED
  <2>1. n = 0 \/ n = 1 \/ (n # 0 /\ n > 1)
    BY <1>1, <1>2
  <2> QED
    BY <2>1, <1>6, <1>7, <1>8

\* A write to the DMA controller.
Ports == {"addr", "count", "mask", "clear"}
WrittenTo(d, e, port) ==
    /\ IsCard(e) /\ \A f \in CardFields \ {"dma", "ff"} : e[f] = d[f]
    /\ port = "mask" => \A o \in Channels : /\ e.dma[o].base_addr = d.dma[o].base_addr
                                            /\ e.dma[o].base_count = d.dma[o].base_count
                                            /\ e.dma[o].cur_addr = d.dma[o].cur_addr
                                            /\ e.dma[o].cur_count = d.dma[o].cur_count
LEMMA DmaWritten ==
    ASSUME NEW d, IsCard(d), NEW ch \in Channels, NEW v \in 0 .. Byte - 1, NEW port \in Ports
    PROVE  WrittenTo(d, DmaWrite(d, ch, port, v), port)
<1> DEFINE chan == d.dma[ch]
           ff == d.ff[ch]
           base == Half(chan.base_addr, ff, v)
           loaded == Half(chan.base_count, ff, v)
<1>1. chan \in ChanType /\ d.dma \in [Channels -> ChanType]
  BY DEF IsCard
<1>2. ASSUME NEW r \in Register, NEW b PROVE Half(r, b, v) \in Register
  BY DEF Half, Register
<1>3. /\ base \in Register /\ loaded \in Register
      /\ Value(base) \in Words /\ Value(loaded) \in Words
  <2>1. chan.base_addr \in Register /\ chan.base_count \in Register
    BY <1>1 DEF ChanType
  <2> QED
    BY <1>2, <2>1, WordRange
<1>4. PICK new : new = Written(chan, port, ff, v)
  OBVIOUS
<1>5. /\ new \in ChanType
      /\ port = "mask" => /\ new.base_addr = chan.base_addr /\ new.base_count = chan.base_count
                         /\ new.cur_addr = chan.cur_addr /\ new.cur_count = chan.cur_count
  <2>1. CASE port = "addr"
    <3>1. new = [chan EXCEPT !.base_addr = base, !.cur_addr = Value(base)]
      BY <1>4, <2>1 DEF Written
    <3> HIDE DEF base
    <3> QED
      BY <1>1, <1>3, <2>1, <3>1 DEF ChanType
  <2>2. CASE port = "count"
    <3>1. new = [chan EXCEPT !.base_count = loaded, !.cur_count = Value(loaded)]
      BY <1>4, <2>2 DEF Written
    <3> HIDE DEF loaded
    <3> QED
      BY <1>1, <1>3, <2>2, <3>1 DEF ChanType
  <2>3. CASE port = "mask"
    <3>1. new = [chan EXCEPT !.masked = (v = 1)]
      BY <1>4, <2>3 DEF Written
    <3> QED
      BY <1>1, <3>1 DEF ChanType
  <2>4. CASE port = "clear"
    <3>1. new = chan
      BY <1>4, <2>4 DEF Written
    <3> QED
      BY <1>1, <3>1
  <2> QED
    BY <2>1, <2>2, <2>3, <2>4 DEF Ports
<1>6. PICK g : g = DmaWrite(d, ch, port, v)
  OBVIOUS
<1>7. PICK halves : halves = [d.ff EXCEPT ![ch] = NextHalf(port, ff)]
  OBVIOUS
<1> HIDE DEF base, loaded
<1>8. /\ g = [f \in CardFields |-> g[f]]
      /\ \A f \in CardFields \ {"dma", "ff"} : g[f] = d[f]
      /\ g.dma = [d.dma EXCEPT ![ch] = new]
  <2>1. g = [d EXCEPT !.dma = [d.dma EXCEPT ![ch] = new], !.ff = halves]
    BY <1>4, <1>6, <1>7 DEF DmaWrite
  <2> QED
    BY <2>1 DEF IsCard, CardFields
<1>9. /\ g.dma \in [Channels -> ChanType] /\ g.dma[ch] = new
      /\ \A o \in Channels \ {ch} : g.dma[o] = d.dma[o]
  BY <1>1, <1>5, <1>8
<1>10. g.blocks = d.blocks /\ g.fetched = d.fetched
  BY <1>8 DEF CardFields
<1>11. IsCard(g)
  BY <1>8, <1>9, <1>10 DEF IsCard
<1>12. port = "mask" => \A o \in Channels : /\ g.dma[o].base_addr = d.dma[o].base_addr
                                            /\ g.dma[o].base_count = d.dma[o].base_count
                                            /\ g.dma[o].cur_addr = d.dma[o].cur_addr
                                            /\ g.dma[o].cur_count = d.dma[o].cur_count
  BY <1>5, <1>9
<1> QED
  BY <1>6, <1>8, <1>11, <1>12 DEF WrittenTo

LEMMA TwoHalves == ASSUME NEW a \in Words
                   PROVE  a % Byte \in 0 .. Byte - 1 /\ a \div Byte \in 0 .. Byte - 1
<1>1. Byte \in Nat /\ Byte > 0 /\ Byte * Byte \in Nat /\ a \in Nat /\ a < Byte * Byte
  BY WordRange DEF Words
<1>2. PICK q \in Int, r \in 0 .. Byte - 1 : a = Byte * q + r /\ q = a \div Byte /\ r = a % Byte
  <2>1. a % Byte \in 0 .. Byte - 1 /\ a \div Byte \in Int /\ a = Byte * (a \div Byte) + (a % Byte)
    BY <1>1
  <2> QED
    BY <2>1
<1>3. CASE q >= Byte
  <2>1. PICK k \in Nat : q = Byte + k
    <3>1. q - Byte \in Nat /\ q = Byte + (q - Byte)
      BY <1>1, <1>2, <1>3
    <3> QED
      BY <3>1
  <2>2. Byte * k \in Nat /\ Byte * q = Byte * Byte + Byte * k
    BY <1>1, <2>1
  <2> QED
    BY <1>1, <1>2, <2>2
<1>4. CASE q < 0
  <2>1. PICK k \in Nat : q = (0 - 1) - k
    <3>1. (0 - 1) - q \in Nat /\ q = (0 - 1) - ((0 - 1) - q)
      BY <1>2, <1>4
    <3> QED
      BY <3>1
  <2>2. Byte * k \in Nat /\ Byte * q = (0 - Byte) - Byte * k
    BY <1>1, <2>1
  <2> QED
    BY <1>1, <1>2, <2>2
<1> QED
  BY <1>1, <1>2, <1>3, <1>4

\* What a command is sent as.
LEMMA SentAs ==
    ASSUME NEW cmd \in Commands, NEW param \in {"mono", "stereo"}
    PROVE  LET s == <<cmd>> \o SubSeq(<<param, "lo", "hi">>, 1, Parameters(cmd))
           IN  /\ s \in Seq(Bytes) /\ s # <<>> /\ Head(s) = cmd
               /\ Len(Tail(s)) = Parameters(cmd) /\ (cmd = "E0" => Tail(s)[1] = param)
<1> DEFINE all == <<param, "lo", "hi">>
           n == Parameters(cmd)
           part == SubSeq(all, 1, n)
           s == <<cmd>> \o part
<1>1. n \in 0 .. 3 /\ (cmd = "E0" => n = 1)
  BY DEF Parameters
<1>2. all \in Seq(Bytes) /\ Len(all) = 3 /\ all[1] = param /\ <<cmd>> \in Seq(Bytes)
      /\ Len(<<cmd>>) = 1 /\ <<cmd>>[1] = cmd
  BY DEF Bytes
<1> HIDE DEF all, n
<1>3. /\ part \in Seq(Bytes) /\ Len(part) = n
      /\ \A i \in 1 .. n : part[i] = all[i]
  <2>1. \A i \in 1 .. n : all[i] \in Bytes
    BY <1>1, <1>2
  <2>a. PICK one \in Int : one = 1
    OBVIOUS
  <2>2. Len(part) = n /\ \A i \in 1 .. n : part[i] = all[i + 1 - 1]
    BY <1>1, <1>2, SubSeqProperties
  <2>3. part \in Seq(Bytes)
    <3>1. SubSeq(all, one, n) \in Seq(Bytes)
      BY <1>1, <2>1, <2>a, SubSeqProperties
    <3> QED
      BY <2>a, <3>1
  <2> QED
    BY <1>1, <2>2, <2>3
<1> HIDE DEF part
<1>4. /\ s \in Seq(Bytes) /\ Len(s) = 1 + n
      /\ \A i \in 1 .. 1 + n : s[i] = IF i <= 1 THEN <<cmd>>[i] ELSE part[i - 1]
  BY <1>1, <1>2, <1>3, ConcatProperties
<1>5. s[1] = cmd /\ (cmd = "E0" => s[2] = param)
  BY <1>1, <1>2, <1>3, <1>4
<1> HIDE DEF s
<1>6. s # <<>>
  BY <1>1, <1>4
<1>7. Head(s) = cmd /\ Len(Tail(s)) = n /\ (n = 1 => Tail(s)[1] = s[2])
  BY <1>1, <1>4, <1>5, <1>6, HeadTailProperties
<1> QED
  BY <1>1, <1>4, <1>5, <1>6, <1>7 DEF s, part, all, n

LEMMA IdleReady == ASSUME NEW d, IsCard(d), d.blocks = <<>>, d.have = TRUE, ~ d.playing PROVE Ready(d)
<1>1. DOMAIN <<>> = {}
  OBVIOUS
<1> QED
  BY <1>1 DEF Ready, BlocksPlayed

LEMMA CardStarts == CardInit => CardInv
<1> SUFFICES ASSUME CardInit PROVE CardInv
  OBVIOUS
<1>1. Byte \in Nat /\ Byte > 0 /\ Byte * Byte \in Nat /\ Byte * Byte > 0
  BY WordRange
<1>2. Chan \in ChanType
  BY <1>1 DEF Chan, ChanType, Register, Words
<1>3. IsCard(c)
  <2>1. c = [f \in CardFields |-> c[f]]
    BY DEF CardInit, CardFields
  <2>2. c.dma = [ch \in Channels |-> Chan] /\ c.blocks = <<>> /\ c.fetched = <<>>
    BY DEF CardInit
  <2>3. c.dma \in [Channels -> ChanType] /\ <<>> \in Seq(Nat) /\ <<>> \in Seq(Seq(Nat))
    BY <1>2, <2>2
  <2> QED
    BY <2>1, <2>2, <2>3 DEF IsCard
<1>4. c.blocks = <<>> /\ c.have = TRUE /\ ~ c.playing /\ ~ c.reset_pending
      /\ c.need_params = 0 /\ c.fifo = <<>>
  BY DEF CardInit
<1>5. Ready(c)
  BY <1>3, <1>4, IdleReady
<1>6. sending = <<>> /\ expected = <<>> /\ <<>> \in Seq(Bytes)
  BY DEF CardInit
<1>7. InStep(c, sending, expected)
  BY <1>4, <1>6 DEF InStep
<1> QED
  BY <1>4, <1>5, <1>6, <1>7 DEF CardInv

LEMMA CardSteps == CardInv /\ [CardNext]_card => CardInv'
<1> SUFFICES ASSUME CardInv, [CardNext]_card PROVE CardInv'
  OBVIOUS
<1>1. PICK d : d = Card
  OBVIOUS
<1>2. Ready(d) /\ d.blocks = <<>> /\ \A f \in CardFields \ {"blocks"} : d[f] = c[f]
  BY <1>1, CardReady DEF CardInv, Card
<1>3. /\ IsCard(d) /\ d.have = TRUE /\ d.playing = c.playing /\ d.reset_pending = c.reset_pending
      /\ d.fifo = c.fifo /\ d.dma = c.dma /\ d.speaker = c.speaker
      /\ d.need_params = c.need_params /\ \A f \in DspFields : d[f] = c[f]
  BY <1>2 DEF Ready, CardFields, DspFields
<1>4. /\ sending \in Seq(Bytes)
      /\ d.reset_pending => Resets(d, sending, expected)
      /\ ~ d.reset_pending => InStep(d, sending, expected)
  <2>1. \A cmd : AtRest(c, cmd) => AtRest(d, cmd)
    BY <1>3 DEF AtRest
  <2>2. InStep(c, sending, expected) => InStep(d, sending, expected)
    BY <1>3, <2>1, StillInStep
  <2> QED
    BY <1>3, <2>2 DEF CardInv, Resets
\* A step that the DSP has no part in.
<1>5. ASSUME Ready(c'), \A f \in DspFields : c'[f] = d[f], sending' = sending, expected' = expected,
             sending = <<>> \/ \A cmd \in Starts : AtRest(d, cmd) => AtRest(c', cmd)
      PROVE  CardInv'
  <2>1. PICK e : e = c'
    OBVIOUS
  <2>2. InStep(d, sending, expected) => InStep(e, sending, expected)
    BY <1>5, <2>1, StillInStep
  <2>3. e.reset_pending = d.reset_pending
    BY <1>5, <2>1 DEF DspFields
  <2> QED
    BY <1>4, <1>5, <2>1, <2>2, <2>3 DEF CardInv, Resets
<1>6. ASSUME NEW ch \in Used, NEW buffer \in Buffers, ProgramDma(ch, buffer) PROVE CardInv'
  <2>1. /\ ch \in Channels /\ buffer.addr \in Words /\ buffer.count \in Words
        /\ 0 \in 0 .. Byte - 1
    BY SoundBlasterAssumption, WordRange DEF Channels, Words
  <2>2. PICK a_lo \in 0 .. Byte - 1, a_hi \in 0 .. Byte - 1 :
            a_lo = buffer.addr % Byte /\ a_hi = buffer.addr \div Byte
    BY <2>1, TwoHalves
  <2>3. PICK c_lo \in 0 .. Byte - 1, c_hi \in 0 .. Byte - 1 :
            c_lo = buffer.count % Byte /\ c_hi = buffer.count \div Byte
    BY <2>1, TwoHalves
  <2> DEFINE Same(e) == IsCard(e) /\ \A f \in CardFields \ {"dma", "ff"} : e[f] = d[f]
  <2>4. ASSUME NEW e, Same(e), NEW port \in Ports,
               NEW v \in 0 .. Byte - 1
        PROVE  Same(DmaWrite(e, ch, port, v))
    <3>1. PICK f : f = DmaWrite(e, ch, port, v)
      OBVIOUS
    <3>2. WrittenTo(e, f, port)
      BY <2>1, <2>4, <3>1, DmaWritten
    <3>3. IsCard(f) /\ \A g \in CardFields \ {"dma", "ff"} : f[g] = e[g]
      BY <3>2 DEF WrittenTo
    <3> QED
      BY <2>4, <3>1, <3>3
  <2>5. Same(d)
    BY <1>3
  <2> HIDE DEF Same
  <2>6. PICK e1 : e1 = DmaWrite(d, ch, "clear", 0) /\ Same(e1)
    BY <2>1, <2>4, <2>5 DEF Ports
  <2>7. PICK e2 : e2 = DmaWrite(e1, ch, "addr", a_lo) /\ Same(e2)
    BY <2>4, <2>6 DEF Ports
  <2>8. PICK e3 : e3 = DmaWrite(e2, ch, "addr", a_hi) /\ Same(e3)
    BY <2>4, <2>7 DEF Ports
  <2>9. PICK e4 : e4 = DmaWrite(e3, ch, "count", c_lo) /\ Same(e4)
    BY <2>4, <2>8 DEF Ports
  <2>10. PICK e5 : e5 = DmaWrite(e4, ch, "count", c_hi) /\ Same(e5)
    BY <2>4, <2>9 DEF Ports
  <2>11. PICK e6 : e6 = DmaWrite(e5, ch, "mask", 0) /\ Same(e6)
    BY <2>1, <2>4, <2>10 DEF Ports
  <2>12. c' = e6 /\ ~ c.playing /\ sending = <<>> /\ sending' = sending /\ expected' = expected
    BY <1>1, <1>6, <2>2, <2>3, <2>6, <2>7, <2>8, <2>9, <2>10, <2>11 DEF ProgramDma
  <2>13. /\ IsCard(e6) /\ e6.blocks = <<>> /\ e6.have = TRUE /\ ~ e6.playing
         /\ \A f \in DspFields : e6[f] = d[f]
    BY <1>2, <1>3, <2>11, <2>12 DEF Same, CardFields, DspFields
  <2>14. Ready(e6)
    BY <2>13, IdleReady
  <2> QED
    BY <1>5, <2>12, <2>13, <2>14
<1>7. ASSUME NEW ch \in Used, NEW v \in 0 .. 1, Mask(ch, v) PROVE CardInv'
  <2>1. ch \in Channels /\ v \in 0 .. Byte - 1
    BY SoundBlasterAssumption DEF Channels
  <2>2. PICK e : e = DmaWrite(d, ch, "mask", v)
    OBVIOUS
  <2>3. /\ IsCard(e) /\ \A f \in CardFields \ {"dma", "ff"} : e[f] = d[f]
        /\ \A o \in Channels : /\ e.dma[o].base_addr = d.dma[o].base_addr
                               /\ e.dma[o].base_count = d.dma[o].base_count
                               /\ e.dma[o].cur_addr = d.dma[o].cur_addr
                               /\ e.dma[o].cur_count = d.dma[o].cur_count
    <3>1. IsCard(d) /\ "mask" \in Ports
      BY <1>3 DEF Ports
    <3>2. WrittenTo(d, e, "mask")
      BY <2>1, <2>2, <3>1, DmaWritten
    <3> QED
      BY <3>2 DEF WrittenTo
  <2>4. /\ \A f \in {"mode_16bit", "fetched", "have", "blocks"} : e[f] = d[f]
        /\ e.playing = d.playing /\ \A f \in DspFields : e[f] = d[f]
    BY <2>3 DEF CardFields, DspFields
  <2>5. e = [f \in CardFields |-> e[f]] /\ e.dma \in [Channels -> ChanType]
    BY <2>3 DEF IsCard
  <2>6. Ready(e)
    BY <1>2, <2>3, <2>4, <2>5, ReadyStays
  <2>7. \A cmd \in Starts : AtRest(d, cmd) => AtRest(e, cmd)
    BY <2>3, <2>4 DEF AtRest, AtStart, StartChannel, Channels
  <2>8. c' = e /\ sending' = sending /\ expected' = expected
    BY <1>1, <1>7, <2>2 DEF Mask
  <2> QED
    BY <1>5, <2>4, <2>6, <2>7, <2>8
<1>8. ASSUME NEW ch \in Used, CountRead(ch) PROVE CardInv'
  <2>1. PICK e : e = [d EXCEPT !.ff[ch] = ~ @]
    OBVIOUS
  <2>2. e = [f \in CardFields |-> e[f]] /\ \A f \in CardFields \ {"ff"} : e[f] = d[f]
    BY <1>3, <2>1 DEF IsCard, CardFields
  <2>3. /\ \A f \in {"dma", "mode_16bit", "fetched", "have", "blocks"} : e[f] = d[f]
        /\ e.playing = d.playing /\ e.dma = d.dma /\ \A f \in DspFields : e[f] = d[f]
    BY <2>2 DEF CardFields, DspFields
  <2>4. Ready(e)
    BY <1>2, <2>2, <2>3, ReadyAside
  <2>5. \A cmd \in Starts : AtRest(d, cmd) => AtRest(e, cmd)
    BY <2>3 DEF AtRest
  <2>6. c' = e /\ sending' = sending /\ expected' = expected
    BY <1>1, <1>8, <2>1 DEF CountRead
  <2> QED
    BY <1>5, <2>3, <2>4, <2>5, <2>6
<1>9. ASSUME DmaStatus PROVE CardInv'
  <2>1. PICK dma : dma = [ch \in Channels |-> [d.dma[ch] EXCEPT !.tc = FALSE]]
    OBVIOUS
  <2>2. /\ dma \in [Channels -> ChanType]
        /\ \A o \in Channels : /\ dma[o].base_addr = d.dma[o].base_addr
                               /\ dma[o].base_count = d.dma[o].base_count
                               /\ dma[o].cur_addr = d.dma[o].cur_addr
                               /\ dma[o].cur_count = d.dma[o].cur_count
    <3>1. ASSUME NEW o \in Channels
          PROVE  /\ dma[o] \in ChanType
                 /\ dma[o].base_addr = d.dma[o].base_addr /\ dma[o].base_count = d.dma[o].base_count
                 /\ dma[o].cur_addr = d.dma[o].cur_addr /\ dma[o].cur_count = d.dma[o].cur_count
      <4>1. d.dma[o] \in ChanType /\ dma[o] = [d.dma[o] EXCEPT !.tc = FALSE]
        BY <1>3, <2>1 DEF IsCard
      <4> QED
        BY <4>1 DEF ChanType
    <3> QED
      BY <2>1, <3>1
  <2>3. PICK e : e = [d EXCEPT !.dma = dma]
    OBVIOUS
  <2>4. /\ e = [f \in CardFields |-> e[f]] /\ e.dma = dma
        /\ \A f \in CardFields \ {"dma"} : e[f] = d[f]
    BY <1>3, <2>3 DEF IsCard, CardFields
  <2>5. /\ \A f \in {"mode_16bit", "fetched", "have", "blocks"} : e[f] = d[f]
        /\ e.playing = d.playing /\ \A f \in DspFields : e[f] = d[f]
    BY <2>4 DEF CardFields, DspFields
  <2>6. Ready(e)
    BY <1>2, <2>2, <2>4, <2>5, ReadyStays
  <2>7. \A cmd \in Starts : AtRest(d, cmd) => AtRest(e, cmd)
    BY <2>2, <2>4, <2>5 DEF AtRest, AtStart, StartChannel, Channels
  <2>8. c' = e /\ sending' = sending /\ expected' = expected
    BY <1>1, <1>9, <2>1, <2>3 DEF DmaStatus
  <2> QED
    BY <1>5, <2>5, <2>6, <2>7, <2>8
<1>10. ASSUME NEW cmd \in Commands, NEW param \in {"mono", "stereo"}, Command(cmd, param)
       PROVE  CardInv'
  <2>1. PICK s : s = <<cmd>> \o SubSeq(<<param, "lo", "hi">>, 1, Parameters(cmd))
    OBVIOUS
  <2>2. /\ s \in Seq(Bytes) /\ s # <<>> /\ Head(s) = cmd
        /\ Len(Tail(s)) = Parameters(cmd) /\ (cmd = "E0" => Tail(s)[1] = param)
    BY <2>1, SentAs
  <2>3. /\ sending = <<>> /\ expected = <<>> /\ ~ c.reset_pending
        /\ cmd \in Starts => ~ c.playing /\ AtStart(c.dma[StartChannel(cmd)])
        /\ sending' = s /\ expected' = Reply(c, cmd, param) /\ c' = d
    BY <1>1, <1>10, <2>1 DEF Command
  <2>4. ~ d.reset_pending /\ d.need_params = 0 /\ d.fifo = <<>>
    BY <1>3, <1>4, <2>3 DEF InStep
  <2>5. Reply(c, cmd, param) = Reply(d, cmd, Tail(s)[1])
    BY <1>3, <2>2 DEF Reply
  <2>6. Doing(d, cmd, Tail(s), Reply(c, cmd, param))
    BY <1>3, <2>3, <2>5 DEF Doing, AtRest
  <2>7. InStep(d, s, Reply(c, cmd, param))
    BY <2>2, <2>4, <2>6 DEF InStep
  <2> QED
    BY <1>2, <2>2, <2>3, <2>4, <2>7 DEF CardInv
<1>11. ASSUME SendByte PROVE CardInv'
  <2>1. /\ sending # <<>> /\ sending' = Tail(sending) /\ expected' = expected
        /\ c' = DspWrite(d, Head(sending))
    BY <1>1, <1>11 DEF SendByte
  <2>2. ~ d.reset_pending /\ InStep(d, sending, expected)
    BY <1>4, <2>1 DEF Resets
  <2>3. PICK bytes, replies : bytes = sending /\ replies = expected
    OBVIOUS
  <2>4. LET e == DspWrite(d, Head(bytes))
        IN  Ready(e) /\ e.reset_pending = d.reset_pending /\ InStep(e, Tail(bytes), replies)
    BY <1>2, <1>4, <2>1, <2>2, <2>3, Sends
  <2>5. Tail(bytes) \in Seq(Bytes)
    BY <1>4, <2>1, <2>3, EmptyTail
  <2>6. Ready(c') /\ c'.reset_pending = d.reset_pending /\ InStep(c', sending', expected')
        /\ sending' \in Seq(Bytes)
    BY <2>1, <2>3, <2>4, <2>5
  <2> QED
    BY <2>2, <2>6 DEF CardInv
<1>12. ASSUME ResetOn PROVE CardInv'
  <2>1. PICK e : e = [d EXCEPT !.reset_pending = TRUE]
    OBVIOUS
  <2>2. /\ e = [f \in CardFields |-> e[f]] /\ e.reset_pending
        /\ \A f \in CardFields \ {"reset_pending"} : e[f] = d[f]
    BY <1>3, <2>1 DEF IsCard, CardFields
  <2>3. /\ \A f \in {"dma", "mode_16bit", "fetched", "have", "blocks"} : e[f] = d[f]
        /\ e.playing = d.playing
    BY <2>2 DEF CardFields
  <2>4. Ready(e)
    BY <1>2, <2>2, <2>3, ReadyAside
  <2>5. c' = e /\ sending' = <<>> /\ expected' = <<"AA">> /\ <<>> \in Seq(Bytes)
    BY <1>1, <1>12, <2>1 DEF ResetOn
  <2> QED
    BY <2>2, <2>4, <2>5 DEF CardInv, Resets
<1>13. ASSUME ResetOff PROVE CardInv'
  <2>1. PICK e : e = [d EXCEPT !.reset_pending = FALSE, !.playing = FALSE, !.paused = FALSE,
                               !.need_params = 0, !.params = <<>>, !.cmd = "none", !.fifo = <<"AA">>]
    OBVIOUS
  <2>2. /\ e = [f \in CardFields |-> e[f]] /\ ~ e.reset_pending /\ ~ e.playing
        /\ e.need_params = 0 /\ e.fifo = <<"AA">>
        /\ \A f \in {"dma", "mode_16bit", "fetched", "have", "blocks"} : e[f] = d[f]
    BY <1>3, <2>1 DEF IsCard, CardFields
  <2>3. Ready(e)
    BY <1>2, <2>2, ReadyAside
  <2>4. c' = e /\ sending' = sending /\ expected' = expected /\ c.reset_pending
    BY <1>1, <1>3, <1>13, <2>1 DEF ResetOff, DspReset
  <2>5. sending = <<>> /\ expected = <<"AA">>
    BY <1>3, <1>4, <2>4 DEF Resets
  <2>6. InStep(e, sending, expected)
    BY <2>2, <2>5 DEF InStep
  <2> QED
    BY <1>4, <2>2, <2>3, <2>4, <2>6 DEF CardInv
<1>14. ASSUME ReadData PROVE CardInv'
  <2>1. PICK e : e = [d EXCEPT !.fifo = Tail(d.fifo)]
    OBVIOUS
  <2>2. /\ e = [f \in CardFields |-> e[f]] /\ e.fifo = Tail(d.fifo)
        /\ \A f \in CardFields \ {"fifo"} : e[f] = d[f]
    BY <1>3, <2>1 DEF IsCard, CardFields
  <2>3. /\ \A f \in {"dma", "mode_16bit", "fetched", "have", "blocks"} : e[f] = d[f]
        /\ e.playing = d.playing /\ e.need_params = d.need_params
        /\ e.reset_pending = d.reset_pending
    BY <2>2 DEF CardFields
  <2>4. Ready(e)
    BY <1>2, <2>2, <2>3, ReadyAside
  <2>5. /\ c' = e /\ sending' = sending /\ expected' = Tail(expected)
        /\ ~ d.reset_pending /\ d.fifo # <<>>
    BY <1>1, <1>3, <1>14, <2>1 DEF ReadData
  <2>6. sending = <<>> /\ d.need_params = 0 /\ d.fifo = expected
    BY <1>4, <2>5 DEF InStep
  <2>7. InStep(e, sending, Tail(expected))
    BY <2>2, <2>3, <2>6 DEF InStep
  <2> QED
    BY <1>4, <2>3, <2>4, <2>5, <2>7 DEF CardInv
<1>15. ASSUME NEW frames \in 1 .. MaxFrames, NEW step \in Steps, Render(frames, step)
       PROVE  CardInv'
  <2>1. frames \in Nat /\ step \in Nat
    BY SoundBlasterAssumption
  <2>2. PICK e : e = Rendered(d, frames, step)
    OBVIOUS
  <2>3. Streams(d, e) /\ e.have = TRUE
    BY <1>2, <2>1, <2>2, RenderedStreams
  <2>4. Ready(e) /\ \A f \in DspFields : e[f] = d[f]
    BY <2>3 DEF Streams, Ready, Kept, KeptFields, DspFields
  <2>5. ~ d.playing => e = d
    BY <2>2 DEF Rendered
  <2>6. \A cmd \in Starts : AtRest(d, cmd) => AtRest(e, cmd)
    BY <2>5 DEF AtRest
  <2>7. c' = e /\ sending' = sending /\ expected' = expected
    BY <1>1, <1>15, <2>2 DEF Render
  <2> QED
    BY <1>5, <2>4, <2>6, <2>7
<1>16. CASE UNCHANGED card
  BY <1>16 DEF card, CardInv
<1> QED
  BY <1>6, <1>7, <1>8, <1>9, <1>10, <1>11, <1>12, <1>13, <1>14, <1>15, <1>16 DEF CardNext

\* The DSP takes every byte the driver writes for what the driver means, and
\* its replies are those the driver waits for, whatever was reset half-way.
THEOREM CommandsStayInStep == CardSpec => []DspInStep
<1>1. CardInv => DspInStep
  <2> SUFFICES ASSUME CardInv, ~ c.reset_pending
               PROVE  /\ c.need_params > 0 => c.need_params = Len(sending)
                      /\ sending = <<>> => c.need_params = 0 /\ c.fifo = expected
    BY DEF DspInStep
  <2>1. InStep(c, sending, expected)
    BY DEF CardInv
  <2>2. ~ (0 > 0)
    OBVIOUS
  <2> QED
    BY <2>1, <2>2 DEF InStep
<1> QED
  BY <1>1, CardStarts, CardSteps, PTL DEF CardSpec

\* A block has been played from its first address to its last when the card
\* says that it has ended.
THEOREM BlocksArePlayed == CardSpec => []BlockEndMeansPlayed
<1>1. CardInv => BlockEndMeansPlayed
  <2> SUFFICES ASSUME CardInv PROVE BlockEndMeansPlayed
    OBVIOUS
  <2>1. IsCard(c) /\ BlocksPlayed(c)
    BY DEF CardInv, Ready
  <2>2. Last(c) \in Nat /\ Last(c) = Value(c.dma[active_dma(c)].base_count)
        /\ Base(c) = Value(c.dma[active_dma(c)].base_addr)
    BY <2>1, ActiveChannel DEF Last, Base, Active
  <2>3. ASSUME NEW i \in DOMAIN c.blocks
        PROVE  /\ Len(c.blocks[i]) >= Last(c) + 1
               /\ \A k \in 1 .. Last(c) + 1 : c.blocks[i][k] = Wrapped(Base(c) + k - 1)
    <3>1. /\ Len(c.blocks[i]) > Last(c)
          /\ \A k \in 1 .. Last(c) + 1 : c.blocks[i][k] = Wrapped(Base(c) + k - 1)
      BY <2>1 DEF BlocksPlayed
    <3>2. c.blocks[i] \in Seq(Nat)
      BY <2>1 DEF IsCard
    <3>3. Len(c.blocks[i]) \in Nat
      BY <3>2
    <3> QED
      BY <2>2, <3>1, <3>3
  <2> QED
    BY <2>2, <2>3, Zenon DEF BlockEndMeansPlayed, Wrapped
<1> QED
  BY <1>1, CardStarts, CardSteps, PTL DEF CardSpec

-----------------------------------------------------------------------------
(* The serial line: the host's bytes among those of the receive FIFO. *)

LineBytes == HostByte \cup GuestByte

\* One step of OfHost.
Pick(f, s, n) == IF n = 0 THEN << >>
                 ELSE IF s[n] \in HostByte THEN Append(f[n - 1], s[n]) ELSE f[n - 1]

LEMMA PicksExist ==
    ASSUME NEW s, NEW n \in Nat
    PROVE  \E f : f = [k \in 0 .. n |-> Pick(f, s, k)]
<1> DEFINE Upto(m) == \E f : f = [k \in 0 .. m |-> Pick(f, s, k)]
           S == {m \in Nat : Upto(m)}
<1>1. Upto(0)
  <2> DEFINE f == [k \in 0 .. 0 |-> << >>]
  <2>1. f = [k \in 0 .. 0 |-> Pick(f, s, k)]
    BY DEF Pick
  <2> QED
    BY <2>1
<1>2. ASSUME NEW m \in Nat, Upto(m) PROVE Upto(m + 1)
  <2>1. PICK f : f = [k \in 0 .. m |-> Pick(f, s, k)]
    BY <1>2
  <2> DEFINE h == [k \in 0 .. m + 1 |-> IF k <= m THEN f[k] ELSE Pick(f, s, k)]
  <2>2. ASSUME NEW k \in 0 .. m + 1 PROVE h[k] = Pick(h, s, k)
    <3>1. Pick(h, s, k) = Pick(f, s, k)
      <4>1. CASE k = 0
        BY <4>1 DEF Pick
      <4>2. CASE k # 0
        <5>1. k - 1 \in 0 .. m
          BY <4>2
        <5>2. h[k - 1] = f[k - 1]
          BY <5>1
        <5> QED
          BY <5>2 DEF Pick
      <4> QED
        BY <4>1, <4>2
    <3>2. CASE k <= m
      <4>1. \A j \in 0 .. m : f[j] = Pick(f, s, j)
        BY <2>1, Zenon
      <4>2. k \in 0 .. m /\ h[k] = f[k]
        BY <3>2
      <4> QED
        BY <3>1, <4>1, <4>2
    <3>3. CASE ~ k <= m
      <4>1. h[k] = Pick(f, s, k)
        BY <3>3
      <4> QED
        BY <3>1, <4>1
    <3> QED
      BY <3>2, <3>3
  <2>3. h = [k \in 0 .. m + 1 |-> h[k]]
    OBVIOUS
  <2> HIDE DEF h
  <2>4. h = [k \in 0 .. m + 1 |-> Pick(h, s, k)]
    BY <2>2, <2>3
  <2> QED
    BY <2>4
<1> HIDE DEF Upto
<1>3. \A m \in Nat : m \in S
  <2>1. 0 \in S /\ \A m \in Nat : m \in S => m + 1 \in S
    BY <1>1, <1>2
  <2> HIDE DEF S
  <2> QED
    BY <2>1, Induction
<1>4. Upto(n)
  BY <1>3
<1> QED
  BY <1>4 DEF Upto

\* What OfHost walks through.
Walk(s, f) == /\ f[0] = << >>
              /\ \A n \in 1 .. Len(s) : f[n] = IF s[n] \in HostByte THEN Append(f[n - 1], s[n])
                                                                    ELSE f[n - 1]
              /\ OfHost(s) = f[Len(s)]

LEMMA Walks == ASSUME NEW s, Len(s) \in Nat PROVE \E f : Walk(s, f)
<1> DEFINE of[n \in 0 .. Len(s)] == IF n = 0 THEN << >>
                                    ELSE IF s[n] \in HostByte THEN Append(of[n - 1], s[n])
                                                              ELSE of[n - 1]
<1>1. OfHost(s) = of[Len(s)]
  BY DEF OfHost
<1>2. of = CHOOSE f : f = [n \in 0 .. Len(s) |-> IF n = 0 THEN << >>
                                    ELSE IF s[n] \in HostByte THEN Append(f[n - 1], s[n])
                                                              ELSE f[n - 1]]
  OBVIOUS
<1> HIDE DEF of
<1>3. \E f : f = [n \in 0 .. Len(s) |-> IF n = 0 THEN << >>
                                    ELSE IF s[n] \in HostByte THEN Append(f[n - 1], s[n])
                                                              ELSE f[n - 1]]
  <2>1. PICK f : f = [n \in 0 .. Len(s) |-> Pick(f, s, n)]
    BY PicksExist
  <2> QED
    BY <2>1 DEF Pick
<1>4. of = [n \in 0 .. Len(s) |-> IF n = 0 THEN << >>
                                    ELSE IF s[n] \in HostByte THEN Append(of[n - 1], s[n])
                                                              ELSE of[n - 1]]
  BY <1>2, <1>3
<1>5. \A n \in 0 .. Len(s) : of[n] = IF n = 0 THEN << >>
                                    ELSE IF s[n] \in HostByte THEN Append(of[n - 1], s[n])
                                                              ELSE of[n - 1]
  BY <1>4, Zenon
<1>6. 0 \in 0 .. Len(s) /\ \A n \in 1 .. Len(s) : n \in 0 .. Len(s) /\ n # 0
  OBVIOUS
<1>7. Walk(s, of)
  BY <1>1, <1>5, <1>6, Zenon DEF Walk
<1> QED
  BY <1>7

\* LineBytes of the host, as many as there are or less.
LEMMA WalkShape ==
    ASSUME NEW s, NEW f, Walk(s, f), NEW m \in Nat, m = Len(s)
    PROVE  \A k \in Nat : k <= m => f[k] \in Seq(HostByte) /\ Len(f[k]) <= k
<1> DEFINE S == {k \in Nat : k <= m => f[k] \in Seq(HostByte) /\ Len(f[k]) <= k}
<1>1. 0 \in S
  <2>1. f[0] \in Seq(HostByte) /\ Len(f[0]) = 0
    BY EmptySeq DEF Walk
  <2>2. Len(f[0]) <= 0
    BY <2>1
  <2> QED
    BY <2>1, <2>2
<1>2. ASSUME NEW k \in Nat, k \in S PROVE k + 1 \in S
  <2> SUFFICES ASSUME k + 1 <= m
               PROVE  f[k + 1] \in Seq(HostByte) /\ Len(f[k + 1]) <= k + 1
    OBVIOUS
  <2>1. f[k] \in Seq(HostByte) /\ Len(f[k]) <= k /\ k + 1 \in 1 .. m /\ (k + 1) - 1 = k
    BY <1>2
  <2>2. f[k + 1] = IF s[k + 1] \in HostByte THEN Append(f[k], s[k + 1]) ELSE f[k]
    BY <2>1 DEF Walk
  <2> QED
    BY <2>1, <2>2
<1> HIDE DEF S
<1>3. \A k \in Nat : k \in S
  BY <1>1, <1>2, Induction
<1> QED
  BY <1>3 DEF S

LEMMA OfHostShape ==
    ASSUME NEW s, Len(s) \in Nat
    PROVE  OfHost(s) \in Seq(HostByte) /\ Len(OfHost(s)) <= Len(s)
<1>1. PICK f : Walk(s, f)
  BY Walks
<1>2. PICK m \in Nat : m = Len(s)
  OBVIOUS
<1>3. f[m] \in Seq(HostByte) /\ Len(f[m]) <= m
  BY <1>1, <1>2, WalkShape
<1> QED
  BY <1>1, <1>2, <1>3 DEF Walk

LEMMA OfHostConcat ==
    ASSUME NEW s \in Seq(LineBytes), NEW t \in Seq(LineBytes)
    PROVE  OfHost(s \o t) = OfHost(s) \o OfHost(t)
<1>1. PICK m \in Nat : m = Len(s)
  OBVIOUS
<1>2. PICK n \in Nat : n = Len(t)
  OBVIOUS
<1>3. PICK u : u = s \o t
  OBVIOUS
<1>4. /\ Len(u) = m + n
      /\ \A i \in 1 .. m : u[i] = s[i]
      /\ \A i \in 1 .. n : u[m + i] = t[i]
  <2>1. Len(u) = m + n /\ \A i \in 1 .. m + n : u[i] = IF i <= m THEN s[i] ELSE t[i - m]
    BY <1>1, <1>2, <1>3, ConcatProperties
  <2>2. \A i \in 1 .. n : m + i \in 1 .. m + n /\ ~(m + i <= m) /\ (m + i) - m = i
    OBVIOUS
  <2> QED
    BY <2>1, <2>2
<1>5. PICK fs : Walk(s, fs)
  BY <1>1, Walks
<1>6. PICK ft : Walk(t, ft)
  BY <1>2, Walks
<1>7. PICK fu : Walk(u, fu)
  BY <1>4, Walks
<1> DEFINE S == {k \in Nat : k <= m => fu[k] = fs[k]}
<1>8. \A k \in Nat : k \in S
  <2>1. 0 \in S
    BY <1>5, <1>7 DEF Walk
  <2>2. ASSUME NEW k \in Nat, k \in S PROVE k + 1 \in S
    <3> SUFFICES ASSUME k + 1 <= m PROVE fu[k + 1] = fs[k + 1]
      OBVIOUS
    <3>1. k + 1 \in 1 .. m /\ k + 1 \in 1 .. m + n /\ (k + 1) - 1 = k /\ fu[k] = fs[k]
      BY <2>2
    <3>2. fu[k + 1] = IF u[k + 1] \in HostByte THEN Append(fu[k], u[k + 1]) ELSE fu[k]
      BY <1>4, <1>7, <3>1 DEF Walk
    <3>3. fs[k + 1] = IF s[k + 1] \in HostByte THEN Append(fs[k], s[k + 1]) ELSE fs[k]
      BY <1>1, <1>5, <3>1 DEF Walk
    <3> QED
      BY <1>4, <3>1, <3>2, <3>3
  <2> HIDE DEF S
  <2> QED
    BY <2>1, <2>2, Induction
<1>9. fu[m] = OfHost(s)
  BY <1>1, <1>5, <1>8 DEF Walk
<1>10. PICK a \in Seq(HostByte) : a = OfHost(s)
  BY <1>1, OfHostShape
<1> DEFINE T == {k \in Nat : k <= n => fu[m + k] = a \o ft[k]}
<1>11. \A k \in Nat : k \in T
  <2>1. 0 \in T
    <3>1. ft[0] = << >> /\ m + 0 = m /\ a \o << >> = a
      BY <1>6, ConcatEmptySeq DEF Walk
    <3> QED
      BY <1>9, <1>10, <3>1
  <2>2. ASSUME NEW k \in Nat, k \in T PROVE k + 1 \in T
    <3> SUFFICES ASSUME k + 1 <= n PROVE fu[m + (k + 1)] = a \o ft[k + 1]
      OBVIOUS
    <3>1. PICK j \in Nat : j = m + k /\ j + 1 = m + (k + 1)
      OBVIOUS
    <3>2. /\ k + 1 \in 1 .. n /\ j + 1 \in 1 .. m + n /\ (k + 1) - 1 = k /\ (j + 1) - 1 = j
          /\ fu[j] = a \o ft[k]
      BY <2>2, <3>1
    <3>3. PICK x : x = t[k + 1] /\ x = u[j + 1]
      BY <1>4, <3>1, <3>2
    <3>4. fu[j + 1] = IF x \in HostByte THEN Append(fu[j], x) ELSE fu[j]
      BY <1>4, <1>7, <3>2, <3>3 DEF Walk
    <3>5. ft[k + 1] = IF x \in HostByte THEN Append(ft[k], x) ELSE ft[k]
      BY <1>2, <1>6, <3>2, <3>3 DEF Walk
    <3>6. PICK b \in Seq(HostByte) : b = ft[k]
      BY <1>2, <1>6, WalkShape, <3>2
    <3>7. x \in HostByte => Append(a \o b, x) = a \o Append(b, x)
      <4> SUFFICES ASSUME x \in HostByte PROVE Append(a \o b, x) = a \o Append(b, x)
        OBVIOUS
      <4>1. <<x>> \in Seq(HostByte) /\ a \o b \in Seq(HostByte)
        BY ConcatProperties
      <4>2. Append(a \o b, x) = (a \o b) \o <<x>> /\ Append(b, x) = b \o <<x>>
        BY <4>1, AppendIsConcat
      <4>3. (a \o b) \o <<x>> = a \o (b \o <<x>>)
        BY <4>1, ConcatAssociative
      <4> QED
        BY <4>2, <4>3
    <3> QED
      BY <3>1, <3>2, <3>4, <3>5, <3>6, <3>7
  <2> HIDE DEF T
  <2> QED
    BY <2>1, <2>2, Induction
<1>12. fu[m + n] = a \o ft[n]
  BY <1>11
<1> HIDE DEF S, T
<1>13. OfHost(u) = fu[m + n]
  BY <1>4, <1>7 DEF Walk
<1>14. OfHost(t) = ft[n]
  BY <1>2, <1>6 DEF Walk
<1> QED
  BY <1>3, <1>10, <1>12, <1>13, <1>14

\* Nothing is left out of what came from the host alone.
LEMMA OfHostAll ==
    ASSUME NEW s \in Seq(HostByte)
    PROVE  OfHost(s) = s
<1>1. PICK m \in Nat : m = Len(s)
  OBVIOUS
<1>2. PICK f : Walk(s, f)
  BY <1>1, Walks
<1> DEFINE S == {k \in Nat : k <= m => /\ f[k] \in Seq(HostByte) /\ Len(f[k]) = k
                                       /\ \A i \in 1 .. k : f[k][i] = s[i]}
<1>3. 0 \in S
  <2>1. f[0] = << >> /\ << >> \in Seq(HostByte) /\ Len(<< >>) = 0 /\ 1 .. 0 = {}
    BY <1>2, EmptySeq DEF Walk
  <2> QED
    BY <2>1
<1>4. ASSUME NEW k \in Nat, k \in S PROVE k + 1 \in S
  <2> SUFFICES ASSUME k + 1 <= m
               PROVE  /\ f[k + 1] \in Seq(HostByte) /\ Len(f[k + 1]) = k + 1
                      /\ \A i \in 1 .. k + 1 : f[k + 1][i] = s[i]
    OBVIOUS
  <2>1. k + 1 \in 1 .. m /\ (k + 1) - 1 = k
    OBVIOUS
  <2>2. PICK b \in Seq(HostByte) : b = f[k] /\ Len(b) = k /\ \A i \in 1 .. k : b[i] = s[i]
    BY <1>4
  <2>3. s[k + 1] \in HostByte
    BY <1>1, <2>1
  <2>4. f[k + 1] = Append(b, s[k + 1])
    BY <1>1, <1>2, <2>1, <2>2, <2>3 DEF Walk
  <2>5. /\ Append(b, s[k + 1]) \in Seq(HostByte) /\ Len(Append(b, s[k + 1])) = k + 1
        /\ \A i \in 1 .. k : Append(b, s[k + 1])[i] = b[i]
        /\ Append(b, s[k + 1])[k + 1] = s[k + 1]
    BY <2>2, <2>3, AppendProperties
  <2> QED
    BY <2>2, <2>4, <2>5
<1> HIDE DEF S
<1>5. \A k \in Nat : k \in S
  BY <1>3, <1>4, Induction
<1>6. f[m] \in Seq(HostByte) /\ Len(f[m]) = m /\ \A i \in 1 .. m : f[m][i] = s[i]
  BY <1>5 DEF S
<1>7. f[m] = s
  BY <1>1, <1>6, SeqEqual
<1> QED
  BY <1>1, <1>2, <1>7 DEF Walk

LEMMA OfHostNone ==
    ASSUME NEW b, b \notin HostByte
    PROVE  OfHost(<<b>>) = << >>
<1>1. PICK f : Walk(<<b>>, f)
  BY Walks
<1>2. Len(<<b>>) = 1 /\ <<b>>[1] = b /\ 1 \in 1 .. 1 /\ 1 - 1 = 0
  OBVIOUS
<1>3. f[1] = f[0] /\ f[0] = << >> /\ OfHost(<<b>>) = f[1]
  BY <1>1, <1>2 DEF Walk
<1> QED
  BY <1>3

LEMMA OfHostEmpty == OfHost(<< >>) = << >>
BY OfHostAll, EmptySeq

UartFields == {"rx", "fifo", "trigger", "ier", "mcr", "msr", "delta", "overrun", "threPending", "iir"}

\* What is on its way from the host: no more than the host has sent.
OnTheWay(rx, in, sent) ==
    /\ rx \in Seq(LineBytes) /\ Len(rx) <= FifoCap
    /\ in \in Seq(HostByte)
    /\ sent \in 0 .. MaxIn /\ Len(OfHost(rx)) + Len(in) <= sent

SerialShape == /\ uart = [f \in UartFields |-> uart[f]]
           /\ guest = [f \in {"buffer", "trigger", "pc"} |-> guest[f]]
           /\ guest.buffer \in Seq(GuestByte)
           /\ count = [f \in {"in", "out"} |-> count[f]]

SerialInv == SerialShape /\ OnTheWay(uart.rx, serIn, count.in)

\* The end of every operation leaves the FIFO as it is.
LEMMA StatusKeeps ==
    ASSUME NEW u, u = [f \in UartFields |-> u[f]], UpdateStatus(u)
    PROVE  uart' = [f \in UartFields |-> uart'[f]] /\ uart'.rx = u.rx
<1>1. PICK v : v = [u EXCEPT !.msr = Mirror(u)] /\ uart' = [v EXCEPT !.iir = Highest(v)]
  BY DEF UpdateStatus
<1>2. DOMAIN u = UartFields
  OBVIOUS
<1>3. DOMAIN v = UartFields /\ v.rx = u.rx
  BY <1>1, <1>2 DEF UartFields
<1>4. DOMAIN uart' = UartFields /\ uart'.rx = v.rx /\ uart' = [f \in DOMAIN uart' |-> uart'[f]]
  BY <1>1, <1>3 DEF UartFields
<1> QED
  BY <1>3, <1>4

LEMMA InvParts ==
    ASSUME SerialInv
    PROVE  /\ OfHost(uart.rx) \in Seq(HostByte) /\ Len(OfHost(uart.rx)) \in Nat
           /\ serIn \in Seq(HostByte) /\ Len(serIn) \in Nat
           /\ OfHost(uart.rx) \o serIn \in Seq(HostByte)
           /\ Len(OfHost(uart.rx) \o serIn) = Len(OfHost(uart.rx)) + Len(serIn)
           /\ Len(OfHost(uart.rx) \o serIn) <= MaxIn
<1>1. uart.rx \in Seq(LineBytes) /\ serIn \in Seq(HostByte) /\ count.in \in 0 .. MaxIn
      /\ Len(OfHost(uart.rx)) + Len(serIn) <= count.in
  BY DEF SerialInv, OnTheWay
<1>2. OfHost(uart.rx) \in Seq(HostByte)
  BY <1>1, OfHostShape
<1>3. OfHost(uart.rx) \o serIn \in Seq(HostByte)
      /\ Len(OfHost(uart.rx) \o serIn) = Len(OfHost(uart.rx)) + Len(serIn)
  BY <1>1, <1>2, ConcatProperties
<1>4. PICK n \in Nat : n = Len(OfHost(uart.rx))
  BY <1>2
<1>5. PICK m \in Nat : m = Len(serIn)
  BY <1>1
<1> QED
  BY <1>1, <1>2, <1>3, <1>4, <1>5, SerialAssumption

\* What leaves the front of the queue has been taken.
Splits(a, b, q) == \E n \in 0 .. MaxIn : /\ n <= Len(q) /\ a = SubSeq(q, 1, n)
                                         /\ b = SubSeq(q, n + 1, Len(q))
LEMMA TakesFront ==
    ASSUME NEW a \in Seq(HostByte), NEW b \in Seq(HostByte), NEW q \in Seq(HostByte),
           q = a \o b, Len(q) <= MaxIn
    PROVE  Splits(a, b, q)
<1>1. PICK n \in Nat : n = Len(a)
  OBVIOUS
<1>2. PICK m \in Nat : m = Len(b)
  OBVIOUS
<1>3. Len(q) = n + m /\ n \in 0 .. MaxIn /\ n <= Len(q)
  BY <1>1, <1>2, ConcatProperties, SerialAssumption
<1>4. a = SubSeq(q, 1, n)
  <2>1. CASE n = 0
    <3>1. a = << >>
      BY <1>1, <2>1, EmptySeq
    <3>2. 1 \in Int /\ n \in Int /\ n < 1
      BY <2>1
    <3>3. SubSeq(q, 1, n) = << >>
      BY <3>2, SubSeqEmpty, Zenon
    <3> QED
      BY <3>1, <3>3
  <2>2. CASE n # 0
    <3>1. 1 \in 1 .. Len(a) /\ n \in 1 .. Len(a)
      BY <1>1, <2>2
    <3>2. SubSeq(a \o b, 1, n) = SubSeq(a, 1, n)
      BY <3>1, SubSeqOfConcat1, Zenon
    <3>3. SubSeq(a, 1, Len(a)) = a
      BY SubSeqFull
    <3> QED
      BY <1>1, <3>2, <3>3, Zenon
  <2> QED
    BY <2>1, <2>2
<1>5. b = SubSeq(q, n + 1, n + m)
  <2>1. CASE m = 0
    <3>1. b = << >>
      BY <1>2, <2>1, EmptySeq
    <3>2. n + 1 \in Int /\ n + m \in Int /\ n + m < n + 1
      BY <2>1
    <3>3. SubSeq(q, n + 1, n + m) = << >>
      BY <3>2, SubSeqEmpty, Zenon
    <3> QED
      BY <3>1, <3>3
  <2>2. CASE m # 0
    <3>1. n + 1 \in Len(a) + 1 .. Len(a) + Len(b) /\ n + m \in Len(a) + 1 .. Len(a) + Len(b)
      BY <1>1, <1>2, <2>2
    <3>2. SubSeq(a \o b, n + 1, n + m) = SubSeq(b, n + 1 - Len(a), n + m - Len(a))
      BY <3>1, SubSeqOfConcat2, SMTT(30)
    <3>3. n + 1 - Len(a) = 1 /\ n + m - Len(a) = Len(b)
      BY <1>1, <1>2
    <3>4. SubSeq(b, 1, Len(b)) = b
      BY SubSeqFull
    <3> QED
      BY <3>2, <3>3, <3>4, Zenon
  <2> QED
    BY <2>1, <2>2
<1> QED
  BY <1>3, <1>4, <1>5 DEF Splits

\* The host's side of a step that takes bytes out of the queue, or none.
LEMMA TakeIsNext ==
    ASSUME SerialInv, NEW a \in Seq(HostByte),
           OfHost(uart'.rx) \o serIn' \in Seq(HostByte),
           OfHost(uart.rx) \o serIn = a \o (OfHost(uart'.rx) \o serIn'),
           OfHost(removed') = a
    PROVE  HostQueue!Next
<1>1. PICK q \in Seq(HostByte) : q = OfHost(uart.rx) \o serIn /\ Len(q) <= MaxIn
  BY InvParts
<1>2. PICK r \in Seq(HostByte) : r = OfHost(uart'.rx) \o serIn'
  OBVIOUS
<1>3. q = a \o r
  BY <1>1, <1>2
<1>4. PICK n \in 0 .. MaxIn : /\ n <= Len(q) /\ a = SubSeq(q, 1, n)
                              /\ r = SubSeq(q, n + 1, Len(q))
  <2>1. Splits(a, r, q)
    BY <1>1, <1>3, TakesFront, Zenon
  <2> QED
    BY <2>1 DEF Splits
<1>5. HostQueue!Take(n)
  BY <1>1, <1>2, <1>4 DEF HostQueue!Take
<1> QED
  BY <1>5 DEF HostQueue!Next

\* What every step owes: the host's bytes counted and in their queue.
ServesBoth == SerialInv' /\ [HostQueue!Next]_(HostQueue!fifoVars)

\* Steps that move no byte of the host.
LEMMA Idles ==
    ASSUME SerialInv, SerialShape',
           uart'.rx = uart.rx, serIn' = serIn, count'.in = count.in, removed' = removed
    PROVE  ServesBoth
<1>1. OnTheWay(uart.rx, serIn, count.in)'
  BY DEF SerialInv, OnTheWay
<1>2. UNCHANGED HostQueue!fifoVars
  BY DEF HostQueue!fifoVars
<1> QED
  BY <1>1, <1>2 DEF ServesBoth, SerialInv

\* Steps that read or throw away no byte of the host and leave the queue.
LEMMA TakesNothing ==
    ASSUME SerialInv, SerialInv', removed' = << >>,
           OfHost(uart'.rx) \o serIn' = OfHost(uart.rx) \o serIn
    PROVE  ServesBoth
<1>1. PICK q \in Seq(HostByte) : q = OfHost(uart.rx) \o serIn
  BY InvParts
<1>2. << >> \in Seq(HostByte) /\ << >> \o q = q /\ OfHost(<< >>) = << >>
  BY EmptySeq, ConcatEmptySeq, OfHostEmpty
<1>3. HostQueue!Next
  <2>1. OfHost(uart'.rx) \o serIn' = q
    BY <1>1
  <2>2. OfHost(removed') = << >>
    BY <1>2
  <2> QED
    BY <1>1, <1>2, <2>1, <2>2, TakeIsNext
<1> QED
  BY <1>3 DEF ServesBoth

LEMMA PushServes ==
    ASSUME SerialInv, NEW b \in HostByte, PushSerialIn(b)
    PROVE  ServesBoth
<1>1. /\ count.in < MaxIn /\ serIn' = Append(serIn, b)
      /\ count' = [count EXCEPT !.in = count.in + 1]
      /\ uart' = uart /\ guest' = guest /\ removed' = removed
  BY DEF PushSerialIn
<1>2. /\ count' = [f \in {"in", "out"} |-> count'[f]] /\ count'.in = count.in + 1
      /\ count.in \in 0 .. MaxIn
  BY <1>1 DEF SerialInv, SerialShape, OnTheWay
<1>3. PICK h \in Seq(HostByte) : h = OfHost(uart.rx)
  BY InvParts
<1>4. PICK in \in Seq(HostByte) : in = serIn
  BY InvParts
<1>5. <<b>> \in Seq(HostByte) /\ Len(<<b>>) = 1 /\ Append(in, b) = in \o <<b>>
  BY AppendIsConcat
<1>6. h \o Append(in, b) = (h \o in) \o <<b>>
  BY <1>5, ConcatAssociative
<1>7. Len(h) + Len(in) <= count.in
  BY <1>3, <1>4 DEF SerialInv, OnTheWay
<1>8. Append(in, b) \in Seq(HostByte) /\ Len(Append(in, b)) = Len(in) + 1
  BY AppendProperties
<1>9. OnTheWay(uart'.rx, serIn', count'.in)
  <2>1. uart.rx \in Seq(LineBytes) /\ Len(uart.rx) <= FifoCap
    BY DEF SerialInv, OnTheWay
  <2>2. PICK m \in Nat : m = Len(h)
    OBVIOUS
  <2>3. PICK n \in Nat : n = Len(in)
    OBVIOUS
  <2>4. count'.in \in 0 .. MaxIn /\ m + (n + 1) <= count'.in
    BY <1>1, <1>2, <1>7, <2>2, <2>3, SerialAssumption
  <2> QED
    BY <1>1, <1>3, <1>4, <1>8, <2>1, <2>2, <2>3, <2>4 DEF OnTheWay
<1>10. SerialInv'
  <2>1. SerialShape'
    BY <1>1, <1>2 DEF SerialInv, SerialShape
  <2> QED
    BY <1>9, <2>1 DEF SerialInv
<1>11. HostQueue!Next
  <2>1. Len(h \o in) = Len(h) + Len(in)
    BY ConcatProperties
  <2>2. PICK m \in Nat : m = Len(h) + Len(in)
    OBVIOUS
  <2>3. Len(h \o in) + Len(<<b>>) <= MaxIn
    BY <1>1, <1>2, <1>5, <1>7, <2>1, <2>2, SerialAssumption
  <2>4. HostQueue!Put(<<b>>)
    BY <1>1, <1>3, <1>4, <1>6, <2>3 DEF HostQueue!Put
  <2>5. <<b>> \in [1 .. 1 -> HostByte] /\ 1 \in 0 .. MaxIn
    BY <1>1, <1>2, SerialAssumption
  <2> QED
    BY <2>4, <2>5 DEF HostQueue!Next
<1> QED
  BY <1>10, <1>11 DEF ServesBoth

\* What poll takes from the host goes behind what the FIFO holds, and fits.
LEMMA PollMoves ==
    ASSUME SerialInv
    PROVE  \E part \in Seq(HostByte), rest \in Seq(HostByte) :
              /\ serIn = part \o rest /\ Untaken(serIn) = rest
              /\ Len(uart.rx) + Len(part) <= FifoCap
              /\ FirstOf(uart.rx \o FirstOf(serIn, Room), FifoCap) = uart.rx \o part
<1>1. PICK rx \in Seq(LineBytes) : rx = uart.rx
  BY DEF SerialInv, OnTheWay
<1>2. PICK in \in Seq(HostByte) : in = serIn
  BY DEF SerialInv, OnTheWay
<1>3. PICK l \in Nat : l = Len(rx) /\ l <= FifoCap
  BY <1>1 DEF SerialInv, OnTheWay
<1>4. PICK m \in Nat : m = Len(in)
  OBVIOUS
<1>5. PICK room \in Nat : room = Room /\ room = FifoCap - l
  <2>1. Room = FifoCap - l
    BY <1>1, <1>3 DEF Room
  <2>2. FifoCap - l \in Nat
    BY <1>3, UartAssumption
  <2> QED
    BY <2>1, <2>2
<1>6. PICK n \in Nat : n = (IF room < m THEN room ELSE m)
  OBVIOUS
<1>7. n <= m /\ n <= room /\ (n < m => n = room)
  BY <1>6
<1>8. PICK part : part = SubSeq(in, 1, n)
  OBVIOUS
<1>9. PICK rest : rest = SubSeq(in, n + 1, m)
  OBVIOUS
<1>10. part \in Seq(HostByte) /\ rest \in Seq(HostByte) /\ in = part \o rest /\ Len(part) = n
  <2>0. 1 \in 1 .. Len(in) + 1 /\ n \in 1 - 1 .. Len(in) /\ Len(in) \in n .. Len(in)
    BY <1>4, <1>7
  <2>1. SubSeq(in, 1, n) \o SubSeq(in, n + 1, Len(in)) = SubSeq(in, 1, Len(in))
    BY <2>0, ConcatAdjacentSubSeq, Zenon
  <2>2. SubSeq(in, 1, Len(in)) = in
    BY SubSeqFull
  <2>3. \A i \in 1 .. m : in[i] \in HostByte
    BY <1>4, ElementOfSeq
  <2>4. /\ SubSeq(in, 1, n) \in Seq(HostByte)
        /\ Len(SubSeq(in, 1, n)) = IF 1 <= n THEN n - 1 + 1 ELSE 0
    <3>1. 1 \in Int /\ n \in Int /\ \A i \in 1 .. n : in[i] \in HostByte
      BY <1>7, <2>3
    <3> QED
      BY <3>1, SubSeqProperties
  <2>5. SubSeq(in, n + 1, m) \in Seq(HostByte)
    <3>1. n + 1 \in Int /\ m \in Int /\ \A i \in n + 1 .. m : in[i] \in HostByte
      BY <2>3
    <3> QED
      BY <3>1, SubSeqProperties
  <2>6. Len(SubSeq(in, 1, n)) = n
    BY <2>4
  <2> QED
    BY <1>4, <1>8, <1>9, <2>1, <2>2, <2>4, <2>5, <2>6, Zenon
<1>11. FirstOf(in, room) = part
  BY <1>4, <1>6, <1>8 DEF FirstOf
<1>12. Untaken(in) = rest
  <2>1. CASE n < m
    BY <1>4, <1>5, <1>7, <1>9, <2>1 DEF Untaken, RestOf
  <2>2. CASE ~ (n < m)
    <3>1. n = m /\ m <= room
      BY <1>6, <1>7, <2>2
    <3>2. SubSeq(in, n + 1, m) = << >> /\ SubSeq(in, room + 1, m) = << >>
      <4>1. n + 1 \in Int /\ room + 1 \in Int /\ m \in Int /\ m < n + 1 /\ m < room + 1
        BY <3>1
      <4> QED
        BY <4>1, SubSeqEmpty, Zenon
    <3> QED
      BY <1>4, <1>5, <1>9, <3>2 DEF Untaken, RestOf
  <2> QED
    BY <2>1, <2>2
<1>13. FirstOf(rx \o part, FifoCap) = rx \o part
  <2>1. part \in Seq(LineBytes)
    BY <1>10, SeqMonotonic DEF LineBytes
  <2>2. rx \o part \in Seq(LineBytes) /\ Len(rx \o part) = Len(rx) + Len(part)
    BY <2>1, ConcatProperties
  <2>3. PICK k \in Nat : k = Len(rx \o part) /\ k <= FifoCap
    BY <1>3, <1>5, <1>7, <1>10, <2>2, UartAssumption
  <2>4. SubSeq(rx \o part, 1, Len(rx \o part)) = rx \o part
    BY <2>2, SubSeqFull
  <2>5. ~ (FifoCap < k)
    BY <2>3, UartAssumption
  <2> QED
    BY <2>3, <2>4, <2>5 DEF FirstOf
<1>14. Len(rx) + Len(part) <= FifoCap
  BY <1>3, <1>5, <1>7, <1>10, UartAssumption
<1>15. FirstOf(uart.rx \o FirstOf(serIn, Room), FifoCap) = uart.rx \o part
  BY <1>1, <1>2, <1>5, <1>11, <1>13
<1> QED
  BY <1>1, <1>2, <1>10, <1>12, <1>14, <1>15

LEMMA PollServes ==
    ASSUME SerialInv, Poll, guest' = [f \in {"buffer", "trigger", "pc"} |-> guest'[f]],
           guest'.buffer = guest.buffer
    PROVE  ServesBoth
<1>1. PICK part \in Seq(HostByte), rest \in Seq(HostByte) :
         /\ serIn = part \o rest /\ Untaken(serIn) = rest
         /\ Len(uart.rx) + Len(part) <= FifoCap
         /\ FirstOf(uart.rx \o FirstOf(serIn, Room), FifoCap) = uart.rx \o part
  BY PollMoves
<1>2. PICK u : u = [uart EXCEPT !.rx = uart.rx \o part]
  OBVIOUS
<1>3. UpdateStatus(u)
  BY <1>1, <1>2 DEF Poll, DoPoll
<1>4. u = [f \in UartFields |-> u[f]] /\ u.rx = uart.rx \o part
  BY <1>2 DEF SerialInv, SerialShape, UartFields
<1>5. uart' = [f \in UartFields |-> uart'[f]] /\ uart'.rx = uart.rx \o part
  BY <1>3, <1>4, StatusKeeps
<1>6. /\ serIn' = rest /\ removed' = << >> /\ count' = count
  BY <1>1 DEF Poll
<1>7. PICK h \in Seq(HostByte) : h = OfHost(uart.rx)
  BY InvParts
<1>8. PICK rx \in Seq(LineBytes) : rx = uart.rx
  BY DEF SerialInv, OnTheWay
<1>9. part \in Seq(LineBytes) /\ OfHost(part) = part
  BY SeqMonotonic, OfHostAll DEF LineBytes
<1>10. OfHost(uart'.rx) = h \o part
  BY <1>5, <1>7, <1>8, <1>9, OfHostConcat
<1>11. OfHost(uart'.rx) \o serIn' = OfHost(uart.rx) \o serIn
  <2>1. (h \o part) \o rest = h \o (part \o rest)
    BY ConcatAssociative, SMTT(30)
  <2> QED
    BY <1>1, <1>6, <1>7, <1>10, <2>1
<1>12. SerialInv'
  <2>1. rx \o part \in Seq(LineBytes) /\ Len(rx \o part) = Len(rx) + Len(part)
    BY <1>9, ConcatProperties
  <2>2. Len(h \o part) = Len(h) + Len(part) /\ Len(part \o rest) = Len(part) + Len(rest)
    BY ConcatProperties
  <2>3. PICK i \in Nat : i = Len(h)
    OBVIOUS
  <2>4. PICK j \in Nat : j = Len(part)
    OBVIOUS
  <2>5. PICK k \in Nat : k = Len(rest)
    OBVIOUS
  <2>6. i + (j + k) <= count.in /\ count.in \in 0 .. MaxIn
    BY <1>1, <1>7, <2>2, <2>3, <2>4, <2>5 DEF SerialInv, OnTheWay
  <2>7. (i + j) + k <= count.in
    BY <2>6
  <2>8. OnTheWay(uart'.rx, serIn', count'.in)
    BY <1>1, <1>5, <1>6, <1>8, <1>10, <2>1, <2>2, <2>3, <2>4, <2>5, <2>6, <2>7 DEF OnTheWay
  <2>9. SerialShape'
    BY <1>5, <1>6 DEF SerialInv, SerialShape
  <2> QED
    BY <2>8, <2>9 DEF SerialInv
<1> QED
  BY <1>6, <1>11, <1>12, TakesNothing

\* The guest's shape is kept where one field of it is set.
LEMMA GuestKeeps ==
    ASSUME SerialShape, NEW x, guest' = [guest EXCEPT !.pc = x]
    PROVE  guest' = [f \in {"buffer", "trigger", "pc"} |-> guest'[f]]
           /\ guest'.buffer = guest.buffer
BY DEF SerialShape

LEMMA FifoServes ==
    ASSUME SerialInv, NEW on, NEW clear \in BOOLEAN, SetFifo(on, clear)
    PROVE  ServesBoth
<1> DEFINE cleared == clear \/ (on /\ ~ uart.fifo)
<1>1. PICK u : /\ u = [uart EXCEPT !.fifo = on, !.trigger = guest.trigger,
                                   !.rx = IF cleared THEN << >> ELSE uart.rx]
               /\ UpdateStatus(u)
  BY DEF SetFifo, WriteFcr
<1>2. u = [f \in UartFields |-> u[f]] /\ u.rx = IF cleared THEN << >> ELSE uart.rx
  BY <1>1 DEF SerialInv, SerialShape, UartFields
<1>3. /\ uart' = [f \in UartFields |-> uart'[f]]
      /\ uart'.rx = IF cleared THEN << >> ELSE uart.rx
  BY <1>1, <1>2, StatusKeeps
<1>4. /\ serIn' = serIn /\ guest' = guest /\ count' = count
      /\ removed' = IF uart'.rx = << >> THEN uart.rx ELSE << >>
  BY DEF SetFifo
<1>5. SerialShape'
  BY <1>3, <1>4 DEF SerialInv, SerialShape
<1>6. CASE uart'.rx = << >>
  <2>1. PICK h \in Seq(HostByte) : h = OfHost(uart.rx)
    BY InvParts
  <2>2. PICK in \in Seq(HostByte) : in = serIn
    BY InvParts
  <2>3. OfHost(uart'.rx) \o serIn' = in
    BY <1>4, <1>6, <2>2, OfHostEmpty, ConcatEmptySeq
  <2>4. OfHost(removed') = h
    BY <1>4, <1>6, <2>1
  <2>5. HostQueue!Next
    BY <2>1, <2>2, <2>3, <2>4, TakeIsNext
  <2>6. OnTheWay(uart'.rx, serIn', count'.in)
    <3>1. << >> \in Seq(LineBytes) /\ Len(<< >>) = 0 /\ OfHost(<< >>) = << >>
      BY EmptySeq, OfHostEmpty
    <3>2. PICK i \in Nat : i = Len(h)
      OBVIOUS
    <3>3. PICK j \in Nat : j = Len(in)
      OBVIOUS
    <3>4. i + j <= count.in /\ count.in \in 0 .. MaxIn
      BY <2>1, <2>2, <3>2, <3>3 DEF SerialInv, OnTheWay
    <3>5. 0 + j <= count.in /\ 0 <= FifoCap
      BY <3>4, UartAssumption
    <3> QED
      BY <1>4, <1>6, <2>2, <3>1, <3>3, <3>4, <3>5 DEF OnTheWay
  <2> QED
    BY <1>5, <2>5, <2>6 DEF ServesBoth, SerialInv
<1>7. CASE uart'.rx # << >>
  <2>1. uart'.rx = uart.rx /\ removed' = << >>
    BY <1>3, <1>4, <1>7
  <2>2. OnTheWay(uart'.rx, serIn', count'.in)
    BY <1>4, <2>1 DEF SerialInv, OnTheWay
  <2>3. SerialInv'
    BY <1>5, <2>2 DEF SerialInv
  <2> QED
    BY <1>4, <2>1, <2>3, TakesNothing
<1> QED
  BY <1>6, <1>7

LEMMA ReceiverServes ==
    ASSUME SerialInv, ServeReceiver
    PROVE  ServesBoth
<1>1. PICK u : /\ u = [uart EXCEPT !.rx = IF uart.rx = << >> THEN uart.rx ELSE Tail(uart.rx)]
               /\ UpdateStatus(u)
  BY DEF ServeReceiver, ReadRbr
<1>2. u = [f \in UartFields |-> u[f]] /\ u.rx = IF uart.rx = << >> THEN uart.rx ELSE Tail(uart.rx)
  BY <1>1 DEF SerialInv, SerialShape, UartFields
<1>3. /\ uart' = [f \in UartFields |-> uart'[f]]
      /\ uart'.rx = IF uart.rx = << >> THEN uart.rx ELSE Tail(uart.rx)
  BY <1>1, <1>2, StatusKeeps
<1>4. /\ serIn' = serIn /\ count' = count /\ removed' = Rbr
      /\ guest' = [guest EXCEPT !.pc = "identify"]
  BY DEF ServeReceiver, Served
<1>5. SerialShape'
  <2>1. guest' = [f \in {"buffer", "trigger", "pc"} |-> guest'[f]]
        /\ guest'.buffer = guest.buffer
    BY <1>4, GuestKeeps DEF SerialInv
  <2> QED
    BY <1>3, <1>4, <2>1 DEF SerialInv, SerialShape
<1>6. PICK rx \in Seq(LineBytes) : rx = uart.rx
  BY DEF SerialInv, OnTheWay
<1>7. CASE rx = << >>
  <2>1. SubSeq(rx, 1, 0) = << >>
    BY SubSeqEmpty
  <2>2. uart'.rx = uart.rx /\ removed' = << >>
    BY <1>3, <1>4, <1>6, <1>7, <2>1 DEF Rbr
  <2>3. OnTheWay(uart'.rx, serIn', count'.in)
    BY <1>4, <2>2 DEF SerialInv, OnTheWay
  <2>4. SerialInv'
    BY <1>5, <2>3 DEF SerialInv
  <2> QED
    BY <1>4, <2>2, <2>4, TakesNothing
<1>8. CASE rx # << >>
  <2>1. /\ Tail(rx) \in Seq(LineBytes) /\ Len(Tail(rx)) = Len(rx) - 1
        /\ Head(rx) \in LineBytes
    BY <1>8, HeadTailProperties
  <2>2. PICK first : first = <<Head(rx)>>
    OBVIOUS
  <2>3. first \in Seq(LineBytes) /\ rx = first \o Tail(rx)
    <3>1. first \in Seq(LineBytes)
      BY <2>1, <2>2
    <3>2. PICK l \in Nat : l = Len(rx) /\ l # 0
      BY <1>8, EmptySeq
    <3>3. 1 \in 1 .. Len(rx) /\ Len(rx) \in 1 .. Len(rx)
      BY <3>2
    <3>4. SubSeq(rx, 1, Len(rx)) = <<rx[1]>> \o SubSeq(rx, 1 + 1, Len(rx))
      BY <3>3, SubSeqRecursiveFirst, Zenon
    <3>5. SubSeq(rx, 1, Len(rx)) = rx
      BY SubSeqFull
    <3>6. Tail(rx) = SubSeq(rx, 2, Len(rx)) /\ 1 + 1 = 2 /\ Head(rx) = rx[1]
      BY <1>8, TailIsSubSeq
    <3> QED
      BY <2>2, <3>1, <3>4, <3>5, <3>6
  <2>4. removed' = first
    <3>1. Rbr = SubSeq(rx, 1, 1)
      BY <1>6, <1>8 DEF Rbr
    <3>2. SubSeq(rx, 1, 1) = <<Head(rx)>>
      <4>1. PICK l \in Nat : l = Len(rx) /\ l # 0
        BY <1>8, EmptySeq
      <4>2. 1 \in 1 .. Len(rx) /\ 1 \in 1 .. Len(rx) /\ 1 \in 1 .. 1
        BY <4>1
      <4>3. SubSeq(rx, 1, 1) = <<rx[1]>> \o SubSeq(rx, 1 + 1, 1)
        BY <4>2, SubSeqRecursiveFirst, Zenon
      <4>4. 1 + 1 \in Int /\ 1 \in Int /\ 1 < 1 + 1
        OBVIOUS
      <4>5. SubSeq(rx, 1 + 1, 1) = << >>
        BY <4>4, SubSeqEmpty, Zenon
      <4>6. rx[1] = Head(rx)
        OBVIOUS
      <4> QED
        BY <2>2, <2>3, <4>3, <4>5, <4>6, ConcatEmptySeq
    <3> QED
      BY <1>4, <2>2, <3>1, <3>2
  <2>5. PICK a \in Seq(HostByte) : a = OfHost(first)
    <3>1. first \in Seq(LineBytes) /\ Len(first) \in Nat
      BY <2>3
    <3> QED
      BY <3>1, OfHostShape
  <2>6. PICK b \in Seq(HostByte) : b = OfHost(Tail(rx))
    <3>1. Len(Tail(rx)) \in Nat
      BY <2>1
    <3> QED
      BY <3>1, OfHostShape
  <2>7. OfHost(rx) = a \o b
    BY <2>1, <2>3, <2>5, <2>6, OfHostConcat
  <2>8. PICK in \in Seq(HostByte) : in = serIn
    BY InvParts
  <2>9. uart'.rx = Tail(rx)
    BY <1>3, <1>6, <1>8
  <2>10. HostQueue!Next
    <3>1. (a \o b) \o in = a \o (b \o in) /\ b \o in \in Seq(HostByte)
      BY ConcatAssociative, ConcatProperties
    <3>2. OfHost(uart.rx) \o serIn = a \o (OfHost(uart'.rx) \o serIn')
      BY <1>4, <1>6, <2>6, <2>7, <2>8, <2>9, <3>1
    <3>3. OfHost(uart'.rx) \o serIn' \in Seq(HostByte)
      BY <1>4, <2>6, <2>8, <2>9, <3>1
    <3>4. OfHost(removed') = a
      BY <2>4, <2>5
    <3> QED
      BY <3>2, <3>3, <3>4, TakeIsNext
  <2>11. OnTheWay(uart'.rx, serIn', count'.in)
    <3>1. Len(a \o b) = Len(a) + Len(b)
      BY ConcatProperties
    <3>2. PICK i \in Nat : i = Len(a)
      OBVIOUS
    <3>3. PICK j \in Nat : j = Len(b)
      OBVIOUS
    <3>4. PICK k \in Nat : k = Len(in)
      OBVIOUS
    <3>5. PICK l \in Nat : l = Len(rx)
      OBVIOUS
    <3>6. (i + j) + k <= count.in /\ count.in \in 0 .. MaxIn /\ l <= FifoCap
      BY <1>6, <2>7, <2>8, <3>1, <3>2, <3>3, <3>4, <3>5 DEF SerialInv, OnTheWay
    <3>7. j + k <= count.in /\ l - 1 <= FifoCap
      BY <3>6, UartAssumption
    <3> QED
      BY <1>4, <2>1, <2>6, <2>8, <2>9, <3>3, <3>4, <3>5, <3>6, <3>7 DEF OnTheWay
  <2> QED
    BY <1>5, <2>10, <2>11 DEF ServesBoth, SerialInv
<1> QED
  BY <1>7, <1>8

\* Registers other than the FIFO's.
LEMMA OthersKeep ==
    ASSUME SerialShape,
           \/ \E enabled : WriteIer(enabled)
           \/ \E outputs : WriteMcr(outputs)
           \/ ReadIir \/ ReadLsr \/ ReadMsr
    PROVE  uart' = [f \in UartFields |-> uart'[f]] /\ uart'.rx = uart.rx
<1>1. PICK u : u = [f \in UartFields |-> u[f]] /\ u.rx = uart.rx /\ UpdateStatus(u)
  <2>1. CASE \E enabled : WriteIer(enabled)
    <3>1. PICK enabled : WriteIer(enabled)
      BY <2>1
    <3>2. PICK u : /\ u = [uart EXCEPT !.ier = enabled,
                                       !.threPending = (@ \/ "THRE" \in enabled)]
                   /\ UpdateStatus(u)
      BY <3>1 DEF WriteIer
    <3> QED
      BY <3>2 DEF SerialShape, UartFields
  <2>2. CASE \E outputs : WriteMcr(outputs)
    <3>1. PICK outputs, changed : UpdateStatus([uart EXCEPT !.mcr = outputs, !.delta = @ \cup changed])
      BY <2>2 DEF WriteMcr
    <3>2. PICK u : /\ u = [uart EXCEPT !.mcr = outputs, !.delta = @ \cup changed]
                   /\ UpdateStatus(u)
      BY <3>1
    <3> QED
      BY <3>2 DEF SerialShape, UartFields
  <2>3. CASE ReadIir
    <3>1. PICK u : /\ u = [uart EXCEPT !.threPending = (@ /\ uart.iir # "THRE")]
                   /\ UpdateStatus(u)
      BY <2>3 DEF ReadIir
    <3> QED
      BY <3>1 DEF SerialShape, UartFields
  <2>4. CASE ReadLsr
    <3>1. PICK u : u = [uart EXCEPT !.overrun = FALSE] /\ UpdateStatus(u)
      BY <2>4 DEF ReadLsr
    <3> QED
      BY <3>1 DEF SerialShape, UartFields
  <2>5. CASE ReadMsr
    <3>1. PICK u : u = [uart EXCEPT !.delta = {}] /\ UpdateStatus(u)
      BY <2>5 DEF ReadMsr
    <3> QED
      BY <3>1 DEF SerialShape, UartFields
  <2> QED
    BY <2>1, <2>2, <2>3, <2>4, <2>5
<1> QED
  BY <1>1, StatusKeeps

LEMMA TransmitterServes ==
    ASSUME SerialInv, ServeTransmitter
    PROVE  ServesBoth
<1>1. PICK b \in GuestByte : b = Head(guest.buffer)
  BY HeadTailProperties DEF ServeTransmitter, SerialInv, SerialShape
<1>2. /\ serIn' = serIn /\ removed' = removed /\ count' = count
      /\ guest' = [f \in {"buffer", "trigger", "pc"} |-> guest'[f]]
      /\ guest'.buffer \in Seq(GuestByte)
  <2>1. guest.buffer \in Seq(GuestByte) /\ guest.buffer # << >>
    BY DEF ServeTransmitter, SerialInv, SerialShape
  <2>2. PICK left \in Seq(GuestByte) : left = Tail(guest.buffer)
    BY <2>1, HeadTailProperties
  <2>3. guest' = [guest EXCEPT !.buffer = left, !.pc = "identify"]
    BY <2>2 DEF ServeTransmitter
  <2> QED
    BY <2>2, <2>3 DEF ServeTransmitter, SerialInv, SerialShape
<1>3. PICK w : /\ w = [f \in UartFields |-> w[f]]
               /\ \/ w.rx = uart.rx
                  \/ w.rx = Append(uart.rx, b) /\ ~ Full(uart)
               /\ UpdateStatus([w EXCEPT !.threPending = TRUE])
  <2>1. PICK w : /\ w = IF Looped(uart) THEN LoopedBack(b) ELSE uart
                 /\ UpdateStatus([w EXCEPT !.threPending = TRUE])
    BY <1>1 DEF ServeTransmitter, WriteThr
  <2>2. CASE w = uart
    BY <2>1, <2>2 DEF SerialInv, SerialShape
  <2>3. CASE w = LoopedBack(b)
    <3>1. CASE Full(uart)
      <4>1. w = [uart EXCEPT !.overrun = TRUE]
        BY <2>3, <3>1 DEF LoopedBack
      <4>2. w = [f \in UartFields |-> w[f]] /\ w.rx = uart.rx
        BY <4>1 DEF SerialInv, SerialShape, UartFields
      <4> QED
        BY <2>1, <4>2
    <3>2. CASE ~ Full(uart)
      <4>1. w = [uart EXCEPT !.rx = Append(uart.rx, b)]
        BY <2>3, <3>2 DEF LoopedBack
      <4>2. w = [f \in UartFields |-> w[f]] /\ w.rx = Append(uart.rx, b)
        BY <4>1 DEF SerialInv, SerialShape, UartFields
      <4> QED
        BY <2>1, <3>2, <4>2
    <3> QED
      BY <3>1, <3>2
  <2> QED
    BY <2>1, <2>2, <2>3
<1>4. uart' = [f \in UartFields |-> uart'[f]] /\ uart'.rx = w.rx
  <2>1. PICK u : u = [w EXCEPT !.threPending = TRUE]
    OBVIOUS
  <2>2. u = [f \in UartFields |-> u[f]] /\ u.rx = w.rx /\ UpdateStatus(u)
    BY <1>3, <2>1 DEF UartFields
  <2> QED
    BY <2>2, StatusKeeps
<1>5. SerialShape'
  BY <1>2, <1>4 DEF SerialInv, SerialShape
<1>6. CASE w.rx = uart.rx
  BY <1>2, <1>4, <1>5, <1>6, Idles
<1>7. CASE w.rx = Append(uart.rx, b) /\ ~ Full(uart)
  <2>1. PICK rx \in Seq(LineBytes) : rx = uart.rx
    BY DEF SerialInv, OnTheWay
  <2>2. b \in LineBytes /\ b \notin HostByte
    BY SerialAssumption DEF LineBytes
  <2>3. <<b>> \in Seq(LineBytes) /\ Append(rx, b) = rx \o <<b>>
    BY <2>2, AppendIsConcat
  <2>4. OfHost(Append(rx, b)) = OfHost(rx)
    <3>1. OfHost(rx \o <<b>>) = OfHost(rx) \o OfHost(<<b>>)
      BY <2>3, OfHostConcat
    <3>2. OfHost(<<b>>) = << >>
      BY <2>2, OfHostNone
    <3>3. OfHost(rx) \in Seq(HostByte)
      BY OfHostShape
    <3> QED
      BY <2>3, <3>1, <3>2, <3>3, ConcatEmptySeq
  <2>5. OnTheWay(uart'.rx, serIn', count'.in)
    <3>1. Append(rx, b) \in Seq(LineBytes) /\ Len(Append(rx, b)) = Len(rx) + 1
      BY <2>2, AppendProperties
    <3>2. PICK l \in Nat : l = Len(rx)
      OBVIOUS
    <3>3. l + 1 <= FifoCap
      BY <1>7, <2>1, <3>2, UartAssumption DEF Full
    <3> QED
      BY <1>2, <1>4, <1>7, <2>1, <2>4, <3>1, <3>2, <3>3 DEF SerialInv, OnTheWay
  <2>6. UNCHANGED HostQueue!fifoVars
    BY <1>2, <1>4, <1>7, <2>1, <2>4 DEF HostQueue!fifoVars
  <2> QED
    BY <1>5, <2>5, <2>6 DEF ServesBoth, SerialInv
<1> QED
  BY <1>3, <1>6, <1>7

LEMMA StepServes == SerialInv /\ [SerialNext]_serialVars => ServesBoth
<1> SUFFICES ASSUME SerialInv, [SerialNext]_serialVars PROVE ServesBoth
  OBVIOUS
<1>0. SerialShape
  BY DEF SerialInv
<1>1. ASSUME NEW b \in HostByte, PushSerialIn(b) PROVE ServesBoth
  BY <1>1, PushServes
<1>2. CASE PollUnanswered
  BY <1>0, <1>2, PollServes DEF PollUnanswered, SerialShape
<1>3. CASE PollInterrupts
  BY <1>0, <1>3, PollServes, GuestKeeps DEF PollInterrupts
<1>4. CASE DrainSerialOut
  BY <1>0, <1>4, Idles DEF DrainSerialOut, SerialShape
<1>5. ASSUME NEW on \in BOOLEAN, NEW clear \in BOOLEAN, SetFifo(on, clear) PROVE ServesBoth
  BY <1>5, FifoServes
<1>6. ASSUME NEW outputs, SetModem(outputs) PROVE ServesBoth
  <2>1. uart' = [f \in UartFields |-> uart'[f]] /\ uart'.rx = uart.rx
    BY <1>0, <1>6, OthersKeep DEF SetModem
  <2> QED
    BY <1>0, <1>6, <2>1, Idles DEF SetModem, SerialShape
<1>7. CASE Enable
  <2>1. uart' = [f \in UartFields |-> uart'[f]] /\ uart'.rx = uart.rx
    BY <1>0, <1>7, OthersKeep DEF Enable
  <2> QED
    BY <1>0, <1>7, <2>1, Idles DEF Enable, SerialShape
<1>8. ASSUME NEW b \in GuestByte, Send(b) PROVE ServesBoth
  <2>1. uart' = [f \in UartFields |-> uart'[f]] /\ uart'.rx = uart.rx
    BY <1>0, <1>8, OthersKeep DEF Send
  <2>2. PICK more \in Seq(GuestByte) : more = Append(guest.buffer, b)
    BY <1>0, AppendProperties DEF SerialShape
  <2>3. /\ guest' = [guest EXCEPT !.buffer = more]
        /\ count' = [count EXCEPT !.out = count.out + 1]
        /\ serIn' = serIn /\ removed' = removed
    BY <1>8, <2>2 DEF Send
  <2>4. SerialShape' /\ count'.in = count.in
    BY <1>0, <2>1, <2>2, <2>3 DEF SerialShape
  <2> QED
    BY <2>1, <2>3, <2>4, Idles
<1>9. CASE Identify
  <2>1. uart' = [f \in UartFields |-> uart'[f]] /\ uart'.rx = uart.rx
    BY <1>0, <1>9, OthersKeep DEF Identify
  <2>2. guest' = [f \in {"buffer", "trigger", "pc"} |-> guest'[f]]
        /\ guest'.buffer = guest.buffer
    BY <1>0, <1>9, GuestKeeps DEF Identify
  <2>3. serIn' = serIn /\ count' = count /\ removed' = << >>
    BY <1>9 DEF Identify
  <2>4. SerialShape'
    BY <1>0, <2>1, <2>2, <2>3 DEF SerialShape
  <2>5. SerialInv'
    BY <2>1, <2>3, <2>4 DEF SerialInv, OnTheWay
  <2> QED
    BY <2>1, <2>3, <2>5, TakesNothing
<1>10. CASE ServeReceiver
  BY <1>10, ReceiverServes
<1>11. CASE ServeTransmitter
  BY <1>11, TransmitterServes
<1>12. CASE QuietTransmitter \/ ServeLineStatus \/ ServeModemStatus
  <2>1. uart' = [f \in UartFields |-> uart'[f]] /\ uart'.rx = uart.rx
    BY <1>0, <1>12, OthersKeep DEF QuietTransmitter, ServeLineStatus, ServeModemStatus
  <2>2. guest' = [f \in {"buffer", "trigger", "pc"} |-> guest'[f]]
        /\ guest'.buffer = guest.buffer
    BY <1>0, <1>12, GuestKeeps
    DEF QuietTransmitter, ServeLineStatus, ServeModemStatus, Served
  <2>3. serIn' = serIn /\ count' = count /\ removed' = removed
    BY <1>12 DEF QuietTransmitter, ServeLineStatus, ServeModemStatus
  <2>4. SerialShape'
    BY <1>0, <2>1, <2>2, <2>3 DEF SerialShape
  <2> QED
    BY <2>1, <2>3, <2>4, Idles
<1>13. CASE UNCHANGED serialVars
  <2>1. uart' = uart /\ serIn' = serIn /\ guest' = guest /\ removed' = removed /\ count' = count
    BY <1>13 DEF serialVars
  <2>2. SerialShape'
    BY <1>0, <2>1 DEF SerialShape
  <2> QED
    BY <2>1, <2>2, Idles
<1> QED
  BY <1>1, <1>2, <1>3, <1>4, <1>5, <1>6, <1>7, <1>8, <1>9, <1>10, <1>11, <1>12, <1>13
  DEF SerialNext, Handler

LEMMA InitServes == SerialInit => SerialInv /\ HostQueue!Init
<1> SUFFICES ASSUME SerialInit PROVE SerialInv /\ HostQueue!Init
  OBVIOUS
<1>1. /\ uart = PowerOn /\ serIn = << >> /\ removed = << >> /\ count = [in |-> 0, out |-> 0]
      /\ \E t \in Triggers : guest = [buffer |-> << >>, trigger |-> t, pc |-> "main"]
  BY DEF SerialInit
<1>2. uart = [f \in UartFields |-> uart[f]] /\ uart.rx = << >>
  BY <1>1 DEF PowerOn, UartFields
<1>3. << >> \in Seq(LineBytes) /\ << >> \in Seq(HostByte) /\ << >> \in Seq(GuestByte) /\ Len(<< >>) = 0
      /\ << >> \o << >> = << >>
  BY EmptySeq, ConcatEmptySeq
<1>4. SerialShape
  BY <1>1, <1>2, <1>3 DEF SerialShape
<1>5. OfHost(uart.rx) = << >> /\ OfHost(removed) = << >>
  BY <1>1, <1>2, OfHostEmpty
<1>6. OnTheWay(uart.rx, serIn, count.in)
  <2>1. 0 <= FifoCap /\ 0 \in 0 .. MaxIn /\ count.in = 0
    BY <1>1, UartAssumption, SerialAssumption
  <2>2. OfHost(<< >>) = << >>
    BY OfHostEmpty
  <2>3. Len(<< >>) <= FifoCap /\ Len(OfHost(<< >>)) + Len(<< >>) <= 0
    BY <1>3, <2>1, <2>2
  <2>4. OnTheWay(<< >>, << >>, 0)
    BY <1>3, <2>1, <2>3 DEF OnTheWay
  <2> QED
    BY <1>1, <1>2, <2>1, <2>4
<1>7. HostQueue!Init
  <2>1. 0 <= MaxIn
    BY SerialAssumption
  <2> QED
    BY <1>1, <1>3, <1>5, <2>1 DEF HostQueue!Init
<1> QED
  BY <1>4, <1>6, <1>7 DEF SerialInv

\* The FIFO of the card and the host's queue are one queue, whatever the guest
\* does to the FIFO, the trigger or the loopback (uart16550.cc, poll).
THEOREM HostBytesStayInOrder == SerialSpec => HostBytesInOrder
<1>1. SerialInv /\ [SerialNext]_serialVars => SerialInv'
  BY StepServes DEF ServesBoth
<1>2. SerialInv /\ [SerialNext]_serialVars => [HostQueue!Next]_(HostQueue!fifoVars)
  BY StepServes DEF ServesBoth
<1> QED
  BY InitServes, <1>1, <1>2, PTL DEF SerialSpec, HostBytesInOrder, HostQueue!Spec

-----------------------------------------------------------------------------
(***************************************************************************)
(* Graphics: a pixel is shown where it was drawn.                          *)
(***************************************************************************)
\* Two places of a memory in lines are one only in one line.
LEMMA OnePlace ==
    ASSUME NEW B \in Nat, B > 0, NEW q \in Int, NEW r \in 0 .. B - 1,
           NEW p \in Int, NEW s \in 0 .. B - 1, B * q + r = B * p + s
    PROVE  q = p /\ r = s
BY Remainder, Quotient

\* A line that fits into a memory lies in it.
LEMMA LineFits ==
    ASSUME NEW V \in Nat, NEW s \in Nat, s > 0, NEW y \in Nat, y < V \div s, NEW r \in 0 .. s - 1
    PROVE  s * y + r \in 0 .. V - 1
<1>1. PICK t \in Nat : t = V \div s
  BY Divided
<1>2. PICK m \in Nat : m = V % s
  BY Divided
<1>3. V = s * t + m
  BY <1>1, <1>2, Divided
<1>4. PICK k \in Nat : t = y + 1 + k
  <2>1. t - y - 1 \in Nat /\ t = y + 1 + (t - y - 1)
    BY <1>1
  <2> QED
    BY <2>1
<1>5. s * t = s * y + s + s * k /\ s * k \in Nat /\ s * y \in Nat
  BY <1>4
<1> QED
  BY <1>3, <1>5

\* More pixels need more bytes.
LEMMA Wider ==
    ASSUME NEW a \in Nat, NEW b \in Nat, a <= b, NEW n \in Nat
    PROVE  a * n \in Nat /\ b * n \in Nat /\ a * n <= b * n
<1>1. PICK k \in Nat : b = a + k
  <2>1. b - a \in Nat /\ b = a + (b - a)
    OBVIOUS
  <2> QED
    BY <2>1
<1>2. b * n = a * n + k * n /\ k * n \in Nat /\ a * n \in Nat
  BY <1>1
<1> QED
  BY <1>2

-----------------------------------------------------------------------------
FbFields == {"active", "mode", "stride", "display_start", "svga_active", "window_off", "planar",
             "map_mask", "crtc_start", "video_mode", "start"}

Frame13 == (Width13 * Height13) \div Planes

FrameShape ==
    /\ fb = [f \in FbFields |-> fb[f]]
    /\ fb.active \in BOOLEAN /\ fb.svga_active = fb.active /\ fb.planar \in BOOLEAN
    /\ fb.crtc_start \in Nat /\ fb.crtc_start + Frame13 <= Bank
    /\ \E n \in Nat : /\ DOMAIN svga_vram = 0 .. n - 1
                      /\ fb.active = TRUE => n >= svga_vram_bytes
    /\ svga_vram = [i \in DOMAIN svga_vram |-> svga_vram[i]]
    /\ DOMAIN dat = WindowBytes
    /\ DOMAIN vga_planes = 0 .. Planes - 1
    /\ \A p \in 0 .. Planes - 1 : DOMAIN vga_planes[p] = WindowBytes
    /\ \A p \in DOMAIN canvas : p \in Nat \X Nat

\* The display start and the line length.
Lines ==
    /\ fb.mode \in VesaModes
    /\ fb.stride \in Nat /\ fb.mode.w * fb.mode.bypp <= fb.stride
    /\ fb.display_start \in Nat
    /\ fb.start \in Int \X Int
    /\ fb.start[1] >= 0 => /\ fb.start \in Nat \X Nat
                           /\ fb.display_start = fb.start[2] * fb.stride + fb.start[1] * fb.mode.bypp

\* What the guest drew is at its place.
VesaPlace(p) == p[2] * fb.stride + p[1] * fb.mode.bypp
InLine(p) == (p[1] + 1) * fb.mode.bypp <= fb.stride /\ p[2] < LinesThatFit
VesaDrawn ==
    \A p \in DOMAIN canvas : /\ InLine(p)
                             /\ \A k \in 0 .. fb.mode.bypp - 1 :
                                   svga_vram[VesaPlace(p) + k] = canvas[p]

Place13(p) == p[2] * Width13 + p[1]
Drawn13 ==
    \A p \in DOMAIN canvas :
        /\ p[1] < Width13 /\ p[2] < Height13
        /\ fb.planar = TRUE =>
             vga_planes[Place13(p) % Planes][fb.crtc_start + (Place13(p) \div Planes)] = canvas[p]
        /\ fb.planar = FALSE => dat[Place13(p)] = canvas[p]

Graphics13 == fb.active = FALSE /\ fb.video_mode = 19

FrameInv == /\ FrameShape
            /\ fb.active = TRUE => Lines /\ VesaDrawn
            /\ Graphics13 => Drawn13

\* What a mode gives.
LEMMA ModeSizes ==
    ASSUME NEW m \in VesaModes
    PROVE  /\ m.w \in Nat \ {0} /\ m.h \in Nat \ {0} /\ m.bypp \in Nat \ {0}
           /\ m.w * m.bypp \in Nat \ {0}
<1>1. m.w \in Nat \ {0} /\ m.h \in Nat \ {0} /\ m.bypp \in Nat \ {0}
  BY FramebufferAssumption
<1>2. \A a, b \in Nat \ {0} : a * b \in Nat \ {0}
  <2> SUFFICES ASSUME NEW a \in Nat \ {0}, NEW b \in Nat \ {0} PROVE a * b \in Nat \ {0}
    OBVIOUS
  <2>1. PICK k \in Nat : a = 1 + k
    <3>1. a - 1 \in Nat /\ a = 1 + (a - 1)
      OBVIOUS
    <3> QED
      BY <3>1
  <2>2. a * b = b + k * b /\ k * b \in Nat
    BY <2>1
  <2> QED
    BY <2>2
<1> QED
  BY <1>1, <1>2

\* A byte of a pixel, in its line.
LEMMA PixelInLine ==
    ASSUME Lines, NEW x \in Nat, (x + 1) * fb.mode.bypp <= fb.stride, NEW k \in 0 .. fb.mode.bypp - 1
    PROVE  /\ x * fb.mode.bypp \in Nat
           /\ x * fb.mode.bypp + k \in 0 .. fb.stride - 1
           /\ fb.stride > 0
<1>1. PICK b \in Nat : b = fb.mode.bypp
  BY ModeSizes DEF Lines
<1>2. PICK s \in Nat : s = fb.stride
  BY DEF Lines
<1>3. PICK a \in Nat : a = x * b
  OBVIOUS
<1>4. (x + 1) * b = a + b
  BY <1>3
<1>5. a + b <= s /\ k \in 0 .. b - 1
  BY <1>1, <1>2, <1>4
<1>6. a + k \in 0 .. s - 1 /\ s > 0
  BY <1>5
<1> QED
  BY <1>1, <1>2, <1>3, <1>6

\* The bytes of two pixels are apart.
LEMMA PixelsApart ==
    ASSUME Lines, NEW p \in Nat \X Nat, NEW q \in Nat \X Nat, InLine(p), InLine(q),
           NEW j \in 0 .. fb.mode.bypp - 1, NEW k \in 0 .. fb.mode.bypp - 1,
           VesaPlace(p) + j = VesaPlace(q) + k
    PROVE  p = q
<1>1. PICK b \in Nat : b = fb.mode.bypp /\ b > 0
  BY ModeSizes DEF Lines
<1>2. PICK s \in Nat : s = fb.stride /\ s > 0
  BY PixelInLine DEF Lines, InLine
<1>3. PICK u \in Nat, v \in Nat : p = <<u, v>>
  OBVIOUS
<1>4. PICK x \in Nat, y \in Nat : q = <<x, y>>
  OBVIOUS
<1>5. u * b \in Nat /\ u * b + j \in 0 .. s - 1 /\ x * b \in Nat /\ x * b + k \in 0 .. s - 1
  BY <1>1, <1>2, <1>3, <1>4, PixelInLine DEF InLine
<1>6. v * s + u * b + j = y * s + x * b + k
  BY <1>1, <1>2, <1>3, <1>4 DEF VesaPlace
<1>7. PICK r \in 0 .. s - 1 : r = u * b + j
  BY <1>5
<1>8. PICK t \in 0 .. s - 1 : t = x * b + k
  BY <1>5
<1>9. s * v + r = s * y + t
  <2>1. PICK e \in Nat : e = v * s /\ e = s * v
    OBVIOUS
  <2>2. PICK f \in Nat : f = y * s /\ f = s * y
    OBVIOUS
  <2>3. PICK g \in Nat : g = u * b
    BY <1>5
  <2>4. PICK h \in Nat : h = x * b
    BY <1>5
  <2>5. e + g + j = f + h + k /\ r = g + j /\ t = h + k
    BY <1>6, <1>7, <1>8, <2>1, <2>2, <2>3, <2>4
  <2>6. e + r = f + t
    BY <1>1, <2>5
  <2> QED
    BY <2>1, <2>2, <2>6
<1>10. v = y /\ r = t
  BY <1>2, <1>9, OnePlace
<1>11. b * u + j = b * x + k
  BY <1>1, <1>7, <1>8, <1>10
<1>12. u = x
  BY <1>1, <1>11, OnePlace
<1> QED
  BY <1>3, <1>4, <1>10, <1>12

\* A pixel drawn is in the memory.
LEMMA PixelInMemory ==
    ASSUME FrameShape, fb.active = TRUE, Lines, NEW p \in Nat \X Nat, InLine(p),
           NEW k \in 0 .. fb.mode.bypp - 1
    PROVE  VesaPlace(p) + k \in DOMAIN svga_vram /\ VesaPlace(p) \in Nat
<1>1. PICK b \in Nat : b = fb.mode.bypp /\ b > 0
  BY ModeSizes DEF Lines
<1>2. PICK s \in Nat : s = fb.stride /\ s > 0
  BY PixelInLine DEF Lines, InLine
<1>3. PICK u \in Nat, v \in Nat : p = <<u, v>>
  OBVIOUS
<1>4. PICK a \in Nat : a = u * b /\ a + k \in 0 .. s - 1
  BY <1>1, <1>2, <1>3, PixelInLine DEF InLine
<1>5. v < svga_vram_bytes \div s
  BY <1>2, <1>3 DEF InLine, LinesThatFit
<1>6. s * v + (a + k) \in 0 .. svga_vram_bytes - 1
  BY <1>2, <1>4, <1>5, FramebufferAssumption, LineFits
<1>7. PICK e \in Nat : e = v * s /\ e = s * v
  OBVIOUS
<1>8. VesaPlace(p) = e + a
  BY <1>1, <1>2, <1>3, <1>4, <1>7 DEF VesaPlace
<1>9. PICK n \in Nat : DOMAIN svga_vram = 0 .. n - 1 /\ n >= svga_vram_bytes
  BY DEF FrameShape
<1>10. e + (a + k) \in 0 .. n - 1
  <2>1. PICK V \in Nat : V = svga_vram_bytes
    BY FramebufferAssumption
  <2>2. PICK r \in 0 .. s - 1 : r = a + k
    BY <1>4
  <2>3. e + r \in 0 .. V - 1
    BY <1>6, <1>7, <2>1, <2>2
  <2>4. e + r \in 0 .. n - 1
    BY <1>2, <1>9, <2>1, <2>2, <2>3
  <2> QED
    BY <2>2, <2>4
<1>11. (e + a) + k = e + (a + k) /\ e + a \in Nat
  BY <1>1
<1> QED
  BY <1>8, <1>9, <1>10, <1>11

\* The state when the first k bytes of a pixel at first have been stored.
ByteOf(first, k, col, i) == IF i \in first .. first + k - 1 THEN col ELSE svga_vram[i]
Stored(first, k, col, linear) ==
    [fb |-> IF linear = TRUE \/ k = 0 THEN fb
            ELSE [fb EXCEPT !.window_off = ((first + k - 1) \div Bank) * Bank],
     svga_vram |-> [i \in DOMAIN svga_vram |-> ByteOf(first, k, col, i)],
     dat |-> dat, planes |-> vga_planes]
StoresByte(st, addr, col, linear) ==
    IF linear THEN StoreLfb(st, addr, col)
    ELSE StoreWindow([st EXCEPT !.fb.window_off = (addr \div Bank) * Bank], addr % Bank, col)

\* A byte through the aperture, or through the window in its bank.
LEMMA OneByte ==
    ASSUME FrameShape, fb.active = TRUE, NEW first \in Nat, NEW k \in Nat, NEW col,
           NEW linear \in BOOLEAN, first + k \in DOMAIN svga_vram
    PROVE  StoresByte(Stored(first, k, col, linear), first + k, col, linear)
             = Stored(first, k + 1, col, linear)
<1> DEFINE pixels == [i \in DOMAIN svga_vram |-> ByteOf(first, k, col, i)]
<1>1. PICK n \in Nat : DOMAIN svga_vram = 0 .. n - 1
  BY DEF FrameShape
<1>2. first + k \in Nat /\ first + (k + 1) - 1 = first + k /\ first + k \in DOMAIN pixels
  OBVIOUS
<1>3. [pixels EXCEPT ![first + k] = col] = [i \in DOMAIN svga_vram |-> ByteOf(first, k + 1, col, i)]
  <2>1. ASSUME NEW i \in DOMAIN svga_vram
        PROVE  [pixels EXCEPT ![first + k] = col][i] = ByteOf(first, k + 1, col, i)
    <3>1. i \in Int
      BY <1>1
    <3>2. i \in first .. first + (k + 1) - 1 <=> (i = first + k \/ i \in first .. first + k - 1)
      BY <3>1
    <3> QED
      BY <1>2, <3>2 DEF ByteOf
  <2> QED
    BY <2>1
<1>4. CASE linear = TRUE
  <2>1. Stored(first, k, col, linear)
          = [fb |-> fb, svga_vram |-> pixels, dat |-> dat, planes |-> vga_planes]
    BY <1>4 DEF Stored
  <2>2. Stored(first, k + 1, col, linear)
          = [fb |-> fb, svga_vram |-> [i \in DOMAIN svga_vram |-> ByteOf(first, k + 1, col, i)],
             dat |-> dat, planes |-> vga_planes]
    BY <1>4 DEF Stored
  <2> DEFINE st == [fb |-> fb, svga_vram |-> pixels, dat |-> dat, planes |-> vga_planes]
  <2>3. StoresByte(st, first + k, col, linear) = StoreLfb(st, first + k, col)
    BY <1>4 DEF StoresByte
  <2>4. StoreLfb(st, first + k, col) = [st EXCEPT !.svga_vram[first + k] = col]
    BY <1>2 DEF StoreLfb
  <2>5. [st EXCEPT !.svga_vram[first + k] = col]
          = [fb |-> fb, svga_vram |-> [pixels EXCEPT ![first + k] = col],
             dat |-> dat, planes |-> vga_planes]
    <3> HIDE DEF pixels
    <3> QED
      OBVIOUS
  <2> HIDE DEF pixels, st
  <2> QED
    BY <1>3, <2>1, <2>2, <2>3, <2>4, <2>5 DEF st
<1>5. CASE linear = FALSE
  <2> DEFINE W == ((first + k) \div Bank) * Bank
  <2>1. W + ((first + k) % Bank) = first + k
    <3>1. PICK B \in Nat : B = Bank /\ B > 0
      BY FramebufferAssumption
    <3>2. PICK d \in Nat : d = (first + k) \div B
      BY <1>2, <3>1, Divided
    <3>3. PICK r \in Nat : r = (first + k) % B
      BY <1>2, <3>1, Divided
    <3>4. first + k = B * d + r /\ B * d = d * B
      BY <1>2, <3>1, <3>2, <3>3, Divided
    <3> QED
      BY <3>1, <3>2, <3>3, <3>4
  <2>2. /\ [Stored(first, k, col, linear).fb EXCEPT !.window_off = W]
             = [fb EXCEPT !.window_off = W]
        /\ Stored(first, k, col, linear).svga_vram = pixels
        /\ Stored(first, k, col, linear).dat = dat
        /\ Stored(first, k, col, linear).planes = vga_planes
        /\ Stored(first, k, col, linear) = [f \in {"fb", "svga_vram", "dat", "planes"} |->
                                             Stored(first, k, col, linear)[f]]
    <3>1. fb = [f \in FbFields |-> fb[f]]
      BY DEF FrameShape
    <3> HIDE DEF W
    <3>2. \A V : [[fb EXCEPT !.window_off = V] EXCEPT !.window_off = W]
                   = [fb EXCEPT !.window_off = W]
      BY <3>1
    <3> QED
      BY <3>2, <1>5 DEF Stored
  <2>3. Stored(first, k + 1, col, linear)
          = [fb |-> [fb EXCEPT !.window_off = W],
             svga_vram |-> [i \in DOMAIN svga_vram |-> ByteOf(first, k + 1, col, i)],
             dat |-> dat, planes |-> vga_planes]
    BY <1>2, <1>5 DEF Stored
  <2>4. /\ [fb EXCEPT !.window_off = W].svga_active = TRUE
        /\ [fb EXCEPT !.window_off = W].window_off = W
    <3> HIDE DEF W
    <3>1. fb = [f \in FbFields |-> fb[f]] /\ fb.svga_active = TRUE
      BY DEF FrameShape
    <3> QED
      BY <3>1 DEF FbFields
  <2> DEFINE st == [fb |-> [fb EXCEPT !.window_off = W], svga_vram |-> pixels,
                    dat |-> dat, planes |-> vga_planes]
  <2>5. [Stored(first, k, col, linear) EXCEPT !.fb.window_off = W] = st
    <3> HIDE DEF W, pixels
    <3> QED
      BY <2>2
  <2>6. StoresByte(Stored(first, k, col, linear), first + k, col, linear)
          = StoreWindow(st, (first + k) % Bank, col)
    BY <1>5, <2>5 DEF StoresByte
  <2>7. StoreWindow(st, (first + k) % Bank, col) = StoreLfb(st, first + k, col)
    <3>1. st.fb.svga_active = TRUE /\ st.fb.window_off = W
      BY <2>4
    <3> HIDE DEF st, W
    <3> QED
      BY <2>1, <3>1 DEF StoreWindow
  <2>8. StoreLfb(st, first + k, col) = [st EXCEPT !.svga_vram[first + k] = col]
    BY <1>2 DEF StoreLfb
  <2>9. [st EXCEPT !.svga_vram[first + k] = col]
          = [fb |-> [fb EXCEPT !.window_off = W],
             svga_vram |-> [pixels EXCEPT ![first + k] = col], dat |-> dat, planes |-> vga_planes]
    <3> HIDE DEF W, pixels
    <3> QED
      OBVIOUS
  <2> HIDE DEF W, pixels, st
  <2> QED
    BY <1>3, <2>3, <2>6, <2>7, <2>8, <2>9
<1> QED
  BY <1>4, <1>5

\* What DrawVesa leaves when every byte of the pixel is in the memory.
LEMMA Drawn ==
    ASSUME FrameShape, fb.active = TRUE, NEW x \in Nat, NEW y \in Nat, NEW col,
           NEW linear \in BOOLEAN, NEW b \in Nat, b = fb.mode.bypp, NEW first \in Nat,
           first = y * fb.stride + x * fb.mode.bypp,
           \A k \in 0 .. b - 1 : first + k \in DOMAIN svga_vram,
           DrawVesa(x, y, col, linear)
    PROVE  Becomes(Stored(first, b, col, linear))
<1> DEFINE Step(f, k) == IF k = 0 THEN Memory ELSE StoresByte(f[k - 1], first + k - 1, col, linear)
           after == [k \in 0 .. b |-> Stored(first, k, col, linear)]
           Filled[k \in 0 .. b] ==
               IF k = 0 THEN Memory ELSE StoresByte(Filled[k - 1], first + k - 1, col, linear)
<1>1. Becomes(Filled[b])
  BY SMTT(60) DEF DrawVesa, StoresByte
<1>2. Filled = CHOOSE f : f = [k \in 0 .. b |-> Step(f, k)]
  OBVIOUS
<1> HIDE DEF Filled
<1>3. Stored(first, 0, col, linear) = Memory
  <2>1. \A i \in DOMAIN svga_vram : ByteOf(first, 0, col, i) = svga_vram[i]
    <3>1. PICK n \in Nat : DOMAIN svga_vram = 0 .. n - 1
      BY DEF FrameShape
    <3> QED
      BY <3>1 DEF ByteOf
  <2>2. [i \in DOMAIN svga_vram |-> ByteOf(first, 0, col, i)] = svga_vram
    <3>1. svga_vram = [i \in DOMAIN svga_vram |-> svga_vram[i]]
      BY DEF FrameShape
    <3> QED
      BY <2>1, <3>1
  <2> QED
    BY <2>2 DEF Stored, Memory
<1>4. \A k \in 1 .. b : StoresByte(Stored(first, k - 1, col, linear), first + k - 1, col, linear)
                          = Stored(first, k, col, linear)
  <2> SUFFICES ASSUME NEW k \in 1 .. b
               PROVE  StoresByte(Stored(first, k - 1, col, linear), first + k - 1, col, linear)
                        = Stored(first, k, col, linear)
    OBVIOUS
  <2>1. PICK j \in 0 .. b - 1 : j = k - 1 /\ j + 1 = k
    <3>1. k - 1 \in 0 .. b - 1 /\ (k - 1) + 1 = k
      OBVIOUS
    <3> QED
      BY <3>1
  <2>2. StoresByte(Stored(first, j, col, linear), first + j, col, linear)
          = Stored(first, j + 1, col, linear)
    <3>1. j \in Nat /\ first + j \in DOMAIN svga_vram
      OBVIOUS
    <3> QED
      BY <3>1, OneByte, ZenonT(60)
  <2>3. first + j = first + k - 1
    BY <2>1
  <2> QED
    BY <2>1, <2>2, <2>3
<1>5. after = [k \in 0 .. b |-> Step(after, k)]
  <2>1. ASSUME NEW k \in 0 .. b PROVE after[k] = Step(after, k)
    <3>1. CASE k = 0
      BY <1>3, <3>1
    <3>2. CASE k # 0
      <4>1. k \in 1 .. b /\ k - 1 \in 0 .. b
        BY <3>2
      <4>2. after[k] = Stored(first, k, col, linear)
            /\ after[k - 1] = Stored(first, k - 1, col, linear)
        BY <4>1
      <4> HIDE DEF after
      <4> QED
        BY <1>4, <3>2, <4>1, <4>2
    <3> QED
      BY <3>1, <3>2
  <2> QED
    BY <2>1
<1>6. Filled = [k \in 0 .. b |-> Step(Filled, k)]
  <2> HIDE DEF after, Step
  <2> QED
    BY <1>2, <1>5, Zenon
<1>7. \A k \in 0 .. b : Filled[k] = Step(Filled, k)
  <2> HIDE DEF Step
  <2> QED
    BY <1>6
<1> DEFINE S == {k \in Nat : k <= b => Filled[k] = Stored(first, k, col, linear)}
<1>8. 0 \in S
  BY <1>3, <1>7
<1>9. \A k \in Nat : k \in S => k + 1 \in S
  <2> SUFFICES ASSUME NEW k \in Nat, k + 1 <= b, Filled[k] = Stored(first, k, col, linear)
               PROVE  Filled[k + 1] = Stored(first, k + 1, col, linear)
    OBVIOUS
  <2>1. k + 1 \in 1 .. b /\ k + 1 \in 0 .. b /\ (k + 1) - 1 = k /\ k + 1 # 0
    OBVIOUS
  <2>2. Filled[k + 1] = StoresByte(Filled[k], first + (k + 1) - 1, col, linear)
    BY <1>7, <2>1
  <2>3. StoresByte(Stored(first, k, col, linear), first + (k + 1) - 1, col, linear)
          = Stored(first, k + 1, col, linear)
    BY <1>4, <2>1
  <2> QED
    BY <2>2, <2>3
<1>10. \A k \in Nat : k \in S
  <2> HIDE DEF S
  <2> QED
    BY <1>8, <1>9, Induction
<1>11. Filled[b] = Stored(first, b, col, linear)
  BY <1>10
<1> QED
  BY <1>1, <1>11

\* When the screen is cleared of what was drawn only the shape is left to show.
LEMMA NothingDrawn ==
    ASSUME canvas' = Nowhere
    PROVE  /\ VesaDrawn' /\ Drawn13'
           /\ \A p \in DOMAIN canvas' : p \in Nat \X Nat
<1>1. DOMAIN canvas' = {}
  BY DEF Nowhere
<1> QED
  BY <1>1 DEF VesaDrawn, Drawn13

\* The memory as it was.
KeepsMemory == /\ svga_vram' = svga_vram /\ dat' = dat /\ vga_planes' = vga_planes

LEMMA StepVesaMode ==
    ASSUME FrameInv, NEW m \in VesaModes, NEW no_clear \in BOOLEAN, SetVesaMode(m, no_clear)
    PROVE  FrameInv'
<1>1. PICK n \in Nat : DOMAIN svga_vram = 0 .. n - 1
  BY DEF FrameInv, FrameShape
<1>2. PICK b \in Nat \ {0}, w \in Nat \ {0}, h \in Nat \ {0} : b = m.bypp /\ w = m.w /\ h = m.h
  BY ModeSizes
<1>3. PICK s \in Nat \ {0} : s = w * b
  BY <1>2, ModeSizes
<1>4. PICK a \in Nat : a = w * b * h
  <2>1. w * b * h \in Nat
    BY <1>2
  <2> QED
    BY <2>1
<1>5. PICK V \in Nat : V = svga_vram_bytes
  BY FramebufferAssumption
<1>6. Cardinality(DOMAIN svga_vram) \in Nat
  BY <1>1, FS_Interval
<1> DEFINE size == Bigger(Cardinality(DOMAIN svga_vram), Bigger(m.w * m.bypp * m.h, svga_vram_bytes))
<1>7. size \in Nat /\ size >= svga_vram_bytes
  BY <1>2, <1>4, <1>5, <1>6 DEF Bigger
<1>8. /\ svga_vram' = [i \in 0 .. size - 1 |->
                         IF no_clear /\ i \in DOMAIN svga_vram THEN svga_vram[i] ELSE 0]
      /\ fb' = [fb EXCEPT !.active = TRUE, !.mode = m, !.stride = m.w * m.bypp,
                          !.display_start = 0, !.svga_active = TRUE, !.window_off = 0,
                          !.planar = FALSE, !.start = <<0, 0>>]
      /\ canvas' = Nowhere /\ dat' = dat /\ vga_planes' = vga_planes
  BY DEF SetVesaMode
<1>9. fb = [f \in FbFields |-> fb[f]]
  BY DEF FrameInv, FrameShape
<1>10. /\ fb' = [f \in FbFields |-> fb'[f]] /\ fb'.active = TRUE /\ fb'.svga_active = TRUE
       /\ fb'.mode = m /\ fb'.stride = s /\ fb'.display_start = 0 /\ fb'.planar = FALSE
       /\ fb'.start = <<0, 0>> /\ fb'.crtc_start = fb.crtc_start
  BY <1>2, <1>3, <1>8, <1>9 DEF FbFields
<1>11. DOMAIN svga_vram' = 0 .. size - 1 /\ svga_vram' = [i \in DOMAIN svga_vram' |-> svga_vram'[i]]
  <2> HIDE DEF size
  <2> QED
    BY <1>8
<1>12. FrameShape'
  <2> HIDE DEF size
  <2> QED
    BY <1>7, <1>8, <1>10, <1>11, NothingDrawn DEF FrameInv, FrameShape
<1>13. Lines'
  <2>1. 0 * s + 0 * b = 0
    BY <1>2, <1>3
  <2> QED
    BY <1>2, <1>3, <1>10, <2>1 DEF Lines
<1> QED
  BY <1>8, <1>10, <1>12, <1>13, NothingDrawn DEF FrameInv, Graphics13

\* A frame fits into a plane.
LEMMA FrameNat == Frame13 \in Nat /\ Frame13 <= Bank
<1>1. PICK N \in Nat : N = Width13 * Height13 /\ N <= Bank
  BY FramebufferAssumption
<1>2. PICK q \in Nat : q = N \div Planes
  BY FramebufferAssumption, Divided
<1>3. PICK P \in Nat : P = Planes /\ P > 0
  BY FramebufferAssumption
<1>4. PICK r \in Nat : r = N % P
  BY <1>3, Divided
<1>5. N = P * q + r
  BY <1>2, <1>3, <1>4, Divided
<1>6. PICK k \in Nat : P = 1 + k
  <2>1. P - 1 \in Nat /\ P = 1 + (P - 1)
    BY <1>3
  <2> QED
    BY <2>1
<1>7. P * q = q + k * q /\ k * q \in Nat
  BY <1>6
<1> QED
  BY <1>1, <1>2, <1>5, <1>7, FramebufferAssumption DEF Frame13

LEMMA StepMode13 ==
    ASSUME FrameInv, NEW keep \in BOOLEAN, SetMode13(keep)
    PROVE  FrameInv'
<1>1. fb = [f \in FbFields |-> fb[f]]
  BY DEF FrameInv, FrameShape
<1>2. /\ fb' = [f \in FbFields |-> fb'[f]] /\ fb'.active = FALSE /\ fb'.svga_active = FALSE
      /\ fb'.planar = FALSE /\ fb'.crtc_start = 0
  BY <1>1 DEF SetMode13, LeavesSvga, FbFields
<1>3. Frame13 \in Nat /\ Frame13 <= Bank
  BY FrameNat
<1>4. DOMAIN dat' = WindowBytes
  BY DEF SetMode13, FrameInv, FrameShape
<1>5. DOMAIN vga_planes' = 0 .. Planes - 1 /\ \A p \in 0 .. Planes - 1 : DOMAIN vga_planes'[p] = WindowBytes
  <2>1. DOMAIN Zeroed(Bank) = WindowBytes
    BY DEF Zeroed, WindowBytes
  <2>2. vga_planes' = [p \in 0 .. Planes - 1 |-> Zeroed(Bank)]
    BY DEF SetMode13
  <2>3. DOMAIN vga_planes' = 0 .. Planes - 1
    BY <2>2
  <2>4. \A p \in 0 .. Planes - 1 : vga_planes'[p] = Zeroed(Bank)
    BY <2>2
  <2> QED
    BY <2>1, <2>3, <2>4
<1>6. svga_vram' = svga_vram /\ canvas' = Nowhere
  BY DEF SetMode13
<1>7. FrameShape'
  <2>1. 0 \in Nat /\ 0 + Frame13 <= Bank
    BY <1>3
  <2>2. \A p \in DOMAIN canvas' : p \in Nat \X Nat
    BY <1>6, NothingDrawn
  <2>3. /\ \E n \in Nat : DOMAIN svga_vram' = 0 .. n - 1
        /\ svga_vram' = [i \in DOMAIN svga_vram' |-> svga_vram'[i]]
    BY <1>6 DEF FrameInv, FrameShape
  <2> QED
    BY <1>2, <1>4, <1>5, <2>1, <2>2, <2>3 DEF FrameShape
<1> QED
  BY <1>2, <1>6, <1>7, NothingDrawn DEF FrameInv

\* The steps that change a register and no memory.
LEMMA StepRegister ==
    ASSUME FrameInv, KeepsMemory, canvas' = Nowhere, fb' = [f \in FbFields |-> fb'[f]],
           fb'.svga_active = fb'.active, fb'.active \in BOOLEAN, fb'.active = TRUE => fb.active = TRUE,
           fb'.planar \in BOOLEAN, fb'.crtc_start \in Nat, fb'.crtc_start + Frame13 <= Bank,
           fb'.active = TRUE => Lines'
    PROVE  FrameInv'
<1>1. FrameShape'
  BY NothingDrawn DEF FrameInv, FrameShape, KeepsMemory
<1> QED
  BY <1>1, NothingDrawn DEF FrameInv

LEMMA StepText == FrameInv /\ SetTextMode => FrameInv'
<1> SUFFICES ASSUME FrameInv, SetTextMode PROVE FrameInv'
  OBVIOUS
<1>1. fb = [f \in FbFields |-> fb[f]]
  BY DEF FrameInv, FrameShape
<1>2. /\ fb' = [f \in FbFields |-> fb'[f]] /\ fb'.active = FALSE /\ fb'.svga_active = FALSE
      /\ fb'.planar = fb.planar /\ fb'.crtc_start = fb.crtc_start
  BY <1>1 DEF SetTextMode, LeavesSvga, FbFields
<1> QED
  BY <1>2, StepRegister DEF SetTextMode, KeepsMemory, FrameInv, FrameShape

LEMMA StepUnchain == ASSUME FrameInv, NEW chain4 \in BOOLEAN, Unchain(chain4) PROVE FrameInv'
<1>1. fb = [f \in FbFields |-> fb[f]]
  BY DEF FrameInv, FrameShape
<1>2. /\ fb' = [f \in FbFields |-> fb'[f]] /\ fb'.active = fb.active
      /\ fb'.svga_active = fb.svga_active
      /\ fb'.planar \in BOOLEAN /\ fb'.crtc_start = fb.crtc_start
      /\ fb'.mode = fb.mode /\ fb'.stride = fb.stride
      /\ fb'.display_start = fb.display_start /\ fb'.start = fb.start
  BY <1>1 DEF Unchain, FbFields
<1>3. Lines => Lines'
  BY <1>2 DEF Lines
<1> QED
  BY <1>2, <1>3, StepRegister DEF Unchain, KeepsMemory, FrameInv, FrameShape

LEMMA StepCrtc ==
    ASSUME FrameInv, NEW start \in Nat, SetCrtcStart(start) PROVE FrameInv'
<1>1. fb = [f \in FbFields |-> fb[f]]
  BY DEF FrameInv, FrameShape
<1>2. /\ fb' = [f \in FbFields |-> fb'[f]] /\ fb'.active = fb.active
      /\ fb'.svga_active = fb.svga_active
      /\ fb'.planar = fb.planar /\ fb'.crtc_start = start /\ start + Frame13 <= Bank
      /\ fb'.mode = fb.mode /\ fb'.stride = fb.stride
      /\ fb'.display_start = fb.display_start /\ fb'.start = fb.start
  BY <1>1 DEF SetCrtcStart, FbFields, Frame13
<1>3. Lines => Lines'
  BY <1>2 DEF Lines
<1> QED
  BY <1>2, <1>3, StepRegister DEF SetCrtcStart, KeepsMemory, FrameInv, FrameShape

LEMMA StepScanLine ==
    ASSUME FrameInv, NEW n \in Nat, NEW in_pixels \in BOOLEAN, SetScanLine(n, in_pixels)
    PROVE  FrameInv'
<1>1. fb = [f \in FbFields |-> fb[f]] /\ fb.active = TRUE /\ Lines
  BY DEF FrameInv, FrameShape, SetScanLine
<1>2. PICK b \in Nat \ {0}, w \in Nat \ {0} : b = fb.mode.bypp /\ w = fb.mode.w
  BY <1>1, ModeSizes DEF Lines
<1> DEFINE asked == IF in_pixels THEN n * fb.mode.bypp ELSE n
           want  == Bigger(asked, fb.mode.w * fb.mode.bypp)
<1>3. want \in Nat /\ fb.mode.w * fb.mode.bypp <= want
  <2>1. PICK e \in Nat : e = n * b
    OBVIOUS
  <2>2. PICK d \in Nat : d = w * b
    BY <1>2
  <2> QED
    BY <1>2, <2>1, <2>2 DEF Bigger
<1>4. /\ fb' = IF TakesStride(want) /\ want # fb.stride
               THEN [fb EXCEPT !.stride = want, !.start = IF fb.display_start = 0 THEN <<0, 0>>
                                                          ELSE <<-1, -1>>]
               ELSE fb
      /\ canvas' = Nowhere /\ KeepsMemory
  BY DEF SetScanLine, KeepsMemory
<1> HIDE DEF want
<1>5. CASE fb' = fb
  <2>1. Lines'
    BY <1>1, <1>5 DEF Lines
  <2> QED
    BY <1>1, <1>4, <1>5, <2>1, StepRegister DEF FrameInv, FrameShape
<1>6. CASE fb' = [fb EXCEPT !.stride = want, !.start = IF fb.display_start = 0 THEN <<0, 0>>
                                                          ELSE <<-1, -1>>]
  <2>1. /\ fb' = [f \in FbFields |-> fb'[f]] /\ fb'.active = fb.active
        /\ fb'.svga_active = fb.svga_active
        /\ fb'.planar = fb.planar /\ fb'.crtc_start = fb.crtc_start
        /\ fb'.mode = fb.mode /\ fb'.stride = want
        /\ fb'.display_start = fb.display_start
        /\ fb'.start = IF fb.display_start = 0 THEN <<0, 0>> ELSE <<-1, -1>>
    BY <1>1, <1>6 DEF FbFields
  <2>2. 0 * want + 0 * b = 0
    BY <1>3, <1>2
  <2>3. Lines'
    <3>1. CASE fb.display_start = 0
      BY <1>1, <1>2, <1>3, <2>1, <2>2, <3>1 DEF Lines
    <3>2. CASE fb.display_start # 0
      BY <1>1, <1>2, <1>3, <2>1, <3>2 DEF Lines
    <3> QED
      BY <3>1, <3>2
  <2> QED
    BY <1>1, <1>4, <2>1, <2>3, StepRegister DEF FrameInv, FrameShape
<1> QED
  BY <1>4, <1>5, <1>6

LEMMA StepDisplayStart ==
    ASSUME FrameInv, NEW x \in Nat, NEW y \in Nat, SetDisplayStart(x, y)
    PROVE  FrameInv'
<1>1. /\ fb = [f \in FbFields |-> fb[f]] /\ fb.active = TRUE /\ Lines /\ VesaDrawn
      /\ canvas' = canvas /\ KeepsMemory
  BY DEF FrameInv, FrameShape, SetDisplayStart, KeepsMemory
<1>2. PICK b \in Nat \ {0} : b = fb.mode.bypp
  BY <1>1, ModeSizes DEF Lines
<1>3. PICK s \in Nat : s = fb.stride
  BY <1>1 DEF Lines
<1>4. PICK d \in Nat : d = y * s + x * b
  <2>1. y * s \in Nat /\ x * b \in Nat
    BY <1>2
  <2> QED
    BY <2>1
<1>5. /\ fb' = [f \in FbFields |-> fb'[f]] /\ fb'.active = fb.active
      /\ fb'.svga_active = fb.svga_active
      /\ fb'.planar = fb.planar /\ fb'.crtc_start = fb.crtc_start
      /\ fb'.mode = fb.mode /\ fb'.stride = fb.stride
      /\ fb'.display_start = d /\ fb'.start = <<x, y>>
  BY <1>1, <1>2, <1>3, <1>4 DEF SetDisplayStart, FbFields
<1>6. FrameShape'
  BY <1>1, <1>5 DEF FrameInv, FrameShape, KeepsMemory
<1>7. Lines'
  BY <1>1, <1>2, <1>3, <1>4, <1>5 DEF Lines
<1>8. VesaDrawn'
  <2>1. /\ svga_vram' = svga_vram /\ canvas' = canvas
        /\ fb'.mode = fb.mode /\ fb'.stride = fb.stride
    BY <1>1, <1>5 DEF KeepsMemory
  <2>2. \A p : VesaPlace(p)' = VesaPlace(p) /\ InLine(p)' = InLine(p)
    BY <2>1 DEF InLine, VesaPlace, LinesThatFit
  <2> QED
    BY <1>1, <2>1, <2>2 DEF VesaDrawn
<1> QED
  BY <1>1, <1>5, <1>6, <1>7, <1>8 DEF FrameInv, Graphics13

LEMMA StepDrawVesa ==
    ASSUME FrameInv, NEW x \in Nat, NEW y \in Nat, NEW col, NEW linear \in BOOLEAN,
           DrawVesa(x, y, col, linear)
    PROVE  FrameInv'
<1>1. /\ FrameShape /\ fb = [f \in FbFields |-> fb[f]] /\ fb.active = TRUE /\ Lines /\ VesaDrawn
      /\ canvas' = Painted(x, y, col) /\ InLine(<<x, y>>)
  BY DEF FrameInv, FrameShape, DrawVesa, InLine
<1>2. PICK b \in Nat \ {0} : b = fb.mode.bypp
  BY <1>1, ModeSizes DEF Lines
<1>3. PICK s \in Nat : s = fb.stride
  BY <1>1 DEF Lines
<1>4. PICK first \in Nat : first = VesaPlace(<<x, y>>)
  <2>1. <<x, y>> \in Nat \X Nat /\ 0 \in 0 .. fb.mode.bypp - 1
    BY <1>2
  <2> QED
    BY <1>1, <2>1, PixelInMemory
<1>5. /\ first = y * fb.stride + x * fb.mode.bypp
      /\ \A k \in 0 .. b - 1 : first + k \in DOMAIN svga_vram
  BY <1>1, <1>2, <1>4, PixelInMemory DEF VesaPlace
<1>6. Becomes(Stored(first, b, col, linear))
  BY <1>1, <1>2, <1>5, Drawn, ZenonT(60)
<1>7. /\ svga_vram' = [i \in DOMAIN svga_vram |-> ByteOf(first, b, col, i)]
      /\ dat' = dat /\ vga_planes' = vga_planes
      /\ \/ fb' = fb
         \/ fb' = [fb EXCEPT !.window_off = ((first + b - 1) \div Bank) * Bank]
  BY <1>6 DEF Becomes, Stored
<1>8. /\ fb' = [f \in FbFields |-> fb'[f]]
      /\ \A f \in FbFields \ {"window_off"} : fb'[f] = fb[f]
  BY <1>1, <1>7
<1>9. /\ fb'.active = fb.active /\ fb'.svga_active = fb.svga_active
      /\ fb'.planar = fb.planar /\ fb'.crtc_start = fb.crtc_start
      /\ fb'.mode = fb.mode /\ fb'.stride = fb.stride
      /\ fb'.display_start = fb.display_start /\ fb'.start = fb.start
  BY <1>8 DEF FbFields
<1>10. /\ DOMAIN canvas' = DOMAIN canvas \cup {<<x, y>>}
       /\ \A p \in DOMAIN canvas' : canvas'[p] = IF p = <<x, y>> THEN col ELSE canvas[p]
  BY <1>1 DEF Painted
<1>11. FrameShape'
  <2>1. DOMAIN svga_vram' = DOMAIN svga_vram
        /\ svga_vram' = [i \in DOMAIN svga_vram' |-> svga_vram'[i]]
    BY <1>7
  <2>2. \A p \in DOMAIN canvas' : p \in Nat \X Nat
    BY <1>1, <1>10 DEF FrameShape
  <2> QED
    BY <1>1, <1>7, <1>8, <1>9, <2>1, <2>2 DEF FrameShape
<1>12. Lines'
  BY <1>1, <1>9 DEF Lines
<1>13. ASSUME NEW p \in DOMAIN canvas'
       PROVE  /\ InLine(p)
              /\ \A k \in 0 .. b - 1 : svga_vram'[VesaPlace(p) + k] = canvas'[p]
  <2>1. p \in Nat \X Nat /\ InLine(p)
    BY <1>1, <1>10 DEF FrameShape, VesaDrawn
  <2>2. ASSUME NEW k \in 0 .. b - 1 PROVE svga_vram'[VesaPlace(p) + k] = canvas'[p]
    <3>1. VesaPlace(p) + k \in DOMAIN svga_vram /\ VesaPlace(p) \in Nat
      BY <1>1, <1>2, <2>1, PixelInMemory
    <3>2. svga_vram'[VesaPlace(p) + k] = ByteOf(first, b, col, VesaPlace(p) + k)
      BY <1>7, <3>1
    <3>3. CASE p = <<x, y>>
      <4>1. VesaPlace(p) + k \in first .. first + b - 1
        BY <1>2, <1>4, <3>3
      <4> QED
        BY <1>10, <3>2, <3>3, <4>1 DEF ByteOf
    <3>4. CASE p # <<x, y>>
      <4>1. VesaPlace(p) + k \notin first .. first + b - 1
        <5> SUFFICES ASSUME VesaPlace(p) + k \in first .. first + b - 1 PROVE FALSE
          OBVIOUS
        <5>1. PICK v \in Nat : v = VesaPlace(p)
          BY <3>1
        <5>2. PICK j \in 0 .. b - 1 : v + k = first + j
          <6>1. v + k - first \in 0 .. b - 1 /\ v + k = first + (v + k - first)
            BY <1>2, <5>1
          <6> QED
            BY <6>1
        <5> QED
          BY <1>1, <1>2, <1>4, <2>1, <3>4, <5>1, <5>2, PixelsApart
      <4>2. p \in DOMAIN canvas /\ canvas'[p] = canvas[p]
        BY <1>10, <3>4
      <4>3. svga_vram[VesaPlace(p) + k] = canvas[p]
        BY <1>1, <1>2, <4>2 DEF VesaDrawn
      <4> QED
        BY <3>2, <4>1, <4>2, <4>3 DEF ByteOf
    <3> QED
      BY <3>3, <3>4
  <2> QED
    BY <2>1, <2>2
<1>14. VesaDrawn'
  BY <1>2, <1>9, <1>13 DEF VesaDrawn, InLine, VesaPlace, LinesThatFit
<1> QED
  BY <1>1, <1>9, <1>11, <1>12, <1>14 DEF FrameInv, Graphics13

\* A pixel of mode 13h, and its plane and the place in it.
LEMMA Pixel13 ==
    ASSUME NEW p \in Nat \X Nat, p[1] < Width13, p[2] < Height13
    PROVE  /\ Place13(p) \in 0 .. (Width13 * Height13) - 1
           /\ Place13(p) \in WindowBytes
           /\ Place13(p) % Planes \in 0 .. Planes - 1
           /\ Place13(p) \div Planes \in 0 .. Frame13 - 1
<1>1. PICK W \in Nat, H \in Nat, N \in Nat : W = Width13 /\ H = Height13 /\ N = W * H
  <2>1. Width13 \in Nat /\ Height13 \in Nat /\ Width13 * Height13 \in Nat
    BY FramebufferAssumption
  <2> QED
    BY <2>1
<1>2. PICK x \in Nat, y \in Nat : p = <<x, y>> /\ x < W /\ y < H
  BY <1>1
<1>3. PICK k \in Nat : H = y + 1 + k
  <2>1. H - y - 1 \in Nat /\ H = y + 1 + (H - y - 1)
    BY <1>1, <1>2
  <2> QED
    BY <2>1
<1>4. N = y * W + W + k * W /\ k * W \in Nat /\ y * W \in Nat
  BY <1>1, <1>3
<1>5. PICK i \in Nat : i = Place13(p)
  BY <1>1, <1>2, <1>4 DEF Place13
<1>6. i < N
  BY <1>1, <1>2, <1>4, <1>5 DEF Place13
<1>7. PICK P \in Nat : P = Planes /\ P > 0
  BY FramebufferAssumption
<1>8. PICK d \in Nat, r \in 0 .. P - 1 : d = i \div P /\ r = i % P /\ i = P * d + r
  BY <1>7, Divided
<1>9. PICK q \in Nat : q = N \div P /\ N = P * q
  <2>1. N % P = 0
    BY <1>1, <1>7, FramebufferAssumption
  <2>2. PICK q \in Nat : q = N \div P
    BY <1>7, Divided
  <2>3. N = P * q + 0
    BY <1>7, <2>1, <2>2, Divided
  <2>4. P * q + 0 = P * q
    BY <1>7
  <2> QED
    BY <2>2, <2>3, <2>4
<1>10. d < q
  <2>1. CASE d >= q
    <3>1. PICK e \in Nat : d = q + e
      <4>1. d - q \in Nat /\ d = q + (d - q)
        BY <2>1
      <4> QED
        BY <4>1
    <3>2. P * d = P * q + P * e /\ P * e \in Nat /\ P * q \in Nat
      BY <1>7, <3>1
    <3> QED
      BY <1>6, <1>8, <1>9, <3>2
  <2> QED
    BY <2>1
<1>11. PICK M \in Nat : M = Bank /\ N <= M
  BY <1>1, FramebufferAssumption
<1>12. Frame13 = q
  BY <1>1, <1>7, <1>9 DEF Frame13
<1>13. /\ Place13(p) \in 0 .. N - 1 /\ Place13(p) \in 0 .. M - 1
  BY <1>5, <1>6, <1>11
<1>14. Place13(p) % Planes \in 0 .. P - 1 /\ Place13(p) \div Planes \in 0 .. q - 1
  BY <1>5, <1>7, <1>8, <1>10
<1> QED
  BY <1>1, <1>7, <1>11, <1>12, <1>13, <1>14 DEF WindowBytes

\* Two pixels have two places, in the memory and in the planes.
LEMMA Places13 ==
    ASSUME NEW p \in Nat \X Nat, NEW q \in Nat \X Nat, p[1] < Width13, p[2] < Height13,
           q[1] < Width13, q[2] < Height13
    PROVE  /\ Place13(p) = Place13(q) => p = q
           /\ Place13(p) % Planes = Place13(q) % Planes
              /\ Place13(p) \div Planes = Place13(q) \div Planes => p = q
<1>1. PICK W \in Nat : W = Width13
  BY FramebufferAssumption
<1>2. PICK u \in Nat, v \in Nat : p = <<u, v>> /\ u < W
  BY <1>1
<1>3. PICK x \in Nat, y \in Nat : q = <<x, y>> /\ x < W
  BY <1>1
<1>4. Place13(p) = W * v + u /\ Place13(q) = W * y + x
  BY <1>1, <1>2, <1>3 DEF Place13
<1>5. u \in 0 .. W - 1 /\ x \in 0 .. W - 1 /\ W > 0
  BY <1>2, <1>3
<1>6. Place13(p) = Place13(q) => p = q
  <2> SUFFICES ASSUME Place13(p) = Place13(q) PROVE p = q
    OBVIOUS
  <2>1. W * v + u = W * y + x
    BY <1>4
  <2>2. v \in Int /\ y \in Int
    OBVIOUS
  <2>3. v = y /\ u = x
    BY <1>5, <2>1, <2>2, OnePlace
  <2> QED
    BY <1>2, <1>3, <2>3
<1>7. PICK i \in Nat, j \in Nat : i = Place13(p) /\ j = Place13(q)
  <2>1. Place13(p) \in Nat /\ Place13(q) \in Nat
    BY Pixel13
  <2> QED
    BY <2>1
<1>8. PICK P \in Nat : P = Planes /\ P > 0
  BY FramebufferAssumption
<1>9. i % P = j % P /\ i \div P = j \div P => i = j
  BY <1>8, Divided
<1> QED
  BY <1>6, <1>7, <1>8, <1>9

\* What Draw13 leaves.
Plane(p, i, off, col) ==
    IF p \in {i % Planes} THEN [vga_planes[p] EXCEPT ![off] = col] ELSE vga_planes[p]

Leaves13(x, y, col, i) ==
    /\ fb.active = FALSE /\ fb.video_mode = 19 /\ x < Width13 /\ y < Height13
    /\ svga_vram' = svga_vram /\ canvas' = Painted(x, y, col)
    /\ fb.planar = TRUE =>
         /\ fb' = [fb EXCEPT !.map_mask = {i % Planes}] /\ dat' = dat
         /\ vga_planes' = [p \in DOMAIN vga_planes |->
                             Plane(p, i, fb.crtc_start + (i \div Planes), col)]
    /\ fb.planar = FALSE =>
         fb' = fb /\ dat' = [dat EXCEPT ![i] = col] /\ vga_planes' = vga_planes

LEMMA Drawn13Is ==
    ASSUME FrameShape, NEW x \in Nat, NEW y \in Nat, NEW col, Draw13(x, y, col)
    PROVE  Leaves13(x, y, col, Place13(<<x, y>>))
<1> SUFFICES ASSUME NEW i, i = Place13(<<x, y>>) PROVE Leaves13(x, y, col, i)
  OBVIOUS
<1>1. /\ fb = [f \in FbFields |-> fb[f]] /\ fb.active = FALSE /\ fb.svga_active = FALSE
      /\ fb.planar \in BOOLEAN
  BY DEF FrameShape, Draw13
<1>2. i = y * Width13 + x
  BY DEF Place13
<1>3. /\ fb.video_mode = 19 /\ x < Width13 /\ y < Height13 /\ canvas' = Painted(x, y, col)
      /\ Becomes(IF fb.planar
                 THEN StoreWindow([Memory EXCEPT !.fb.map_mask = {i % Planes}],
                                  fb.crtc_start + (i \div Planes), col)
                 ELSE StoreWindow(Memory, i, col))
  BY <1>2 DEF Draw13
<1>4. CASE fb.planar = TRUE
  <2> DEFINE f2  == [fb EXCEPT !.map_mask = {i % Planes}]
             st  == [fb |-> f2, svga_vram |-> svga_vram, dat |-> dat, planes |-> vga_planes]
             off == fb.crtc_start + (i \div Planes)
  <2>1. [Memory EXCEPT !.fb.map_mask = {i % Planes}] = st
    BY DEF Memory
  <2>2. f2.svga_active = FALSE /\ f2.planar = TRUE /\ f2.map_mask = {i % Planes}
    BY <1>1, <1>4 DEF FbFields
  <2> HIDE DEF f2
  <2>3. StoreWindow(st, off, col)
          = [st EXCEPT !.planes = [p \in DOMAIN st.planes |->
               IF p \in st.fb.map_mask THEN [st.planes[p] EXCEPT ![off] = col] ELSE st.planes[p]]]
    <3> HIDE DEF off
    <3> QED
      BY <2>2 DEF StoreWindow
  <2>4. [p \in DOMAIN st.planes |->
           IF p \in st.fb.map_mask THEN [st.planes[p] EXCEPT ![off] = col] ELSE st.planes[p]]
          = [p \in DOMAIN vga_planes |-> Plane(p, i, off, col)]
    <3> HIDE DEF off
    <3> QED
      BY <2>2 DEF Plane
  <2>5. StoreWindow(st, off, col)
          = [fb |-> f2, svga_vram |-> svga_vram, dat |-> dat,
             planes |-> [p \in DOMAIN vga_planes |-> Plane(p, i, off, col)]]
    <3> HIDE DEF off
    <3> QED
      BY <2>3, <2>4
  <2>6. Becomes(StoreWindow(st, off, col))
    BY <1>3, <1>4, <2>1
  <2>7. /\ fb' = f2 /\ svga_vram' = svga_vram /\ dat' = dat
        /\ vga_planes' = [p \in DOMAIN vga_planes |-> Plane(p, i, off, col)]
    <3> HIDE DEF off, st
    <3> QED
      BY <2>5, <2>6 DEF Becomes
  <2> QED
    BY <1>1, <1>3, <1>4, <2>7 DEF f2, Leaves13
<1>5. CASE fb.planar = FALSE
  <2>1. Becomes(StoreWindow(Memory, i, col))
    BY <1>3, <1>5
  <2>2. StoreWindow(Memory, i, col) = [Memory EXCEPT !.dat[i] = col]
    BY <1>1, <1>5 DEF StoreWindow, Memory
  <2>3. [Memory EXCEPT !.dat[i] = col]
          = [fb |-> fb, svga_vram |-> svga_vram, dat |-> [dat EXCEPT ![i] = col],
             planes |-> vga_planes]
    BY DEF Memory
  <2> QED
    BY <1>1, <1>3, <1>5, <2>1, <2>2, <2>3 DEF Becomes, Leaves13
<1> QED
  BY <1>1, <1>4, <1>5

LEMMA StepDraw13 ==
    ASSUME FrameInv, NEW x \in Nat, NEW y \in Nat, NEW col, Draw13(x, y, col)
    PROVE  FrameInv'
<1>1. FrameShape /\ fb = [f \in FbFields |-> fb[f]]
  BY DEF FrameInv, FrameShape
<1>2. PICK i : i = Place13(<<x, y>>)
  OBVIOUS
<1>3. /\ fb.active = FALSE /\ fb.video_mode = 19 /\ x < Width13 /\ y < Height13
      /\ svga_vram' = svga_vram /\ canvas' = Painted(x, y, col)
      /\ fb.planar = TRUE =>
           /\ fb' = [fb EXCEPT !.map_mask = {i % Planes}] /\ dat' = dat
           /\ vga_planes' = [p \in DOMAIN vga_planes |->
                               Plane(p, i, fb.crtc_start + (i \div Planes), col)]
      /\ fb.planar = FALSE =>
           fb' = fb /\ dat' = [dat EXCEPT ![i] = col] /\ vga_planes' = vga_planes
  <2>1. Leaves13(x, y, col, i)
    BY <1>1, <1>2, Drawn13Is
  <2> QED
    BY <2>1 DEF Leaves13
<1>4. fb.planar \in BOOLEAN /\ Drawn13
  BY <1>3 DEF FrameInv, FrameShape, Graphics13
<1>5. /\ fb' = [f \in FbFields |-> fb'[f]]
      /\ fb'.active = fb.active /\ fb'.svga_active = fb.svga_active
      /\ fb'.planar = fb.planar /\ fb'.crtc_start = fb.crtc_start
      /\ fb'.video_mode = fb.video_mode
  <2>1. CASE fb.planar = TRUE
    BY <1>1, <1>3, <2>1 DEF FbFields
  <2>2. CASE fb.planar = FALSE
    BY <1>1, <1>3, <2>2
  <2> QED
    BY <1>4, <2>1, <2>2
<1>6. /\ DOMAIN canvas' = DOMAIN canvas \cup {<<x, y>>}
      /\ \A p \in DOMAIN canvas' : canvas'[p] = IF p = <<x, y>> THEN col ELSE canvas[p]
  BY <1>3 DEF Painted
<1>7. \A p \in DOMAIN canvas' : p \in Nat \X Nat
  BY <1>1, <1>6 DEF FrameShape
<1>8. /\ DOMAIN dat' = WindowBytes /\ DOMAIN vga_planes' = 0 .. Planes - 1
      /\ \A p \in 0 .. Planes - 1 : DOMAIN vga_planes'[p] = WindowBytes
  <2>1. CASE fb.planar = TRUE
    <3>1. \A p \in 0 .. Planes - 1 :
             vga_planes'[p] = Plane(p, i, fb.crtc_start + (i \div Planes), col)
      BY <1>1, <1>3, <2>1 DEF FrameShape
    <3>2. \A p, off : DOMAIN Plane(p, i, off, col) = DOMAIN vga_planes[p]
      BY DEF Plane
    <3> QED
      BY <1>1, <1>3, <2>1, <3>1, <3>2 DEF FrameShape
  <2>2. CASE fb.planar = FALSE
    BY <1>1, <1>3, <2>2 DEF FrameShape
  <2> QED
    BY <1>4, <2>1, <2>2
<1>9. FrameShape'
  BY <1>1, <1>3, <1>5, <1>7, <1>8 DEF FrameShape
<1>10. ASSUME NEW p \in DOMAIN canvas'
       PROVE  /\ p[1] < Width13 /\ p[2] < Height13
              /\ fb.planar = TRUE =>
                   vga_planes'[Place13(p) % Planes][fb.crtc_start + (Place13(p) \div Planes)]
                     = canvas'[p]
              /\ fb.planar = FALSE => dat'[Place13(p)] = canvas'[p]
  <2>1. p \in Nat \X Nat /\ p[1] < Width13 /\ p[2] < Height13
    <3>1. CASE p = <<x, y>>
      BY <1>3, <1>7, <3>1
    <3>2. CASE p # <<x, y>>
      BY <1>4, <1>6, <1>7, <3>2 DEF Drawn13
    <3> QED
      BY <3>1, <3>2
  <2>2. PICK j, r, d : j = Place13(p) /\ r = Place13(p) % Planes /\ d = Place13(p) \div Planes
    OBVIOUS
  <2>3. j \in WindowBytes /\ r \in 0 .. Planes - 1 /\ d \in 0 .. Frame13 - 1
    BY <2>1, <2>2, Pixel13
  <2>4. p # <<x, y>> => /\ j # i
                        /\ ~ (r = i % Planes /\ d = i \div Planes)
    <3>1. <<x, y>> \in Nat \X Nat /\ <<x, y>>[1] = x /\ <<x, y>>[2] = y
      OBVIOUS
    <3> QED
      BY <1>2, <1>3, <2>1, <2>2, <3>1, Places13
  <2>5. CASE fb.planar = FALSE
    <3>1. dat'[j] = IF j = i THEN col ELSE dat[j]
      BY <1>1, <1>3, <2>3, <2>5 DEF FrameShape
    <3>2. CASE p = <<x, y>>
      BY <1>2, <1>6, <2>1, <2>2, <2>5, <3>1, <3>2
    <3>3. CASE p # <<x, y>>
      <4>1. p \in DOMAIN canvas /\ canvas'[p] = canvas[p] /\ dat[j] = canvas[p]
        BY <1>4, <1>6, <2>2, <2>5, <3>3 DEF Drawn13
      <4> QED
        BY <2>1, <2>2, <2>4, <2>5, <3>1, <3>3, <4>1
    <3> QED
      BY <3>2, <3>3
  <2>6. CASE fb.planar = TRUE
    <3>1. PICK B \in Nat, F \in Nat, s \in Nat :
             B = Bank /\ F = Frame13 /\ s = fb.crtc_start /\ s + F <= B
      <4>1. Frame13 \in Nat
        BY <2>3, FrameNat
      <4> QED
        BY <1>1, <4>1, FramebufferAssumption DEF FrameShape
    <3>2. PICK o \in Nat : o = i \div Planes
      <4>1. <<x, y>> \in Nat \X Nat /\ <<x, y>>[1] = x /\ <<x, y>>[2] = y
        OBVIOUS
      <4>2. i \div Planes \in 0 .. Frame13 - 1
        BY <1>2, <1>3, <4>1, Pixel13
      <4> QED
        BY <4>2
    <3>3. PICK g : g = i % Planes
      OBVIOUS
    <3>4. vga_planes'[r] = Plane(r, i, s + o, col)
      BY <1>1, <1>3, <2>3, <2>6, <3>1, <3>2 DEF FrameShape
    <3>5. DOMAIN vga_planes[r] = WindowBytes /\ s + d \in WindowBytes /\ d \in Nat
      BY <1>1, <2>3, <3>1, SMTT(30) DEF FrameShape, WindowBytes
    <3>6. vga_planes'[r][s + d] = IF r = g /\ d = o THEN col ELSE vga_planes[r][s + d]
      <4>1. s + d = s + o <=> d = o
        BY <3>5
      <4>2. CASE r = g
        BY <3>3, <3>4, <3>5, <4>1, <4>2 DEF Plane
      <4>3. CASE r # g
        BY <3>3, <3>4, <4>3 DEF Plane
      <4> QED
        BY <4>2, <4>3
    <3>7. CASE p = <<x, y>>
      BY <1>2, <1>6, <2>1, <2>2, <2>6, <3>1, <3>2, <3>3, <3>6, <3>7
    <3>8. CASE p # <<x, y>>
      <4>1. p \in DOMAIN canvas /\ canvas'[p] = canvas[p] /\ vga_planes[r][s + d] = canvas[p]
        BY <1>4, <1>6, <2>2, <2>6, <3>1, <3>8 DEF Drawn13
      <4> QED
        BY <2>1, <2>2, <2>4, <2>6, <3>1, <3>2, <3>3, <3>6, <3>8, <4>1
    <3> QED
      BY <3>7, <3>8
  <2> QED
    BY <1>4, <2>5, <2>6
<1>11. Drawn13'
  BY <1>5, <1>10 DEF Drawn13, Place13
<1> QED
  BY <1>3, <1>5, <1>9, <1>11 DEF FrameInv

LEMMA Numbered == ASSUME NEW n \in Nat PROVE Cardinality(0 .. n - 1) = n
<1>1. n - 1 \in Int /\ 0 \in Int
  OBVIOUS
<1>2. Cardinality(0 .. n - 1) = IF 0 > n - 1 THEN 0 ELSE (n - 1) - 0 + 1
  BY <1>1, FS_Interval
<1> QED
  BY <1>2

\* The frame starts where the start says, if what is shown from there fits.
LEMMA StartFits ==
    ASSUME FrameShape, fb.active = TRUE, Lines, fb.start[1] >= 0,
           \/ fb.start = <<0, 0>>
           \/ /\ fb.start[2] + fb.mode.h <= LinesThatFit
              /\ (fb.start[1] + fb.mode.w) * fb.mode.bypp <= fb.stride
    PROVE  /\ GetDisplayStart = fb.start
           /\ fb.start \in Nat \X Nat
           /\ fb.display_start = fb.start[2] * fb.stride + fb.start[1] * fb.mode.bypp
           /\ \/ fb.display_start = 0
              \/ fb.display_start + ((fb.mode.h - 1) * fb.stride + fb.mode.w * fb.mode.bypp)
                   <= Cardinality(DOMAIN svga_vram)
<1>1. PICK b \in Nat \ {0}, w \in Nat \ {0}, h \in Nat \ {0} :
         b = fb.mode.bypp /\ w = fb.mode.w /\ h = fb.mode.h
  BY ModeSizes DEF Lines
<1>2. PICK s \in Nat : s = fb.stride /\ w * b <= s /\ s > 0
  <2>1. w * b \in Nat \ {0} /\ fb.stride \in Nat /\ w * b <= fb.stride
    BY <1>1, ModeSizes DEF Lines
  <2> QED
    BY <2>1
<1>3. PICK x \in Nat, y \in Nat : fb.start = <<x, y>>
  BY DEF Lines
<1>4. PICK d \in Nat : d = fb.display_start /\ d = y * s + x * b
  <2>1. fb.display_start = fb.start[2] * fb.stride + fb.start[1] * fb.mode.bypp
        /\ fb.display_start \in Nat
    BY DEF Lines
  <2> QED
    BY <1>1, <1>2, <1>3, <2>1
<1>5. PICK a \in Nat : a = x * b
  OBVIOUS
<1>6. PICK e \in Nat : e = w * b
  OBVIOUS
<1>7. (x + w) * b = a + e
  BY <1>5, <1>6
<1>8. e > 0
  BY <1>1, <1>6, ModeSizes DEF Lines
<1>9. a < s
  <2>1. CASE fb.start = <<0, 0>>
    BY <1>2, <1>3, <1>5, <2>1
  <2>2. CASE (fb.start[1] + fb.mode.w) * fb.mode.bypp <= fb.stride
    <3>1. (x + w) * b <= s
      BY <1>1, <1>2, <1>3, <2>2
    <3> QED
      BY <1>2, <1>5, <1>7, <1>8, <3>1
  <2> QED
    BY <2>1, <2>2
<1>10. d = s * y + a /\ d % s = a /\ d \div s = y
  <2>1. d = s * y + a
    <3>1. y * s = s * y
      BY <1>2
    <3> QED
      BY <1>4, <1>5, <3>1
  <2> QED
    BY <1>2, <1>9, <2>1, Remainder, Quotient
<1>11. a \div b = x
  <2>1. a = b * x + 0 /\ 0 \in 0 .. b - 1
    BY <1>1, <1>5
  <2> QED
    BY <1>1, <2>1, Quotient
<1>12. GetDisplayStart = fb.start
  BY <1>1, <1>2, <1>3, <1>4, <1>10, <1>11 DEF GetDisplayStart
<1>13. CASE fb.start = <<0, 0>>
  <2>1. x = 0 /\ y = 0
    BY <1>3, <1>13
  <2>2. d = 0
    BY <1>2, <1>4, <1>5, <2>1
  <2> QED
    BY <1>1, <1>2, <1>3, <1>4, <1>12, <2>2
<1>14. CASE /\ fb.start[2] + fb.mode.h <= LinesThatFit
            /\ (fb.start[1] + fb.mode.w) * fb.mode.bypp <= fb.stride
  <2>1. a + e <= s
    BY <1>1, <1>2, <1>3, <1>7, <1>14
  <2>2. PICK V \in Nat, t \in Nat, r \in Nat :
           V = svga_vram_bytes /\ t = V \div s /\ r = V % s /\ V = s * t + r
    <3>1. PICK V \in Nat : V = svga_vram_bytes
      BY FramebufferAssumption
    <3>2. PICK t \in Nat : t = V \div s
      BY <1>2, Divided
    <3>3. PICK r \in Nat : r = V % s
      BY <1>2, Divided
    <3>4. V = s * (V \div s) + (V % s)
      BY <1>2, Divided
    <3> QED
      BY <3>1, <3>2, <3>3, <3>4
  <2>3. y + h <= t
    BY <1>1, <1>2, <1>3, <1>14, <2>2 DEF LinesThatFit
  <2>4. PICK n \in Nat : DOMAIN svga_vram = 0 .. n - 1 /\ n >= V
    BY <2>2 DEF FrameShape
  <2>5. Cardinality(DOMAIN svga_vram) = n
    BY <2>4, Numbered
  <2>6. PICK g \in Nat : h = g + 1
    <3>1. h - 1 \in Nat /\ h = (h - 1) + 1
      OBVIOUS
    <3> QED
      BY <3>1
  <2>7. PICK k \in Nat : t = y + g + 1 + k
    <3>1. t - y - g - 1 \in Nat /\ t = y + g + 1 + (t - y - g - 1)
      BY <2>2, <2>3, <2>6
    <3> QED
      BY <3>1
  <2>8. s * t = s * y + s * g + s + s * k /\ s * k \in Nat /\ s * y \in Nat /\ s * g \in Nat
    BY <2>7
  <2>9. (h - 1) * s = s * g
    BY <2>6
  <2>10. d + ((h - 1) * s + e) <= n
    BY <1>10, <2>1, <2>2, <2>4, <2>8, <2>9
  <2> QED
    BY <1>1, <1>2, <1>3, <1>4, <1>6, <1>12, <2>5, <2>10
<1> QED
  BY <1>13, <1>14

\* A pixel of a VESA mode, seen from the start.
LEMMA VesaShown ==
    ASSUME FrameShape, fb.active = TRUE, Lines, VesaDrawn, fb.start \in Nat \X Nat,
           fb.display_start = fb.start[2] * fb.stride + fb.start[1] * fb.mode.bypp,
           \/ fb.display_start = 0
           \/ fb.display_start + ((fb.mode.h - 1) * fb.stride + fb.mode.w * fb.mode.bypp)
                <= Cardinality(DOMAIN svga_vram),
           NEW x \in Nat, NEW y \in Nat,
           NEW p, p = <<x + fb.start[1], y + fb.start[2]>>, p \in DOMAIN canvas
    PROVE  ShownOf(x, y) = {canvas[p]}
<1>1. PICK b \in Nat \ {0} : b = fb.mode.bypp
  BY ModeSizes DEF Lines
<1>2. PICK w \in Nat, h \in Nat \ {0} : w = fb.mode.w /\ h = fb.mode.h
  BY ModeSizes DEF Lines
<1>3. PICK s \in Nat : s = fb.stride
  BY DEF Lines
<1>4. PICK u \in Nat, v \in Nat : fb.start = <<u, v>>
  OBVIOUS
<1>5. PICK d \in Nat : d = fb.display_start /\ d = v * s + u * b
  BY <1>1, <1>3, <1>4 DEF Lines
<1>6. PICK n \in Nat : DOMAIN svga_vram = 0 .. n - 1
  BY DEF FrameShape
<1>7. Cardinality(DOMAIN svga_vram) = n
  BY <1>6, Numbered
<1> DEFINE off == IF fb.display_start + ((fb.mode.h - 1) * fb.stride + fb.mode.w * fb.mode.bypp)
                       > Cardinality(DOMAIN svga_vram) THEN 0 ELSE fb.display_start
<1>8. off = d
  <2>1. PICK c1 \in Nat : c1 = (h - 1) * s + w * b
    <3>1. PICK g \in Nat : g = h - 1
      OBVIOUS
    <3>2. g * s + w * b \in Nat
      BY <1>1
    <3> QED
      BY <3>1, <3>2
  <2> QED
    BY <1>1, <1>2, <1>3, <1>5, <1>7, <2>1
<1>9. ShownOf(x, y) = {svga_vram[off + y * fb.stride + x * fb.mode.bypp + k] :
                         k \in 0 .. fb.mode.bypp - 1}
  BY DEF ShownOf
<1> HIDE DEF off
<1>10. ASSUME NEW k \in 0 .. b - 1
       PROVE  svga_vram[off + y * fb.stride + x * fb.mode.bypp + k] = canvas[p]
  <2>1. VesaPlace(p) = (y + v) * s + (x + u) * b
    BY <1>1, <1>3, <1>4 DEF VesaPlace
  <2>2. (y + v) * s = y * s + v * s /\ (x + u) * b = x * b + u * b
    BY <1>1, <1>3
  <2>3. y * s \in Nat /\ v * s \in Nat /\ x * b \in Nat /\ u * b \in Nat
    BY <1>1
  <2>4. d + y * s + x * b + k = VesaPlace(p) + k
    BY <1>5, <2>1, <2>2, <2>3
  <2>5. svga_vram[VesaPlace(p) + k] = canvas[p]
    BY <1>1 DEF VesaDrawn
  <2> QED
    BY <1>1, <1>3, <1>8, <2>4, <2>5
<1>11. 0 \in 0 .. b - 1
  OBVIOUS
<1> QED
  BY <1>1, <1>9, <1>10, <1>11

LEMMA FrameShows == FrameInv => FrameShowsDrawing
<1> SUFFICES ASSUME FrameInv PROVE FrameShowsDrawing
  OBVIOUS
<1>0. FrameShape /\ fb.active \in BOOLEAN /\ fb.planar \in BOOLEAN
  BY DEF FrameInv, FrameShape
<1>1. CASE fb.active = TRUE
  <2>1. Lines /\ VesaDrawn
    BY <1>1 DEF FrameInv
  <2>2. ASSUME fb.start[1] >= 0,
               \/ fb.start = <<0, 0>>
               \/ /\ fb.start[2] + fb.mode.h <= LinesThatFit
                  /\ (fb.start[1] + fb.mode.w) * fb.mode.bypp <= fb.stride
        PROVE  /\ GetDisplayStart = fb.start
               /\ \A x \in 0 .. fb.mode.w - 1, y \in 0 .. fb.mode.h - 1 :
                    <<x + fb.start[1], y + fb.start[2]>> \in DOMAIN canvas =>
                      ShownOf(x, y) = {canvas[<<x + fb.start[1], y + fb.start[2]>>]}
    <3>1. /\ GetDisplayStart = fb.start
          /\ fb.start \in Nat \X Nat
          /\ fb.display_start = fb.start[2] * fb.stride + fb.start[1] * fb.mode.bypp
          /\ \/ fb.display_start = 0
             \/ fb.display_start + ((fb.mode.h - 1) * fb.stride + fb.mode.w * fb.mode.bypp)
                  <= Cardinality(DOMAIN svga_vram)
      BY <1>0, <1>1, <2>1, <2>2, StartFits
    <3>2. ASSUME NEW x \in 0 .. fb.mode.w - 1, NEW y \in 0 .. fb.mode.h - 1,
                 <<x + fb.start[1], y + fb.start[2]>> \in DOMAIN canvas
          PROVE  ShownOf(x, y) = {canvas[<<x + fb.start[1], y + fb.start[2]>>]}
      <4>1. x \in Nat /\ y \in Nat
        BY <2>1, ModeSizes DEF Lines
      <4> QED
        BY <1>0, <1>1, <2>1, <3>1, <3>2, <4>1, VesaShown
    <3> QED
      BY <3>1, <3>2
  <2> QED
    BY <1>1, <2>2 DEF FrameShowsDrawing
<1>2. CASE fb.active = FALSE
  <2>1. ASSUME fb.video_mode = 19, NEW p \in DOMAIN canvas
        PROVE  ShownOf(p[1], p[2]) = {canvas[p]}
    <3>1. Drawn13 /\ p \in Nat \X Nat
      BY <1>0, <1>2, <2>1 DEF FrameInv, FrameShape, Graphics13
    <3>2. ShownOf(p[1], p[2])
            = IF fb.planar THEN {vga_planes[Place13(p) % Planes][fb.crtc_start + (Place13(p) \div Planes)]}
              ELSE {dat[Place13(p)]}
      BY <1>2 DEF ShownOf, Place13
    <3> QED
      BY <1>0, <3>1, <3>2 DEF Drawn13
  <2> QED
    BY <1>2, <2>1 DEF FrameShowsDrawing
<1> QED
  BY <1>0, <1>1, <1>2

LEMMA FrameStart == FrameInit => FrameInv
<1> SUFFICES ASSUME FrameInit PROVE FrameInv
  OBVIOUS
<1>1. DOMAIN Zeroed(Bank) = WindowBytes
  BY DEF Zeroed, WindowBytes
<1>2. vga_planes = [p \in 0 .. Planes - 1 |-> Zeroed(Bank)] /\ dat = Zeroed(Bank)
  BY DEF FrameInit
<1>3. \A p \in 0 .. Planes - 1 : vga_planes[p] = Zeroed(Bank)
  BY <1>2
<1>4. DOMAIN vga_planes = 0 .. Planes - 1
  BY <1>2
<1>5. /\ fb = [f \in FbFields |-> fb[f]] /\ fb.active = FALSE /\ fb.svga_active = FALSE
      /\ fb.planar = FALSE /\ fb.crtc_start = 0 /\ fb.video_mode = 3
  BY DEF FrameInit, FbFields
<1>6. /\ DOMAIN svga_vram = 0 .. 0 - 1
      /\ svga_vram = [i \in DOMAIN svga_vram |-> svga_vram[i]]
  BY DEF FrameInit, Zeroed
<1>7. DOMAIN canvas = {}
  BY DEF FrameInit, Nowhere
<1>8. 0 + Frame13 <= Bank /\ 0 \in Nat
  BY FrameNat
<1>9. FrameShape
  BY <1>1, <1>2, <1>3, <1>4, <1>5, <1>6, <1>7, <1>8 DEF FrameShape
<1> QED
  BY <1>5, <1>9 DEF FrameInv, Graphics13

LEMMA FrameStep == FrameInv /\ [FrameNext]_frame => FrameInv'
<1> SUFFICES ASSUME FrameInv, [FrameNext]_frame PROVE FrameInv'
  OBVIOUS
<1>1. ASSUME NEW m \in VesaModes, NEW no_clear \in BOOLEAN, SetVesaMode(m, no_clear)
      PROVE  FrameInv'
  BY <1>1, StepVesaMode
<1>2. ASSUME NEW keep \in BOOLEAN, SetMode13(keep) PROVE FrameInv'
  BY <1>2, StepMode13
<1>3. CASE SetTextMode
  BY <1>3, StepText
<1>4. ASSUME NEW chain4 \in BOOLEAN, Unchain(chain4) PROVE FrameInv'
  BY <1>4, StepUnchain
<1>5. ASSUME NEW o \in Origins, SetCrtcStart(o[1]) PROVE FrameInv'
  <2>1. o[1] \in Nat
    BY FramebufferAssumption
  <2> QED
    BY <1>5, <2>1, StepCrtc
<1>6. ASSUME NEW n \in Strides, NEW in_pixels \in BOOLEAN, SetScanLine(n, in_pixels)
      PROVE  FrameInv'
  <2>1. n \in Nat
    BY FramebufferAssumption
  <2> QED
    BY <1>6, <2>1, StepScanLine
<1>7. ASSUME NEW o \in Origins, SetDisplayStart(o[1], o[2]) PROVE FrameInv'
  <2>1. o[1] \in Nat /\ o[2] \in Nat
    BY FramebufferAssumption
  <2> QED
    BY <1>7, <2>1, StepDisplayStart
<1>8. ASSUME NEW p \in Dots, NEW col \in Colours,
             (\E linear \in BOOLEAN : DrawVesa(p[1], p[2], col, linear)) \/ Draw13(p[1], p[2], col)
      PROVE  FrameInv'
  <2>1. p[1] \in Nat /\ p[2] \in Nat
    BY FramebufferAssumption
  <2>2. ASSUME NEW linear \in BOOLEAN, DrawVesa(p[1], p[2], col, linear) PROVE FrameInv'
    BY <2>1, <2>2, StepDrawVesa
  <2>3. CASE Draw13(p[1], p[2], col)
    BY <2>1, <2>3, StepDraw13
  <2> QED
    BY <1>8, <2>2, <2>3
<1>9. CASE UNCHANGED frame
  BY <1>9, ZenonT(60) DEF frame, FrameInv, FrameShape, Lines, VesaDrawn, Graphics13, Drawn13, InLine, VesaPlace,
              LinesThatFit
<1> QED
  BY <1>1, <1>2, <1>3, <1>4, <1>5, <1>6, <1>7, <1>8, <1>9 DEF FrameNext

\* A pixel drawn is shown where it was drawn, in every mode and after every change of mode,
\* line length and start.
THEOREM DrawingIsShown == FrameInit /\ [][FrameNext]_frame => []FrameShowsDrawing
<1>1. FrameInit => FrameInv
  BY FrameStart
<1>2. FrameInv /\ [FrameNext]_frame => FrameInv'
  BY FrameStep
<1>3. FrameInv => FrameShowsDrawing
  BY FrameShows
<1> QED
  BY <1>1, <1>2, <1>3, PTL

-----------------------------------------------------------------------------
(***************************************************************************)
(* Disks: calls move the sectors they name.                                *)
(***************************************************************************)

\* What is in an earlier line of a memory is before what is in a later one.
LEMMA InOrder ==
    ASSUME NEW B \in Nat, B > 0, NEW q \in Nat, NEW r \in 0 .. B - 1,
           NEW p \in Nat, NEW s \in 0 .. B - 1
    PROVE  B * q + r < B * p + s <=> q < p \/ (q = p /\ r < s)
<1>1. ASSUME NEW a \in Nat, NEW b \in Nat, a < b PROVE B * a + B <= B * b
  <2>1. PICK k \in Nat : b = a + 1 + k
    <3>1. b - a - 1 \in Nat /\ b = a + 1 + (b - a - 1)
      BY <1>1
    <3> QED
      BY <3>1
  <2>2. B * b = B * a + B + B * k /\ B * k \in Nat /\ B * a \in Nat
    BY <2>1
  <2> QED
    BY <2>2
<1>2. PICK x \in Nat : x = B * q
  OBVIOUS
<1>3. PICK y \in Nat : y = B * p
  OBVIOUS
<1>4. CASE q < p
  <2>1. x + B <= y
    BY <1>1, <1>2, <1>3, <1>4
  <2> QED
    BY <1>2, <1>3, <1>4, <2>1
<1>5. CASE q > p
  <2>1. y + B <= x
    BY <1>1, <1>2, <1>3, <1>5
  <2> QED
    BY <1>2, <1>3, <1>5, <2>1
<1>6. CASE q = p
  BY <1>2, <1>3, <1>6
<1> QED
  BY <1>4, <1>5, <1>6

\* A place in n lines is in one of them.
LEMMA LineBelow ==
    ASSUME NEW B \in Nat, B > 0, NEW n \in Nat, NEW x \in 0 .. (B * n) - 1
    PROVE  x \div B \in 0 .. n - 1
<1>1. x \in Nat
  OBVIOUS
<1>2. PICK d \in Nat, r \in 0 .. B - 1 : d = x \div B /\ x = B * d + r
  BY <1>1, Divided
<1>3. B * d + r < B * n + 0
  <2>1. PICK y \in Nat : y = B * n
    OBVIOUS
  <2> QED
    BY <1>2, <2>1
<1>4. d < n
  <2>1. 0 \in 0 .. B - 1
    OBVIOUS
  <2> QED
    BY <1>2, <1>3, <2>1, InOrder
<1> QED
  BY <1>2, <1>4

\* The number of a place in a geometry.
Number(g, s) == g.spt * (g.heads * s[1] + s[2]) + (s[3] - 1)
Total(g) == g.spt * (g.heads * g.cyls)

LEMMA GeometrySizes ==
    ASSUME NEW g \in Geometries
    PROVE  /\ g.heads \in Nat /\ g.heads > 0 /\ g.cyls \in Nat /\ g.cyls > 0
           /\ g.spt \in Nat /\ g.spt > 0
           /\ g.heads * g.cyls \in Nat /\ Total(g) \in Nat
<1>1. /\ g.heads \in Nat /\ g.heads > 0 /\ g.cyls \in Nat /\ g.cyls > 0
      /\ g.spt \in Nat /\ g.spt > 0
  <2>1. g \in [heads : 1 .. 256, cyls : 1 .. 4 * CylByte, spt : Nat \ {0}]
    BY DEF Geometries
  <2>2. PICK m \in Nat : m = 4 * CylByte
    BY BiosDiskAssumption
  <2>3. g.heads \in 1 .. 256 /\ g.cyls \in 1 .. m /\ g.spt \in Nat \ {0}
    BY <2>1, <2>2
  <2> QED
    BY <2>3
<1>2. PICK n \in Nat : n = g.heads * g.cyls
  BY <1>1
<1>3. g.spt * n \in Nat
  BY <1>1
<1> QED
  BY <1>1, <1>2, <1>3 DEF Total

\* The numbers of two places are in their order.
LEMMA NumbersInOrder ==
    ASSUME NEW g \in Geometries, NEW s \in Triples(g), NEW t \in Triples(g)
    PROVE  /\ Number(g, s) \in Nat
           /\ Precedes(s, t) <=> Number(g, s) < Number(g, t)
           /\ Number(g, s) = Number(g, t) => s = t
<1>1. PICK H \in Nat, C \in Nat, N \in Nat :
         /\ H = g.heads /\ C = g.cyls /\ N = g.spt /\ H > 0 /\ C > 0 /\ N > 0
  BY GeometrySizes
<1>2. PICK u \in Nat, v \in 0 .. H - 1, w \in 1 .. N : s = <<u, v, w>>
  BY <1>1 DEF Triples
<1>3. PICK x \in Nat, y \in 0 .. H - 1, z \in 1 .. N : t = <<x, y, z>>
  BY <1>1 DEF Triples
<1>4. PICK a \in Nat : a = H * u + v
  OBVIOUS
<1>5. PICK b \in Nat : b = H * x + y
  OBVIOUS
<1>6. PICK i \in 0 .. N - 1, j \in 0 .. N - 1 : i = w - 1 /\ j = z - 1
  <2>1. w - 1 \in 0 .. N - 1 /\ z - 1 \in 0 .. N - 1
    OBVIOUS
  <2> QED
    BY <2>1
<1>7. Number(g, s) = N * a + i /\ Number(g, t) = N * b + j
  BY <1>1, <1>2, <1>3, <1>4, <1>5, <1>6 DEF Number
<1>8. a < b <=> u < x \/ (u = x /\ v < y)
  BY <1>1, <1>4, <1>5, InOrder
<1>9. a = b => u = x /\ v = y
  BY <1>1, <1>4, <1>5, OnePlace
<1>10. N * a + i < N * b + j <=> a < b \/ (a = b /\ i < j)
  BY <1>1, InOrder
<1>11. N * a + i = N * b + j => a = b /\ i = j
  <2> SUFFICES ASSUME N * a + i = N * b + j PROVE a = b /\ i = j
    OBVIOUS
  <2>1. a \in Int /\ b \in Int /\ N > 0
    BY <1>1
  <2> QED
    BY <2>1, OnePlace
<1>12. i < j <=> w < z
  BY <1>6
<1>13. i = j => w = z
  BY <1>6
<1>14. Precedes(s, t) <=> \/ u < x
                          \/ u = x /\ v < y
                          \/ u = x /\ v = y /\ w < z
  BY <1>2, <1>3 DEF Precedes
<1>15. Number(g, s) \in Nat
  <2>1. N * a \in Nat
    OBVIOUS
  <2> QED
    BY <1>6, <1>7, <2>1
<1>16. u = x /\ v = y => a = b
  BY <1>4, <1>5
<1>17. Precedes(s, t) <=> Number(g, s) < Number(g, t)
  BY <1>7, <1>8, <1>9, <1>10, <1>12, <1>14, <1>16
<1>18. Number(g, s) = Number(g, t) => s = t
  BY <1>2, <1>3, <1>7, <1>9, <1>11, <1>13
<1> QED
  BY <1>15, <1>17, <1>18

\* Every number below the number of sectors is that of a place, and no other.
LEMMA EveryNumber ==
    ASSUME NEW g \in Geometries
    PROVE  /\ \A s \in Triples(g) : Number(g, s) \in 0 .. Total(g) - 1
           /\ \A i \in 0 .. Total(g) - 1 : \E s \in Triples(g) : Number(g, s) = i
<1>1. PICK H \in Nat, C \in Nat, N \in Nat :
         /\ H = g.heads /\ C = g.cyls /\ N = g.spt /\ H > 0 /\ C > 0 /\ N > 0
  BY GeometrySizes
<1>2. PICK L \in Nat : L = H * C
  OBVIOUS
<1>3. PICK T \in Nat : T = N * L
  OBVIOUS
<1>4. Total(g) = T
  BY <1>1, <1>2, <1>3 DEF Total
<1>5. ASSUME NEW s \in Triples(g) PROVE Number(g, s) \in 0 .. T - 1
  <2>1. PICK u \in 0 .. C - 1, v \in 0 .. H - 1, w \in 1 .. N : s = <<u, v, w>>
    BY <1>1 DEF Triples
  <2>2. PICK a \in Nat : a = H * u + v
    OBVIOUS
  <2>3. Number(g, s) = N * a + (w - 1)
    BY <1>1, <2>1, <2>2 DEF Number
  <2>4. 0 \in 0 .. H - 1 /\ 0 \in 0 .. N - 1 /\ w - 1 \in 0 .. N - 1 /\ u \in Nat
    BY <1>1
  <2>5. H * u + v < H * C + 0
    BY <1>1, <2>4, InOrder
  <2>6. a < L
    <3>1. L + 0 = L
      OBVIOUS
    <3> QED
      BY <1>2, <2>2, <2>5, <3>1
  <2>7. N * a + (w - 1) < N * L + 0
    BY <1>1, <2>4, <2>6, InOrder
  <2>8. N * a \in Nat
    OBVIOUS
  <2> QED
    BY <1>3, <2>3, <2>4, <2>7, <2>8
<1>6. ASSUME NEW i \in 0 .. T - 1 PROVE \E s \in Triples(g) : Number(g, s) = i
  <2>1. i \in Nat /\ i \in 0 .. (N * L) - 1
    BY <1>3
  <2>2. PICK a \in Nat, r \in 0 .. N - 1 : a = i \div N /\ i = N * a + r
    <3>1. /\ i \div N \in Nat /\ i % N \in 0 .. N - 1
          /\ i = N * (i \div N) + (i % N)
      BY <1>1, <2>1, Divided
    <3> QED
      BY <3>1, Zenon
  <2>3. a \in 0 .. (H * C) - 1
    <3>1. a \in 0 .. L - 1
      BY <1>1, <2>1, <2>2, LineBelow
    <3> QED
      BY <1>2, <3>1
  <2>4. PICK u \in Nat, v \in 0 .. H - 1 : u = a \div H /\ a = H * u + v
    <3>1. /\ a \div H \in Nat /\ a % H \in 0 .. H - 1
          /\ a = H * (a \div H) + (a % H)
      BY <1>1, Divided
    <3> QED
      BY <3>1, Zenon
  <2>5. u \in 0 .. C - 1
    BY <1>1, <2>3, <2>4, LineBelow
  <2>6. r + 1 \in 1 .. N /\ (r + 1) - 1 = r
    OBVIOUS
  <2>7. <<u, v, r + 1>> \in Triples(g)
    BY <1>1, <2>5, <2>6 DEF Triples
  <2>8. Number(g, <<u, v, r + 1>>) = i
    BY <1>1, <2>2, <2>4, <2>6 DEF Number
  <2> QED
    BY <2>7, <2>8
<1> QED
  BY <1>4, <1>5, <1>6

\* As many places have a number below n.
LEMMA PlacesBefore ==
    ASSUME NEW g \in Geometries, NEW n \in 0 .. Total(g)
    PROVE  Cardinality({s \in Triples(g) : Number(g, s) < n}) = n
<1> DEFINE S == 0 .. n - 1
           T == {s \in Triples(g) : Number(g, s) < n}
           f == [i \in S |-> CHOOSE s \in Triples(g) : Number(g, s) = i]
<1>1. n \in Nat /\ \A i \in S : i \in 0 .. Total(g) - 1 /\ i < n
  BY GeometrySizes
<1>2. \A i \in S : f[i] \in Triples(g) /\ Number(g, f[i]) = i
  BY <1>1, EveryNumber
<1>3. f \in [S -> T]
  <2>1. \A i \in S : f[i] \in T
    BY <1>1, <1>2
  <2> QED
    BY <2>1
<1>4. \A i, j \in S : f[i] = f[j] => i = j
  <2> HIDE DEF f
  <2> QED
    BY <1>2
<1>5. \A t \in T : \E i \in S : f[i] = t
  <2> SUFFICES ASSUME NEW t \in T PROVE \E i \in S : f[i] = t
    OBVIOUS
  <2>1. t \in Triples(g) /\ Number(g, t) \in S
    <3>1. t \in Triples(g) /\ Number(g, t) < n
      OBVIOUS
    <3>2. Number(g, t) \in Nat
      BY <3>1, NumbersInOrder
    <3> QED
      BY <1>1, <3>1, <3>2
  <2>2. f[Number(g, t)] \in Triples(g) /\ Number(g, f[Number(g, t)]) = Number(g, t)
    BY <1>2, <2>1
  <2> HIDE DEF f
  <2>3. f[Number(g, t)] = t
    BY <2>1, <2>2, NumbersInOrder
  <2> QED
    BY <2>1, <2>3
<1> HIDE DEF f, T
<1>6. f \in Bijection(S, T)
  BY <1>3, <1>4, <1>5 DEF Bijection, Injection, Surjection, IsInjective
<1>7. ExistsBijection(S, T)
  BY <1>6 DEF ExistsBijection
<1>8. IsFiniteSet(S)
  BY <1>1, FS_Interval
<1>9. Cardinality(T) = Cardinality(S)
  BY <1>7, <1>8, FS_Bijection
<1>10. Cardinality(S) = n
  BY <1>1, Numbered
<1> QED
  BY <1>9, <1>10 DEF T

-----------------------------------------------------------------------------
IsImage(s) == Len(s) \in Nat /\ DOMAIN s = 1 .. Len(s)

\* Images have a length, and keep it.
DiskInv ==
    /\ disk = [d \in DriveSet |-> disk[d]]
    /\ \A d \in DriveSet : IsImage(disk[d])
    /\ DOMAIN cells = 1 .. MemoryCells

LEMMA CopyKeeps ==
    ASSUME NEW s, IsImage(s), NEW at, NEW src, NEW off, NEW n
    PROVE  /\ IsImage(Copied(s, at, src, off, n))
           /\ Len(Copied(s, at, src, off, n)) = Len(s)
<1> DEFINE f == Copied(s, at, src, off, n)
<1>1. PICK m \in Nat : m = Len(s)
  BY DEF IsImage
<1>2. DOMAIN f = 1 .. m
  BY <1>1 DEF IsImage, Copied
<1>3. f = [i \in 1 .. m |-> f[i]]
  <2>1. f = [i \in DOMAIN s |-> IF i - at \in 1 .. n THEN src[i - at + off] ELSE s[i]]
    BY DEF Copied
  <2> QED
    BY <1>2, <2>1
<1> HIDE DEF f
<1>4. Len(f) = m
  BY <1>2, <1>3
<1> QED
  BY <1>1, <1>2, <1>4 DEF IsImage, f

\* What a drive is taken to be.
LEMMA GeometryOf ==
    ASSUME NEW d \in DriveSet, IsImage(disk[d])
    PROVE  /\ disk[d] = <<>> \/ d \in CdRoms => get_geometry(d).spt = 0
           /\ disk[d] # <<>> /\ d \notin CdRoms => get_geometry(d) \in Geometries
<1>1. CASE disk[d] = <<>> \/ d \in CdRoms
  <2>1. get_geometry(d) = [heads |-> 0, cyls |-> 0, spt |-> 0]
    BY <1>1, BiosDiskAssumption DEF get_geometry, disk_present
  <2> QED
    BY <1>1, <2>1
<1>2. CASE disk[d] # <<>> /\ d \notin CdRoms /\ d \in Floppies
  <2>1. get_geometry(d) = IF Len(disk[d]) \in DOMAIN FloppyGeometry
                          THEN FloppyGeometry[Len(disk[d])] ELSE OtherFloppy
    BY <1>2 DEF get_geometry, disk_present
  <2> QED
    BY <1>2, <2>1, BiosDiskAssumption
<1>3. CASE disk[d] # <<>> /\ d \notin CdRoms /\ d \notin Floppies
  <2> DEFINE cyls == Whole(d) \div (HdHeads * HdSpt)
             n == IF cyls < 1 THEN 1 ELSE IF cyls > MaxCyls THEN MaxCyls ELSE cyls
  <2>1. get_geometry(d) = [heads |-> HdHeads, spt |-> HdSpt, cyls |-> n]
    BY <1>3 DEF get_geometry, disk_present
  <2>2. PICK m \in Nat : m = 4 * CylByte
    BY BiosDiskAssumption
  <2>3. MaxCyls \in 1 .. m /\ HdHeads \in 1 .. 256 /\ HdSpt \in Nat \ {0}
    BY <2>2, BiosDiskAssumption
  <2>4. Whole(d) \in Nat
    <3>1. PICK k \in Nat : k = Len(disk[d])
      BY DEF IsImage
    <3>2. k \div 2 \in Nat
      OBVIOUS
    <3> QED
      BY <3>1, <3>2 DEF Whole
  <2>5. cyls \in Nat
    <3>1. PICK k \in Nat : HdSpt = 1 + k
      <4>1. HdSpt - 1 \in Nat /\ HdSpt = 1 + (HdSpt - 1)
        BY <2>3
      <4> QED
        BY <4>1
    <3>2. HdHeads * HdSpt = HdHeads + HdHeads * k /\ HdHeads * k \in Nat
      BY <2>3, <3>1
    <3>3. PICK q \in Nat : q = HdHeads * HdSpt /\ q > 0
      BY <2>3, <3>2
    <3> QED
      BY <2>4, <3>3, Divided
  <2> HIDE DEF cyls
  <2>6. n \in 1 .. m
    BY <2>3, <2>5
  <2> HIDE DEF n
  <2> QED
    BY <1>3, <2>1, <2>2, <2>3, <2>6 DEF Geometries
<1> QED
  BY <1>1, <1>2, <1>3

\* The sector of a place is the one that is read.
LEMMA SectorOfPlace ==
    ASSUME NEW g \in Geometries, NEW p \in [ch : Nat, clhi : Nat, sector : Nat, dh : Nat]
    PROVE  /\ ChecksPlace(g, p) => Sector(g, p) = LbaOf(g, p) /\ LbaOf(g, p) \in Nat
           /\ ~ ChecksPlace(g, p) => Sector(g, p) = -1
<1> DEFINE t == <<p.ch + CylByte * p.clhi, p.dh, p.sector>>
<1>1. Sector(g, p) = IF t \notin Triples(g) THEN -1
                     ELSE Cardinality({s \in Triples(g) : Precedes(s, t)})
  BY DEF Sector
<1>2. PICK y \in Nat : y = p.ch + CylByte * p.clhi
  BY BiosDiskAssumption
<1>3. PICK H \in Nat, C \in Nat, N \in Nat : H = g.heads /\ C = g.cyls /\ N = g.spt
  BY GeometrySizes
<1>4. PICK h \in Nat, w \in Nat : h = p.dh /\ w = p.sector
  OBVIOUS
<1>5. ChecksPlace(g, p) <=> w \in 1 .. N /\ h < H /\ y < C
  BY <1>2, <1>3, <1>4 DEF ChecksPlace
<1>6. t \in Triples(g) <=> w \in 1 .. N /\ h \in 0 .. H - 1 /\ y \in 0 .. C - 1
  BY <1>2, <1>3, <1>4 DEF Triples
<1>7. ChecksPlace(g, p) <=> t \in Triples(g)
  BY <1>3, <1>5, <1>6
<1>8. LbaOf(g, p) = Number(g, t)
  <2>1. Number(g, t) = N * (H * y + h) + (w - 1)
    BY <1>2, <1>3, <1>4 DEF Number
  <2>2. LbaOf(g, p) = (y * H + h) * N + (w - 1)
    BY <1>2, <1>3, <1>4 DEF LbaOf
  <2>3. PICK a \in Nat : a = y * H + h /\ a = H * y + h
    OBVIOUS
  <2>4. N * a = a * N
    OBVIOUS
  <2> QED
    BY <2>1, <2>2, <2>3, <2>4
<1>9. ASSUME t \in Triples(g)
      PROVE  /\ Number(g, t) \in Nat
             /\ Cardinality({s \in Triples(g) : Precedes(s, t)}) = Number(g, t)
  <2>1. PICK n : n = Number(g, t)
    OBVIOUS
  <2>2. n \in 0 .. Total(g)
    BY <1>9, <2>1, EveryNumber, GeometrySizes
  <2>3. \A s \in Triples(g) : Precedes(s, t) <=> Number(g, s) < n
    BY <1>9, <2>1, NumbersInOrder
  <2>4. {s \in Triples(g) : Precedes(s, t)} = {s \in Triples(g) : Number(g, s) < n}
    BY <2>3
  <2>5. Cardinality({s \in Triples(g) : Number(g, s) < n}) = n
    BY <2>2, PlacesBefore
  <2>6. n \in Nat
    BY <2>2, GeometrySizes
  <2> QED
    BY <2>1, <2>4, <2>5, <2>6
<1> HIDE DEF t
<1> QED
  BY <1>1, <1>7, <1>8, <1>9

\* The place that the parameters give is the last.
LEMMA LastPlace ==
    ASSUME NEW g \in Geometries,
           NEW p, p = [ch |-> (g.cyls - 1) % CylByte, clhi |-> ((g.cyls - 1) \div CylByte) % 4,
                       sector |-> g.spt, dh |-> (g.heads - 1) % 256]
    PROVE  Sector(g, p) = Cardinality(Triples(g)) - 1
<1>1. PICK H \in 1 .. 256, C \in Nat, N \in Nat, B \in Nat :
         /\ H = g.heads /\ C = g.cyls /\ N = g.spt /\ B = CylByte
         /\ C > 0 /\ N > 0 /\ B > 0 /\ C <= B * 4
  <2>1. g.heads \in 1 .. 256 /\ g.cyls \in 1 .. 4 * CylByte /\ g.spt \in Nat \ {0}
    BY DEF Geometries
  <2>2. PICK m \in Nat : m = 4 * CylByte /\ m = CylByte * 4
    BY BiosDiskAssumption
  <2>3. CylByte \in Nat /\ CylByte > 0
    BY BiosDiskAssumption
  <2>4. g.cyls \in Nat /\ g.cyls > 0 /\ g.cyls <= CylByte * 4 /\ g.spt \in Nat /\ g.spt > 0
    BY <2>1, <2>2
  <2> QED
    BY <2>1, <2>3, <2>4
<1>2. PICK c1 \in Nat : c1 = C - 1
  BY <1>1
<1>3. PICK q \in Nat, r \in 0 .. B - 1 : q = c1 \div B /\ r = c1 % B /\ c1 = B * q + r
  <2>1. c1 \div B \in Nat /\ c1 % B \in 0 .. B - 1 /\ c1 = B * (c1 \div B) + (c1 % B)
    BY <1>1, Divided
  <2> QED
    BY <2>1, Zenon
<1>4. q \in 0 .. 3
  <2>1. c1 \in 0 .. (B * 4) - 1
    BY <1>1, <1>2
  <2>2. q \in 0 .. 4 - 1
    BY <1>1, <1>3, <2>1, LineBelow
  <2> QED
    BY <2>2
<1>5. q % 4 = q /\ (H - 1) % 256 = H - 1 /\ H - 1 \in Nat
  BY <1>1, <1>4
<1>6. p = [ch |-> r, clhi |-> q, sector |-> N, dh |-> H - 1]
  <2>1. p = [ch |-> c1 % B, clhi |-> (c1 \div B) % 4, sector |-> N, dh |-> (H - 1) % 256]
    BY <1>1, <1>2
  <2> QED
    BY <1>3, <1>5, <2>1
<1>7. p \in [ch : Nat, clhi : Nat, sector : Nat, dh : Nat]
  BY <1>5, <1>6
<1>8. p.ch + CylByte * p.clhi = c1
  <2>1. PICK e \in Nat : e = B * q
    BY <1>1
  <2>2. p.ch + CylByte * p.clhi = r + B * q
    BY <1>1, <1>6
  <2> QED
    BY <1>3, <2>1, <2>2
<1>9. ChecksPlace(g, p)
  BY <1>1, <1>2, <1>5, <1>6, <1>8 DEF ChecksPlace
<1>10. Sector(g, p) = LbaOf(g, p)
  BY <1>7, <1>9, SectorOfPlace
<1>11. LbaOf(g, p) = (c1 * H + (H - 1)) * N + (N - 1)
  BY <1>1, <1>6, <1>8 DEF LbaOf
<1>12. Total(g) = N * (H * C)
  BY <1>1 DEF Total
<1>13. N * (H * C) - 1 = (c1 * H + (H - 1)) * N + (N - 1)
  <2>1. PICK e \in Nat : e = c1 * H
    BY <1>1
  <2>2. H * C = e + H
    <3>1. C = c1 + 1 /\ H * (c1 + 1) = H * c1 + H /\ H * c1 = c1 * H
      BY <1>1, <1>2
    <3> QED
      BY <2>1, <3>1
  <2>3. PICK k \in Nat : k = e + (H - 1)
    BY <1>5
  <2>4. H * C = k + 1
    BY <1>1, <2>2, <2>3
  <2>5. N * (k + 1) = k * N + N /\ k * N \in Nat
    OBVIOUS
  <2> QED
    BY <2>1, <2>3, <2>4, <2>5
<1>14. Cardinality(Triples(g)) = Total(g)
  <2>1. Total(g) \in 0 .. Total(g) /\ Total(g) \in Nat
    BY GeometrySizes
  <2>2. \A s \in Triples(g) : Number(g, s) < Total(g)
    <3>1. PICK T \in Nat : T = Total(g)
      BY <2>1
    <3>2. \A s \in Triples(g) : Number(g, s) \in 0 .. T - 1
      BY <3>1, EveryNumber
    <3> QED
      BY <3>1, <3>2
  <2>3. {s \in Triples(g) : Number(g, s) < Total(g)} = Triples(g)
    BY <2>2
  <2> QED
    BY <2>1, <2>3, PlacesBefore
<1> QED
  BY <1>10, <1>11, <1>12, <1>13, <1>14

-----------------------------------------------------------------------------
\* The half sectors of n sectors from s on.
LEMMA HalfSectorsOf ==
    ASSUME NEW k \in Nat, NEW h \in Nat, k = 2 * h + 1 \/ k = 2 * h + 2,
           NEW s \in Nat, NEW n \in Nat
    PROVE  h - s \in 0 .. n - 1 <=> k - 2 * s \in 1 .. 2 * n
<1> QED
  OBVIOUS

LEMMA HalfSectors ==
    ASSUME NEW k \in Nat, k > 0, NEW s \in Nat, NEW n \in Nat
    PROVE  (k - 1) \div 2 \in {s + i : i \in 0 .. n - 1} <=> k - 2 * s \in 1 .. 2 * n
<1>1. PICK h \in Nat : h = (k - 1) \div 2
  OBVIOUS
<1>2. k = 2 * h + 1 \/ k = 2 * h + 2
  BY <1>1
<1>3. h \in {s + i : i \in 0 .. n - 1} <=> h - s \in 0 .. n - 1
  <2>1. ASSUME h - s \in 0 .. n - 1 PROVE h \in {s + i : i \in 0 .. n - 1}
    <3>1. h = s + (h - s)
      OBVIOUS
    <3> QED
      BY <2>1, <3>1
  <2>2. ASSUME h \in {s + i : i \in 0 .. n - 1} PROVE h - s \in 0 .. n - 1
    <3>1. PICK i \in 0 .. n - 1 : h = s + i
      BY <2>2
    <3> QED
      BY <3>1
  <2> QED
    BY <2>1, <2>2
<1>4. h - s \in 0 .. n - 1 <=> k - 2 * s \in 1 .. 2 * n
  BY <1>2, HalfSectorsOf
<1> QED
  BY <1>1, <1>3, <1>4

\* What is moved is on the disk, and it is all there is.
LEMMA MovedIsThere ==
    ASSUME NEW d, IsImage(disk[d]), NEW lba \in Nat, NEW size \in Nat,
           NEW n, n = Moved(d, lba, size)
    PROVE  /\ Whole(d) \in Nat /\ n \in Nat
           /\ Len(disk[d]) \in Nat
           /\ Len(disk[d]) = 2 * Whole(d) \/ Len(disk[d]) = 2 * Whole(d) + 1
           /\ n # size => n < size /\ lba + n >= Whole(d)
           /\ {lba + i : i \in 0 .. n - 1} \subseteq 0 .. Whole(d) - 1
<1>1. PICK l \in Nat : l = Len(disk[d])
  BY DEF IsImage
<1>2. PICK w \in Nat : w = Whole(d)
  <2>1. l \div 2 \in Nat
    OBVIOUS
  <2> QED
    BY <1>1, <2>1 DEF Whole
<1>3. l = 2 * w \/ l = 2 * w + 1
  <2>1. w = l \div 2
    BY <1>1, <1>2 DEF Whole
  <2> QED
    BY <2>1
<1>4. n = IF w <= lba THEN 0 ELSE IF w - lba < size THEN w - lba ELSE size
  BY <1>2 DEF Moved
<1>5. n \in Nat /\ (n # size => n < size /\ lba + n >= w)
  BY <1>4
<1>6. \A i \in 0 .. n - 1 : lba + i \in 0 .. w - 1
  BY <1>4, <1>5
<1> QED
  BY <1>1, <1>2, <1>3, <1>5, <1>6

\* What becomes of the disks, and of memory.
DisksMoved(asked, d, s, n, w) ==
    \A e \in DriveSet :
      /\ Len(disk'[e]) = Len(disk[e])
      /\ \A k \in DOMAIN disk[e] :
           disk'[e][k] = IF asked.op = "write" /\ e = d
                            /\ (k - 1) \div 2 \in {s + i : i \in 0 .. n - 1}
                         THEN cells[k - 2 * s + 2 * asked.buf]
                         ELSE IF asked.op = "write" /\ e = d /\ (k - 1) \div 2 = w
                         THEN disk'[e][k] ELSE disk[e][k]
CellsMoved(asked, d, s, n) ==
    \A k \in DOMAIN cells :
      cells'[k] = IF asked.op = "read" /\ ((k - 1) \div 2) - asked.buf \in 0 .. n - 1
                  THEN disk[d][k - 2 * asked.buf + 2 * s] ELSE cells[k]

\* The same facts, as Exact puts them.
LEMMA IsExact ==
    ASSUME NEW asked, NEW reply, NEW d, NEW s, NEW n, NEW w,
           asked.drive = d, Sector(get_geometry(d), asked.place) = s, s # -1,
           reply.n = n, reply.cf = (n # asked.count), Whole(d) = w,
           n # asked.count => s + n >= w,
           {s + i : i \in 0 .. n - 1} \subseteq 0 .. w - 1,
           DisksMoved(asked, d, s, n, w),
           CellsMoved(asked, d, s, n)
    PROVE  Exact(asked, reply)
<1> DEFINE D == asked.drive
           S == Sector(get_geometry(D), asked.place)
           N == reply.n
           W == Whole(D)
           InSector(k) == (k - 1) \div 2
           M == {S + i : i \in 0 .. N - 1}
<1>1. D = d /\ S = s /\ N = n /\ W = w
  OBVIOUS
<1> HIDE DEF D, S, N, W
<1>2. M = {s + i : i \in 0 .. n - 1}
  BY <1>1
<1> HIDE DEF M
<1>3. S # -1 /\ reply.cf = (N # asked.count) /\ (N # asked.count => S + N >= W)
  BY <1>1
<1>4. M \subseteq 0 .. W - 1
  BY <1>1, <1>2
<1>5. \A e \in DriveSet :
        /\ Len(disk'[e]) = Len(disk[e])
        /\ \A k \in DOMAIN disk[e] :
             disk'[e][k] = IF asked.op = "write" /\ e = D /\ InSector(k) \in M
                           THEN cells[k - 2 * S + 2 * asked.buf]
                           ELSE IF asked.op = "write" /\ e = D /\ InSector(k) = W
                           THEN disk'[e][k] ELSE disk[e][k]
  BY <1>1, <1>2 DEF DisksMoved
<1>6. \A k \in DOMAIN cells :
        cells'[k] = IF asked.op = "read" /\ InSector(k) - asked.buf \in 0 .. N - 1
                    THEN disk[D][k - 2 * asked.buf + 2 * S] ELSE cells[k]
  BY <1>1 DEF CellsMoved
<1> QED
  BY <1>3, <1>4, <1>5, <1>6, Zenon DEF Exact, D, S, N, W, M

\* Reading moves what it reports.
LEMMA ReadsExactly ==
    ASSUME DiskInv, NEW d \in DriveSet,
           NEW lba \in Nat, NEW size \in Nat, NEW buf \in Nat,
           NEW asked, asked.op = "read", asked.drive = d, asked.count = size, asked.buf = buf,
           Sector(get_geometry(d), asked.place) = lba,
           Reads(d, lba, size, buf)
    PROVE  Exact(asked, regs')
<1>1. PICK n : n = Moved(d, lba, size)
  OBVIOUS
<1>2. PICK w : w = Whole(d)
  OBVIOUS
<1>3. /\ w \in Nat /\ n \in Nat /\ (n # size => lba + n >= w)
      /\ {lba + i : i \in 0 .. n - 1} \subseteq 0 .. w - 1
  BY <1>1, <1>2, MovedIsThere DEF DiskInv
<1>4. /\ cells' = Copied(cells, 2 * buf, disk[d], 2 * lba, 2 * n)
      /\ regs' = Returned(IF n = size THEN 0 ELSE 4, n, n # size)
      /\ disk' = disk
  BY <1>1 DEF Reads
<1>5. regs'.n = n /\ regs'.cf = (n # size)
  BY <1>4 DEF Returned
<1>6. ASSUME NEW k \in DOMAIN cells
      PROVE  cells'[k] = IF asked.op = "read" /\ ((k - 1) \div 2) - asked.buf \in 0 .. n - 1
                         THEN disk[d][k - 2 * asked.buf + 2 * lba] ELSE cells[k]
  <2>1. k \in Nat /\ k > 0
    BY BiosDiskAssumption DEF DiskInv
  <2>2. cells'[k] = IF k - 2 * buf \in 1 .. 2 * n THEN disk[d][k - 2 * buf + 2 * lba]
                    ELSE cells[k]
    BY <1>4 DEF Copied
  <2>3. ((k - 1) \div 2) - buf \in 0 .. n - 1 <=> k - 2 * buf \in 1 .. 2 * n
    <3>1. PICK h \in Nat : h = (k - 1) \div 2
      BY <2>1
    <3>2. k = 2 * h + 1 \/ k = 2 * h + 2
      <4>1. PICK j \in Nat : j = k - 1
        BY <2>1
      <4>2. h = j \div 2 /\ k = j + 1
        BY <2>1, <3>1, <4>1
      <4> QED
        BY <4>2
    <3>3. h - buf \in 0 .. n - 1 <=> k - 2 * buf \in 1 .. 2 * n
      <4>1. n \in Nat
        BY <1>3
      <4> QED
        BY <2>1, <3>2, <4>1, HalfSectorsOf
    <3> QED
      BY <3>1, <3>3, Zenon
  <2> QED
    BY <2>2, <2>3
<1>7. lba # -1
  OBVIOUS
<1>8. \A e \in DriveSet :
        /\ Len(disk'[e]) = Len(disk[e])
        /\ \A k \in DOMAIN disk[e] :
             disk'[e][k] = IF asked.op = "write" /\ e = d
                              /\ (k - 1) \div 2 \in {lba + i : i \in 0 .. n - 1}
                           THEN cells[k - 2 * lba + 2 * asked.buf]
                           ELSE IF asked.op = "write" /\ e = d /\ (k - 1) \div 2 = w
                           THEN disk'[e][k] ELSE disk[e][k]
  BY <1>4
<1> QED
  <2>1. DisksMoved(asked, d, lba, n, w)
    BY <1>8 DEF DisksMoved
  <2>2. CellsMoved(asked, d, lba, n)
    BY <1>6, Zenon DEF CellsMoved
  <2>3. Whole(d) = w /\ (n # asked.count => lba + n >= w) /\ regs'.cf = (n # asked.count)
    BY <1>2, <1>3, <1>5
  <2> QED
    BY <1>3, <1>5, <1>7, <2>1, <2>2, <2>3, IsExact

\* Writing moves what it reports, and may change what follows the last sector.
LEMMA WritesExactly ==
    ASSUME DiskInv, NEW d \in DriveSet,
           NEW lba \in Nat, NEW size \in Nat, NEW buf \in Nat,
           NEW asked, asked.op = "write", asked.drive = d, asked.count = size, asked.buf = buf,
           Sector(get_geometry(d), asked.place) = lba,
           Writes(d, lba, size, buf)
    PROVE  Exact(asked, regs')
<1>1. PICK n : n = Moved(d, lba, size)
  OBVIOUS
<1>2. PICK w, l : w = Whole(d) /\ l = Len(disk[d])
  OBVIOUS
<1>3. /\ w \in Nat /\ n \in Nat /\ l \in Nat /\ (n # size => lba + n >= w)
      /\ l = 2 * w \/ l = 2 * w + 1
      /\ {lba + i : i \in 0 .. n - 1} \subseteq 0 .. w - 1
  <2>1. IsImage(disk[d])
    BY DEF DiskInv
  <2>2. /\ Whole(d) \in Nat /\ n \in Nat /\ Len(disk[d]) \in Nat
        /\ Len(disk[d]) = 2 * Whole(d) \/ Len(disk[d]) = 2 * Whole(d) + 1
        /\ n # size => n < size /\ lba + n >= Whole(d)
        /\ {lba + i : i \in 0 .. n - 1} \subseteq 0 .. Whole(d) - 1
    BY <1>1, <2>1, MovedIsThere, Zenon
  <2> QED
    BY <1>2, <2>2
<1>4. PICK rest : rest = IF n < size /\ l = 2 * (lba + n) + 1 THEN 1 ELSE 0
  OBVIOUS
<1>5. /\ disk' = [disk EXCEPT ![d] = Copied(disk[d], 2 * lba, cells, 2 * buf, 2 * n + rest)]
      /\ regs' = Returned(IF n = size THEN 0 ELSE 4, n, n # size)
      /\ cells' = cells
  BY <1>1, <1>2, <1>4 DEF Writes
<1>6. regs'.n = n /\ regs'.cf = (n # size)
  BY <1>5 DEF Returned
<1>7. disk'[d] = Copied(disk[d], 2 * lba, cells, 2 * buf, 2 * n + rest)
  BY <1>5 DEF DiskInv
<1> DEFINE moved == {lba + i : i \in 0 .. n - 1}
<1>8. ASSUME NEW e \in DriveSet
      PROVE  /\ Len(disk'[e]) = Len(disk[e])
             /\ \A k \in DOMAIN disk[e] :
                  disk'[e][k] = IF asked.op = "write" /\ e = d /\ (k - 1) \div 2 \in moved
                                THEN cells[k - 2 * lba + 2 * asked.buf]
                                ELSE IF asked.op = "write" /\ e = d /\ (k - 1) \div 2 = w
                                THEN disk'[e][k] ELSE disk[e][k]
  <2>1. CASE e # d
    BY <1>5, <2>1 DEF DiskInv
  <2>2. CASE e = d
    <3>1. Len(disk'[d]) = Len(disk[d])
      BY <1>7, CopyKeeps DEF DiskInv
    <3>2. ASSUME NEW k \in DOMAIN disk[d]
          PROVE  disk'[d][k] = IF (k - 1) \div 2 \in moved
                               THEN cells[k - 2 * lba + 2 * buf]
                               ELSE IF (k - 1) \div 2 = w
                               THEN disk'[d][k] ELSE disk[d][k]
      <4>1. k \in Nat /\ k > 0 /\ k <= l
        BY <1>2, <1>3 DEF DiskInv, IsImage
      <4>2. disk'[d][k] = IF k - 2 * lba \in 1 .. 2 * n + rest
                          THEN cells[k - 2 * lba + 2 * buf] ELSE disk[d][k]
        BY <1>7 DEF Copied
      <4>3. (k - 1) \div 2 \in moved <=> k - 2 * lba \in 1 .. 2 * n
        BY <1>3, <4>1, HalfSectors
      <4> HIDE DEF moved
      <4>4. CASE k - 2 * lba \in 1 .. 2 * n
        <5>1. k - 2 * lba \in 1 .. 2 * n + rest
          BY <1>3, <1>4, <4>4
        <5> QED
          BY <4>2, <4>3, <4>4, <5>1
      <4>5. CASE k - 2 * lba \notin 1 .. 2 * n /\ k - 2 * lba \in 1 .. 2 * n + rest
        <5>1. rest = 1 /\ l = 2 * (lba + n) + 1 /\ k = 2 * (lba + n) + 1
          BY <1>3, <1>4, <4>1, <4>5
        <5>2. (k - 1) \div 2 = w
          BY <1>3, <5>1
        <5> QED
          BY <4>3, <4>5, <5>2
      <4>6. CASE k - 2 * lba \notin 1 .. 2 * n + rest
        <5>1. k - 2 * lba \notin 1 .. 2 * n
          BY <1>3, <1>4, <4>6
        <5> QED
          BY <4>2, <4>3, <4>6, <5>1
      <4> QED
        BY <4>4, <4>5, <4>6
    <3> HIDE DEF moved
    <3> QED
      BY <2>2, <3>1, <3>2
  <2> QED
    BY <2>1, <2>2
<1>9. moved \subseteq 0 .. w - 1 /\ lba # -1
  BY <1>3
<1>10. \A k \in DOMAIN cells :
         cells'[k] = IF asked.op = "read" /\ ((k - 1) \div 2) - asked.buf \in 0 .. n - 1
                     THEN disk[d][k - 2 * asked.buf + 2 * lba] ELSE cells[k]
  BY <1>5
<1> QED
  <2>1. DisksMoved(asked, d, lba, n, w)
    BY <1>8 DEF DisksMoved
  <2>2. CellsMoved(asked, d, lba, n)
    BY <1>10 DEF CellsMoved
  <2>3. Whole(d) = w /\ (n # asked.count => lba + n >= w) /\ regs'.cf = (n # asked.count)
    BY <1>2, <1>3, <1>6
  <2> QED
    BY <1>3, <1>6, <1>9, <2>1, <2>2, <2>3, IsExact

\* What TransfersAreExact says of a step.
ExactStep ==
    calls' # calls =>
         /\ call'.op \in {"read", "write"} =>
              IF disk[call'.drive] = <<>> THEN regs'.cf /\ UNCHANGED <<disk, cells>>
              ELSE IF call'.drive \in CdRoms /\ "ch" \in DOMAIN call'.place
              THEN regs'.cf /\ UNCHANGED <<disk, cells>>
              ELSE Exact(call', regs')
         /\ call'.op = "parameters" /\ call'.drive \notin CdRoms =>
              LET g == get_geometry(call'.drive)
              IN  Sector(g, regs'.last) = Cardinality(Triples(g)) - 1

\* A call that fails leaves everything alone.
LEMMA FailsExactly ==
    ASSUME NEW ah, NEW n, Fails(ah, n)
    PROVE  regs'.cf /\ UNCHANGED <<disk, cells>>
<1> QED
  BY DEF Fails, Returned

\* What a transfer leaves to be shown.
LEMMA TransferStep ==
    ASSUME NEW asked, call' = asked, asked.op \in {"read", "write"},
           disk[asked.drive] = <<>> => regs'.cf /\ UNCHANGED <<disk, cells>>,
           asked.drive \in CdRoms /\ "ch" \in DOMAIN asked.place =>
             regs'.cf /\ UNCHANGED <<disk, cells>>,
           disk[asked.drive] # <<>> /\ (asked.drive \notin CdRoms \/ "ch" \notin DOMAIN asked.place) =>
             Exact(asked, regs')
    PROVE  ExactStep
<1>1. asked.op # "parameters"
  OBVIOUS
<1>2. Exact(asked, regs') => Exact(call', regs')
  OBVIOUS
<1> QED
  BY <1>1, <1>2, Zenon DEF ExactStep

LEMMA SectorsStep ==
    ASSUME DiskInv, NEW op \in {"read", "write"}, NEW d \in DriveSet, NEW p \in Places,
           NEW size \in Counts, NEW buf \in Addresses, ReadOrWriteSectors(op, d, p, size, buf)
    PROVE  ExactStep
<1> DEFINE asked == [op |-> op, drive |-> d, place |-> p, count |-> size, buf |-> buf]
           g == get_geometry(d)
<1>1. call' = asked
  BY DEF ReadOrWriteSectors, Called
<1>2. \/ g.spt = 0 /\ Fails(1, 0)
      \/ g.spt # 0 /\ ~ ChecksPlace(g, p) /\ Fails(4, 0)
      \/ /\ g.spt # 0 /\ ChecksPlace(g, p)
         /\ IF op = "read" THEN Reads(d, LbaOf(g, p), size, buf)
            ELSE Writes(d, LbaOf(g, p), size, buf)
  BY DEF ReadOrWriteSectors
<1>3. /\ size \in Nat /\ buf \in Nat
      /\ p \in [ch : Nat, clhi : Nat, sector : Nat, dh : Nat]
  BY BiosDiskAssumption
<1>4. /\ asked.op = op /\ asked.drive = d /\ asked.place = p
      /\ asked.count = size /\ asked.buf = buf
  OBVIOUS
<1> HIDE DEF asked, g
<1>5. /\ disk[d] = <<>> \/ d \in CdRoms => g.spt = 0
      /\ disk[d] # <<>> /\ d \notin CdRoms => g \in Geometries
  BY GeometryOf DEF DiskInv, g
<1>6. CASE disk[d] = <<>> \/ d \in CdRoms
  <2>1. Fails(1, 0)
    BY <1>2, <1>5, <1>6
  <2>2. regs'.cf /\ UNCHANGED <<disk, cells>>
    BY <2>1, FailsExactly
  <2>3. "ch" \in DOMAIN p
    BY <1>3
  <2> QED
    BY <1>1, <1>4, <1>6, <2>2, <2>3, TransferStep
<1>7. CASE disk[d] # <<>> /\ d \notin CdRoms
  <2>1. g \in Geometries
    BY <1>5, <1>7
  <2>2. g.spt # 0
    BY <2>1, GeometrySizes
  <2>3. CASE ~ ChecksPlace(g, p)
    <3>1. Fails(4, 0)
      BY <1>2, <2>2, <2>3
    <3>2. regs'.cf /\ UNCHANGED <<disk, cells>>
      BY <3>1, FailsExactly
    <3>3. Sector(get_geometry(d), p) = -1
      BY <1>3, <2>1, <2>3, SectorOfPlace DEF g
    <3>4. Exact(asked, regs')
      BY <1>4, <3>2, <3>3 DEF Exact
    <3> QED
      BY <1>1, <1>4, <1>7, <3>4, TransferStep
  <2>4. CASE ChecksPlace(g, p)
    <3>1. PICK lba : lba = LbaOf(g, p)
      OBVIOUS
    <3>2. lba \in Nat /\ Sector(get_geometry(d), p) = lba
      BY <1>3, <2>1, <2>4, <3>1, SectorOfPlace DEF g
    <3>3. CASE op = "read"
      <4>1. Reads(d, lba, size, buf)
        BY <1>2, <2>2, <2>4, <3>1, <3>3
      <4>2. Exact(asked, regs')
        BY <1>3, <1>4, <3>2, <3>3, <4>1, ReadsExactly
      <4> QED
        BY <1>1, <1>4, <1>7, <4>2, TransferStep
    <3>4. CASE op = "write"
      <4>1. Writes(d, lba, size, buf)
        BY <1>2, <2>2, <2>4, <3>1, <3>4
      <4>2. Exact(asked, regs')
        BY <1>3, <1>4, <3>2, <3>4, <4>1, WritesExactly
      <4> QED
        BY <1>1, <1>4, <1>7, <4>2, TransferStep
    <3> QED
      BY <3>3, <3>4
  <2> QED
    BY <2>3, <2>4
<1> QED
  BY <1>6, <1>7

LEMMA BlocksStep ==
    ASSUME DiskInv, NEW op \in {"read", "write"}, NEW d \in DriveSet, NEW lba \in Lbas,
           NEW size \in Counts, NEW buf \in Addresses, ExtendedReadOrWrite(op, d, lba, size, buf)
    PROVE  ExactStep
<1> DEFINE place == [lba |-> lba]
           asked == [op |-> op, drive |-> d, place |-> place, count |-> size, buf |-> buf]
<1>1. call' = asked
  BY DEF ExtendedReadOrWrite, Called
<1>2. \/ ~ disk_present(d) /\ Fails(1, regs.n)
      \/ disk_present(d) /\ op = "read" /\ Reads(d, lba, size, buf)
      \/ disk_present(d) /\ op = "write" /\ Writes(d, lba, size, buf)
  BY DEF ExtendedReadOrWrite
<1>3. size \in Nat /\ buf \in Nat /\ lba \in Nat
  BY BiosDiskAssumption
<1>4. /\ asked.op = op /\ asked.drive = d /\ asked.place = place
      /\ asked.count = size /\ asked.buf = buf
  OBVIOUS
<1>5. Sector(get_geometry(d), place) = lba
  BY DEF Sector
<1>6. "ch" \notin DOMAIN place
  OBVIOUS
<1> HIDE DEF asked, place
<1>7. CASE ~ disk_present(d)
  <2>1. Fails(1, regs.n)
    BY <1>2, <1>7
  <2>2. regs'.cf /\ UNCHANGED <<disk, cells>>
    BY <2>1, FailsExactly
  <2>3. disk[d] = <<>>
    BY <1>7 DEF disk_present
  <2> QED
    BY <1>1, <1>4, <2>2, <2>3, TransferStep
<1>8. CASE disk_present(d)
  <2>1. Exact(asked, regs')
    <3>1. CASE op = "read" /\ Reads(d, lba, size, buf)
      BY <1>3, <1>4, <1>5, <3>1, ReadsExactly
    <3>2. CASE op = "write" /\ Writes(d, lba, size, buf)
      BY <1>3, <1>4, <1>5, <3>2, WritesExactly
    <3> QED
      BY <1>2, <1>8, <3>1, <3>2
  <2>2. disk[d] # <<>>
    BY <1>8 DEF disk_present
  <2> QED
    BY <1>1, <1>4, <1>6, <2>1, <2>2, TransferStep
<1> QED
  BY <1>7, <1>8

LEMMA ParametersStep ==
    ASSUME DiskInv, NEW d \in DriveSet, GetDriveParameters(d)
    PROVE  ExactStep
<1> DEFINE g == get_geometry(d)
           p == [ch |-> (g.cyls - 1) % CylByte, clhi |-> ((g.cyls - 1) \div CylByte) % 4,
                 sector |-> g.spt, dh |-> (g.heads - 1) % 256]
<1>1. CASE call' = NoCall
  BY <1>1 DEF ExactStep, NoCall
<1>2. CASE /\ disk_present(d)
           /\ call' = [op |-> "parameters", drive |-> d]
           /\ regs' = [ah |-> 0, n |-> 0, cf |-> FALSE, last |-> p]
  <2>1. regs'.last = p /\ call'.op = "parameters" /\ call'.drive = d
    BY <1>2
  <2>2. ASSUME d \notin CdRoms
        PROVE  Sector(g, p) = Cardinality(Triples(g)) - 1
    <3>1. g \in Geometries
      BY <1>2, <2>2, GeometryOf DEF DiskInv, disk_present
    <3> HIDE DEF g
    <3> QED
      BY <3>1, LastPlace
  <2> HIDE DEF p
  <2> QED
    BY <2>1, <2>2, Zenon DEF ExactStep
<1> QED
  BY <1>1, <1>2 DEF GetDriveParameters, Answers

\* Images keep their lengths; the user may put others in their place.
LEMMA DiskInvStep ==
    ASSUME DiskInv, [DiskNext]_diskVars
    PROVE  DiskInv'
<1>1. CASE UNCHANGED <<disk, cells>>
  BY <1>1 DEF DiskInv
<1>2. ASSUME NEW to, NEW at, NEW from, NEW of, NEW n, to = cells, cells' = Copied(to, at, from, of, n),
             disk' = disk
      PROVE  DiskInv'
  BY <1>2 DEF DiskInv, Copied
<1>3. ASSUME NEW d \in DriveSet, NEW image, IsImage(image), disk' = [disk EXCEPT ![d] = image],
             cells' = cells
      PROVE  DiskInv'
  BY <1>3 DEF DiskInv
<1>4. ASSUME NEW d \in DriveSet, NEW lba, NEW size, NEW buf,
             Reads(d, lba, size, buf) \/ Writes(d, lba, size, buf)
      PROVE  DiskInv'
  <2>1. CASE Reads(d, lba, size, buf)
    BY <1>2, <2>1 DEF Reads
  <2>2. CASE Writes(d, lba, size, buf)
    <3>1. PICK n : disk' = [disk EXCEPT ![d] = Copied(disk[d], 2 * lba, cells, 2 * buf, n)]
      BY <2>2, Zenon DEF Writes
    <3>2. IsImage(Copied(disk[d], 2 * lba, cells, 2 * buf, n))
      BY CopyKeeps DEF DiskInv
    <3>3. cells' = cells
      BY <2>2 DEF Writes
    <3> QED
      BY <1>3, <3>1, <3>2, <3>3
  <2> QED
    BY <1>4, <2>1, <2>2
<1>5. ASSUME NEW op, NEW d \in DriveSet, NEW p, NEW size, NEW buf,
             ReadOrWriteSectors(op, d, p, size, buf)
      PROVE  DiskInv'
  BY <1>1, <1>4, <1>5 DEF ReadOrWriteSectors, Fails
<1>6. ASSUME NEW op, NEW d \in DriveSet, NEW lba, NEW size, NEW buf,
             ExtendedReadOrWrite(op, d, lba, size, buf)
      PROVE  DiskInv'
  BY <1>1, <1>4, <1>6 DEF ExtendedReadOrWrite, Fails
<1>7. ASSUME NEW d \in DriveSet,
             GetDriveParameters(d) \/ GetDiskType(d) \/ GetExtendedParameters(d)
      PROVE  DiskInv'
  BY <1>1, <1>7 DEF GetDriveParameters, GetDiskType, GetExtendedParameters, Answers
<1>8. ASSUME NEW d \in DriveSet, NEW image \in Images[d], Mount(d, image)
      PROVE  DiskInv'
  <2>1. IsImage(image)
    BY BiosDiskAssumption DEF IsImage, DriveSet
  <2> QED
    BY <1>3, <1>8, <2>1 DEF Mount
<1>9. ASSUME NEW order, BootsFrom(order) PROVE DiskInv'
  <2>1. \/ UNCHANGED <<disk, cells>>
        \/ \E i : cells' = Copied(cells, 0, disk[order[i]], 0, 2) /\ disk' = disk
    BY <1>9, Zenon DEF BootsFrom
  <2> QED
    BY <1>1, <1>2, <2>1
<1>10. CASE UNCHANGED diskVars
  BY <1>1, <1>10 DEF diskVars
<1> QED
  BY <1>5, <1>6, <1>7, <1>8, <1>9, <1>10 DEF DiskNext

LEMMA CallIsExact ==
    ASSUME DiskInv, [DiskNext]_diskVars
    PROVE  ExactStep
<1>1. CASE UNCHANGED diskVars
  BY <1>1 DEF diskVars, ExactStep
<1>2. CASE call' = NoCall
  BY <1>2 DEF NoCall, ExactStep
<1>3. ASSUME NEW d \in DriveSet,
             GetDiskType(d) \/ GetExtendedParameters(d) \/ \E image : Mount(d, image)
      PROVE  ExactStep
  BY <1>2, <1>3 DEF GetDiskType, GetExtendedParameters, Answers, Mount
<1>4. ASSUME NEW order, BootsFrom(order) PROVE ExactStep
  BY <1>2, <1>4 DEF BootsFrom
<1> QED
  BY <1>1, <1>3, <1>4, SectorsStep, BlocksStep, ParametersStep DEF DiskNext

\* INT 13h: a call moves the sectors it reports, between the place and the buffer it
\* was given, and nothing else; the place that drive parameters name is the last one.
THEOREM CallsMoveWhatTheySay == DiskInit /\ [][DiskNext]_diskVars => TransfersAreExact
<1>1. DiskInit => DiskInv
  <2> SUFFICES ASSUME DiskInit PROVE DiskInv
    OBVIOUS
  <2>1. /\ disk \in [DriveSet -> UNION {Images[d] : d \in DriveSet}]
        /\ \A d \in DriveSet : disk[d] \in Images[d]
    BY DEF DiskInit
  <2>2. \A d \in DriveSet : IsImage(disk[d])
    BY <2>1, BiosDiskAssumption DEF IsImage, DriveSet
  <2>3. DOMAIN cells = 1 .. MemoryCells
    BY DEF DiskInit
  <2> QED
    BY <2>1, <2>2, <2>3 DEF DiskInv
<1>2. DiskInv /\ [DiskNext]_diskVars => DiskInv'
  BY DiskInvStep
<1>3. DiskInv /\ [DiskNext]_diskVars => [ExactStep]_diskVars
  BY CallIsExact
<1> QED
  BY <1>1, <1>2, <1>3, PTL DEF TransfersAreExact, ExactStep

-----------------------------------------------------------------------------
(***************************************************************************)
(* The audio ring, for every size, cursor width, refill target and chunk.  *)
(* The argument is in two parts: an inductive invariant that bounds what a *)
(* push() or pop() in progress still intends to do by the true distance of *)
(* the cursors (linear arithmetic), and a lemma that two cursors less than *)
(* one ring apart never truncate to the same slot, even across the cursor  *)
(* wrap (the only place that needs Modulus to be a multiple of Cap).       *)
(***************************************************************************)
\* No multiple of a lies strictly between 0 and a.
LEMMA NoMultipleBetween ==
  ASSUME NEW a \in Nat \ {0}, NEW z \in Int
  PROVE  ~(0 < a * z /\ a * z < a)
<1>1. CASE z <= 0
  BY <1>1
<1>2. CASE z >= 1
  <2>1. a * z >= a
    BY <1>2, SMT
  <2> QED BY <2>1
<1> QED BY <1>1, <1>2

\* Quotient and remainder.
LEMMA DivMod ==
  ASSUME NEW a \in Nat \ {0}, NEW p \in Nat
  PROVE  /\ p % a \in 0 .. a - 1
         /\ p \div a \in Int
         /\ p = a * (p \div a) + (p % a)
BY SMT

\* Two positions whose difference is d, give or take whole cursor ranges,
\* with d strictly between 0 and one ring, are different slots.
LEMMA DistinctSlots ==
  ASSUME NEW p \in Nat, NEW q \in Nat, NEW d \in 1 .. Cap - 1, NEW t \in Int,
         p = q + d + t * Modulus
  PROVE  Slot(p) # Slot(q)
<1> SUFFICES ASSUME Slot(p) = Slot(q) PROVE FALSE
  OBVIOUS
<1>1. PICK k \in Int : Modulus = k * Cap
  BY RingAssumption
<1>2. Cap \in Nat \ {0}
  BY RingAssumption
<1> DEFINE a == p \div Cap
           b == q \div Cap
<1>3. p % Cap = q % Cap
  BY DEF Slot
<1>4. a \in Int /\ b \in Int /\ p = Cap * a + (p % Cap) /\ q = Cap * b + (q % Cap)
  BY <1>2, DivMod
<1>5. p % Cap \in Int
  BY <1>2, DivMod
<1> HIDE DEF a, b
<1>6. d = Cap * a - Cap * b - t * Modulus
  BY <1>1, <1>2, <1>3, <1>4, <1>5
<1>7. d = Cap * (a - b - t * k)
  BY <1>1, <1>2, <1>4, <1>6, SMT
<1>8. a - b - t * k \in Int
  BY <1>1, <1>4
<1> QED BY <1>2, <1>7, <1>8, NoMultipleBetween

-----------------------------------------------------------------------------
\* What a push() or pop() under way still means to do fits the ring as it is
\* now, not only as it was when the cursor was loaded.
PendingFits ==
  /\ prod.pc # "idle" => Distance(rpos, wpos) + prod.n <= Cap
  /\ prod.i <= prod.n
  /\ cons.pc # "idle" => cons.n <= Distance(rpos, wpos)
  /\ cons.i <= cons.n

\* The invariant of both calls in progress.
IInv == TypeOK /\ NeverOverfull /\ PendingFits

\* The constants as facts of linear arithmetic.
LEMMA Constants ==
  /\ Cap \in Nat /\ Cap >= 1
  /\ Modulus \in Nat /\ Modulus >= 2 * Cap
  /\ Target \in Nat /\ Target <= Cap
  /\ MaxChunk \in Nat /\ MaxChunk >= 1
  /\ Silence \in Frame
<1>1. PICK k \in 2 .. Modulus : Modulus = k * Cap
  BY RingAssumption
<1>2. Cap \in Nat /\ Modulus \in Nat /\ k \in Nat /\ k >= 2
  BY <1>1, RingAssumption
<1>3. k * Cap >= 2 * Cap
  BY <1>2, SMT
<1> QED BY <1>1, <1>3, RingAssumption

LEMMA SlotInRing == ASSUME NEW p \in Nat PROVE Slot(p) \in 0 .. Cap - 1
BY RingAssumption, DivMod DEF Slot

LEMMA AdvanceInRange ==
  ASSUME NEW p \in 0 .. Modulus - 1, NEW n \in 0 .. Cap
  PROVE  Advance(p, n) \in 0 .. Modulus - 1
BY Constants DEF Advance

\* Publishing n frames lengthens the distance by n, releasing n shortens it.
LEMMA PublishDistance ==
  ASSUME NEW r \in 0 .. Modulus - 1, NEW w \in 0 .. Modulus - 1, NEW n \in Nat,
         Distance(r, w) + n <= Cap
  PROVE  /\ Advance(w, n) \in 0 .. Modulus - 1
         /\ Distance(r, Advance(w, n)) = Distance(r, w) + n
BY Constants DEF Advance, Distance

LEMMA ReleaseDistance ==
  ASSUME NEW r \in 0 .. Modulus - 1, NEW w \in 0 .. Modulus - 1, NEW n \in Nat,
         n <= Distance(r, w), Distance(r, w) <= Cap
  PROVE  /\ Advance(r, n) \in 0 .. Modulus - 1
         /\ Distance(Advance(r, n), w) = Distance(r, w) - n
BY Constants DEF Advance, Distance

\* The locals of a call are a record of these three fields.
LEMMA CallFields ==
  ASSUME NEW pcs, NEW a
  PROVE  a \in Call(pcs) <=> /\ a = [pc |-> a.pc, n |-> a.n, i |-> a.i]
                             /\ a.pc \in pcs
                             /\ a.n \in 0 .. Cap + MaxChunk
                             /\ a.i \in 0 .. Cap
BY DEF Call

LEMMA CallRecord ==
  ASSUME NEW pcs, NEW pc \in pcs, NEW n \in 0 .. Cap + MaxChunk, NEW i \in 0 .. Cap
  PROVE  [pc |-> pc, n |-> n, i |-> i] \in Call(pcs)
BY DEF Call

LEMMA InitIInv == Init => IInv
BY Constants DEF Init, IInv, TypeOK, NeverOverfull, PendingFits, Distance, Idle, Call

LEMMA NextIInv == IInv /\ [Next]_vars => IInv'
<1> SUFFICES ASSUME IInv, [Next]_vars PROVE IInv'
  OBVIOUS
<1>0. /\ TypeOK /\ NeverOverfull /\ PendingFits
      /\ Distance(rpos, wpos) \in 0 .. Cap
  BY Constants DEF IInv, TypeOK, NeverOverfull, Distance
<1>a. /\ prod.pc \in {"idle", "load", "copy"} /\ cons.pc \in {"idle", "copy"}
      /\ prod.n \in Nat /\ prod.i \in Nat /\ cons.n \in Nat /\ cons.i \in Nat
      /\ prod.n <= Cap + MaxChunk /\ prod.i <= Cap
      /\ cons.n <= Cap + MaxChunk /\ cons.i <= Cap
      /\ prod = [pc |-> prod.pc, n |-> prod.n, i |-> prod.i]
      /\ cons = [pc |-> cons.pc, n |-> cons.n, i |-> cons.i]
  BY <1>0, CallFields, Constants DEF TypeOK
<1> DEFINE D == Distance(rpos, wpos)
<1>1. CASE Refill
  <2> USE <1>1 DEF Refill
  <2>1. PICK n \in Nat : /\ prod' = [pc |-> "load", n |-> n, i |-> 0]
                         /\ n <= Target - D /\ n <= MaxChunk
    BY <1>0, Constants DEF Smaller
  <2>2. TypeOK'
    <3>1. n \in 0 .. Cap + MaxChunk /\ 0 \in 0 .. Cap
      BY <2>1, Constants
    <3>2. prod' \in Call({"idle", "load", "copy"})
      BY <2>1, <3>1, CallRecord
    <3> QED BY <1>0, <3>2 DEF TypeOK
  <2>3. NeverOverfull' /\ PendingFits'
    BY <1>0, <2>1, Constants DEF NeverOverfull, PendingFits, Distance
  <2> QED BY <2>2, <2>3 DEF IInv
<1>2. CASE PushLoad
  <2> USE <1>2 DEF PushLoad
  <2>1. PICK n \in Nat : /\ prod' = [pc |-> "copy", n |-> n, i |-> 0]
                         /\ n <= prod.n /\ n <= Cap - D
    <3>1. Smaller(prod.n, Cap - D) \in Nat
          /\ Smaller(prod.n, Cap - D) <= prod.n /\ Smaller(prod.n, Cap - D) <= Cap - D
      BY <1>0, <1>a, Constants DEF Smaller
    <3> QED BY <3>1
  <2>2. TypeOK'
    <3>1. n \in 0 .. Cap + MaxChunk /\ 0 \in 0 .. Cap
      BY <1>a, <2>1, Constants
    <3>2. prod' \in Call({"idle", "load", "copy"})
      BY <2>1, <3>1, CallRecord
    <3> QED BY <1>0, <3>2 DEF TypeOK
  <2>3. NeverOverfull' /\ PendingFits'
    BY <1>0, <2>1, Constants DEF NeverOverfull, PendingFits, Distance
  <2> QED BY <2>2, <2>3 DEF IInv
<1>3. CASE PushCopy
  <2>1. PICK f \in Frame : slot' = [slot EXCEPT ![Slot(Advance(wpos, prod.i))] = f]
    BY <1>3 DEF PushCopy
  <2>2. slot' \in [0 .. Cap - 1 -> Frame]
    BY <1>0, <2>1 DEF TypeOK
  <2>3. /\ prod' = [prod EXCEPT !.i = prod.i + 1]
        /\ prod.i < prod.n /\ prod.pc = "copy"
        /\ UNCHANGED <<wpos, rpos, cons, out, delivered>>
    BY <1>3 DEF PushCopy
  <2>4. prod.n <= Cap
    BY <1>0, <1>a, <2>3, Constants DEF PendingFits
  <2>5. prod' = [pc |-> "copy", n |-> prod.n, i |-> prod.i + 1]
    BY <1>a, <2>3
  <2>6. TypeOK'
    <3>1. prod.i + 1 \in 0 .. Cap /\ prod.n \in 0 .. Cap + MaxChunk
      BY <1>a, <2>3, <2>4, Constants
    <3>2. prod' \in Call({"idle", "load", "copy"})
      BY <2>5, <3>1, CallRecord
    <3> QED BY <1>0, <2>2, <2>3, <3>2 DEF TypeOK
  <2>7. NeverOverfull' /\ PendingFits'
    BY <1>0, <1>a, <2>3, <2>5, Constants DEF NeverOverfull, PendingFits, Distance
  <2> QED BY <2>6, <2>7 DEF IInv
<1>4. CASE PushPublish
  <2> USE <1>4 DEF PushPublish
  <2>1. D + prod.n <= Cap /\ wpos' = Advance(wpos, prod.n) /\ rpos' = rpos
    BY <1>0, <1>a DEF PendingFits
  <2>2. wpos' \in 0 .. Modulus - 1 /\ Distance(rpos', wpos') = D + prod.n
    BY <1>0, <1>a, <2>1, PublishDistance DEF TypeOK
  <2>3. TypeOK'
    BY <1>0, <2>2, Constants DEF TypeOK, Idle, Call
  <2>4. NeverOverfull' /\ PendingFits'
    BY <1>0, <1>a, <2>1, <2>2, Constants DEF NeverOverfull, PendingFits, Idle
  <2> QED BY <2>3, <2>4 DEF IInv
<1>5. ASSUME NEW want \in 0 .. Cap, PopLoad(want) PROVE IInv'
  <2> USE <1>5 DEF PopLoad
  <2>1. PICK n \in Nat : /\ cons' = [pc |-> "copy", n |-> n, i |-> 0]
                         /\ n <= D /\ n <= Cap
    <3>1. Smaller(want, D) \in Nat /\ Smaller(want, D) <= D
      BY <1>0, <1>5, Constants DEF Smaller
    <3> QED BY <1>0, <3>1, Constants
  <2>2. TypeOK'
    <3>1. n \in 0 .. Cap + MaxChunk /\ 0 \in 0 .. Cap
      BY <2>1, Constants
    <3>2. cons' \in Call({"idle", "copy"}) /\ out' \in Seq(Frame)
      BY <2>1, <3>1, CallRecord
    <3> QED BY <1>0, <3>2 DEF TypeOK
  <2>3. NeverOverfull' /\ PendingFits'
    BY <1>0, <2>1, Constants DEF NeverOverfull, PendingFits, Distance
  <2> QED BY <2>2, <2>3 DEF IInv
<1>6. CASE PopCopy
  <2>1. /\ cons' = [cons EXCEPT !.i = cons.i + 1]
        /\ cons.i < cons.n /\ cons.pc = "copy"
        /\ out' = Append(out, slot[Slot(Advance(rpos, cons.i))])
        /\ UNCHANGED <<slot, wpos, rpos, prod, delivered>>
    BY <1>6 DEF PopCopy
  <2>2. cons.n <= Cap
    BY <1>0, <1>a, <2>1, Constants DEF PendingFits, NeverOverfull
  <2>8. cons' = [pc |-> "copy", n |-> cons.n, i |-> cons.i + 1]
    BY <1>a, <2>1
  <2>3. Advance(rpos, cons.i) \in Nat
    BY <1>0, <1>a, AdvanceInRange, Constants, SMTT(30) DEF TypeOK
  <2>4. slot[Slot(Advance(rpos, cons.i))] \in Frame
    BY <1>0, <2>3, SlotInRing DEF TypeOK
  <2>5. out' \in Seq(Frame)
    BY <1>0, <2>1, <2>4 DEF TypeOK
  <2>6. TypeOK'
    <3>1. cons.i + 1 \in 0 .. Cap /\ cons.n \in 0 .. Cap + MaxChunk
      BY <1>a, <2>1, <2>2, Constants
    <3>2. cons' \in Call({"idle", "copy"})
      BY <2>8, <3>1, CallRecord
    <3> QED BY <1>0, <2>1, <2>5, <3>2 DEF TypeOK
  <2>7. NeverOverfull' /\ PendingFits'
    BY <1>0, <1>a, <2>1, <2>8, Constants DEF NeverOverfull, PendingFits, Distance
  <2> QED BY <2>6, <2>7 DEF IInv
<1>7. CASE PopPublish
  <2> USE <1>7 DEF PopPublish
  <2>1. cons.n <= D /\ rpos' = Advance(rpos, cons.n) /\ wpos' = wpos
    BY <1>0, <1>a DEF PendingFits
  <2>2. rpos' \in 0 .. Modulus - 1 /\ Distance(rpos', wpos') = D - cons.n
    BY <1>0, <1>a, <2>1, ReleaseDistance DEF TypeOK
  <2>3. TypeOK'
    BY <1>0, <2>2, Constants DEF TypeOK, Idle, Call
  <2>4. NeverOverfull' /\ PendingFits'
    BY <1>0, <1>a, <2>1, <2>2, Constants DEF NeverOverfull, PendingFits, Idle
  <2> QED BY <2>3, <2>4 DEF IInv
<1>8. CASE UNCHANGED vars
  BY <1>0, <1>8 DEF vars, IInv, TypeOK, NeverOverfull, PendingFits, Distance
<1> QED BY <1>1, <1>2, <1>3, <1>4, <1>5, <1>6, <1>7, <1>8 DEF Next, Push, Pop

\* Every reachable state satisfies the inductive invariant.
THEOREM Invariance == Spec => []IInv
BY InitIInv, NextIInv, PTL DEF Spec

\* The types of the ring's cursors and of the two threads' locals.
THEOREM TypeCorrect == Spec => []TypeOK
<1>1. IInv => TypeOK
  BY DEF IInv
<1> QED BY <1>1, Invariance, PTL

\* The ring never holds more frames than it has slots.
THEOREM RingNeverOverfull == Spec => []NeverOverfull
<1>1. IInv => NeverOverfull
  BY DEF IInv
<1> QED BY <1>1, Invariance, PTL

LEMMA UnreadInv == ASSUME IInv PROVE NoUnreadOverwritten
<1> SUFFICES ASSUME prod.pc = "copy",
                    NEW a \in 0 .. prod.n - 1,
                    NEW b \in 0 .. Distance(rpos, wpos) - 1,
                    Slot(Advance(wpos, a)) = Slot(Advance(rpos, b))
             PROVE  FALSE
  BY DEF NoUnreadOverwritten, Writing, Unread
<1> DEFINE d == Distance(rpos, wpos) + a - b
           p == Advance(wpos, a)
           q == Advance(rpos, b)
<1> USE Constants DEF IInv, TypeOK, NeverOverfull, PendingFits, Call
<1>1. d \in 1 .. Cap - 1
  BY SMTT(30) DEF Distance
<1>2. p \in Nat /\ q \in Nat
  BY DEF Distance, Advance
<1>3. \E t \in Int : p = q + d + t * Modulus
  <2>1. p = q + d \/ p = q + d + Modulus \/ p = q + d - Modulus
    BY DEF Advance, Distance
  <2>2. \/ p = q + d + 0 * Modulus
        \/ p = q + d + 1 * Modulus
        \/ p = q + d + (-1) * Modulus
    <3>1. Modulus \in Int => 0 * Modulus = 0 /\ 1 * Modulus = Modulus /\ (-1) * Modulus = -Modulus
      BY SMT
    <3>2. p \in Int /\ q \in Int /\ d \in Int /\ Modulus \in Int
      BY <1>1, <1>2
    <3> HIDE DEF p, q, d
    <3> QED BY <2>1, <3>1, <3>2
  <2>3. 0 \in Int /\ 1 \in Int /\ -1 \in Int
    OBVIOUS
  <2> HIDE DEF p, q, d
  <2> QED BY <2>2, <2>3
<1>4. PICK t \in Int : p = q + d + t * Modulus
  BY <1>3
<1>5. Slot(p) # Slot(q)
  BY <1>1, <1>2, <1>4, DistinctSlots
<1> QED BY <1>5

\* push() never writes a slot the consumer has not released: for every ring
\* size and every cursor width, wherever the cursors wrap.
THEOREM UnreadIsSafe == Spec => []NoUnreadOverwritten
<1>1. IInv => NoUnreadOverwritten
  BY UnreadInv
<1> QED BY <1>1, Invariance, PTL

\* push() never clips what the refill rendered.
THEOREM NothingRenderedIsClipped == Spec => RefillNeverClipped
<1>1. ASSUME IInv, [Next]_vars, prod.pc = "load", prod'.pc = "copy"
      PROVE  prod'.n = prod.n
  <2>1. CASE PushLoad
    <3>1. prod.n <= Cap - Distance(rpos, wpos)
      BY <1>1, Constants DEF IInv, TypeOK, NeverOverfull, PendingFits, Call, Distance
    <3>2. prod.n \in Nat /\ Cap - Distance(rpos, wpos) \in Int
      BY <1>1, Constants DEF IInv, TypeOK, Call, Distance
    <3>3. Smaller(prod.n, Cap - Distance(rpos, wpos)) = prod.n
      BY <3>1, <3>2 DEF Smaller
    <3> QED BY <2>1, <3>3 DEF PushLoad
  <2>2. CASE Pop \/ UNCHANGED vars
    BY <1>1, <2>2 DEF Pop, PopLoad, PopCopy, PopPublish, vars
  <2>3. CASE Refill \/ PushCopy \/ PushPublish
    BY <1>1, <2>3 DEF Refill, PushCopy, PushPublish
  <2> QED BY <1>1, <2>1, <2>2, <2>3 DEF Next, Push
<1>2. IInv /\ [Next]_vars => [prod.pc = "load" /\ prod'.pc = "copy" => prod'.n = prod.n]_vars
  BY <1>1
<1> QED BY <1>2, Invariance, PTL DEF Spec, RefillNeverClipped

-----------------------------------------------------------------------------
(***************************************************************************)
(* The refinement.  What the ring contains is a function of the two        *)
(* cursors; storing one of them adds or takes off a batch at once.  What   *)
(* pop() has copied so far is still the beginning of the contents when it  *)
(* stores rpos, because no push() has written there in the meantime.       *)
(***************************************************************************)
At(r, j) == slot[Slot(Advance(r, j))]

Taken ==
  /\ out \in Seq(Frame) /\ Len(out) = cons.i
  /\ cons.pc = "idle" => cons.i = 0
  /\ \A j \in 1 .. cons.i : out[j] = At(rpos, j - 1)

\* Positions of a distance below the ring are counted from either cursor.
LEMMA AdvanceTwice ==
  ASSUME NEW r \in 0 .. Modulus - 1, NEW n \in 0 .. Cap, NEW j \in 0 .. Cap
  PROVE  n + j <= Cap => Advance(Advance(r, n), j) = Advance(r, n + j)
BY Constants DEF Advance

LEMMA AdvanceDistance ==
  ASSUME NEW r \in 0 .. Modulus - 1, NEW w \in 0 .. Modulus - 1, Distance(r, w) <= Cap
  PROVE  Distance(r, w) \in 0 .. Cap /\ Advance(r, Distance(r, w)) = w
BY Constants DEF Advance, Distance

\* A slot push() writes is none of those that are still unread.
LEMMA CopyGoesElsewhere ==
  ASSUME IInv, prod.pc = "copy", prod.i < prod.n, NEW j \in 0 .. Distance(rpos, wpos) - 1
  PROVE  Slot(Advance(wpos, prod.i)) # Slot(Advance(rpos, j))
<1>1. NoUnreadOverwritten
  BY UnreadInv
<1>2. prod.i \in 0 .. prod.n - 1
  BY Constants DEF IInv, TypeOK, Call
<1>3. Slot(Advance(wpos, prod.i)) \in Writing /\ Slot(Advance(rpos, j)) \in Unread
  BY <1>2 DEF Writing, Unread
<1> QED BY <1>1, <1>3 DEF NoUnreadOverwritten

LEMMA TakenInit == Init => Taken
BY DEF Init, Taken, Idle

LEMMA TakenNext == IInv /\ Taken /\ [Next]_vars => Taken'
<1> SUFFICES ASSUME IInv, Taken, [Next]_vars PROVE Taken'
  OBVIOUS
<1>0. /\ wpos \in 0 .. Modulus - 1 /\ rpos \in 0 .. Modulus - 1
      /\ slot \in [0 .. Cap - 1 -> Frame]
      /\ Distance(rpos, wpos) \in 0 .. Cap
      /\ cons.n \in Nat /\ cons.i \in Nat /\ cons.i <= cons.n /\ cons.pc \in {"idle", "copy"}
      /\ cons.pc # "idle" => cons.n <= Distance(rpos, wpos)
      /\ prod.n \in Nat /\ prod.i \in Nat
  BY Constants DEF IInv, TypeOK, NeverOverfull, PendingFits, Call, Distance
<1>1. ASSUME UNCHANGED <<slot, rpos, cons, out>> PROVE Taken'
  BY <1>1 DEF Taken, At
<1>2. CASE Refill \/ PushLoad \/ PushPublish \/ UNCHANGED vars
  BY <1>1, <1>2 DEF Refill, PushLoad, PushPublish, vars
<1>3. CASE PushCopy
  <2>1. PICK f \in Frame : slot' = [slot EXCEPT ![Slot(Advance(wpos, prod.i))] = f]
    BY <1>3 DEF PushCopy
  <2>2. rpos' = rpos /\ cons' = cons /\ out' = out /\ prod.pc = "copy" /\ prod.i < prod.n
    BY <1>3 DEF PushCopy
  <2>3. ASSUME NEW j \in 1 .. cons.i PROVE At(rpos, j - 1)' = At(rpos, j - 1)
    <3>1. j - 1 \in 0 .. Distance(rpos, wpos) - 1
      BY <1>0 DEF Taken
    <3>2. Slot(Advance(wpos, prod.i)) # Slot(Advance(rpos, j - 1))
      BY <2>2, <3>1, CopyGoesElsewhere
    <3> QED BY <1>0, <2>1, <2>2, <3>2 DEF At
  <2> QED BY <2>2, <2>3 DEF Taken
<1>4. ASSUME NEW want \in 0 .. Cap, PopLoad(want) PROVE Taken'
  BY <1>4 DEF PopLoad, Taken
<1>5. CASE PopCopy
  <2>1. /\ cons' = [cons EXCEPT !.i = cons.i + 1]
        /\ cons.i < cons.n /\ cons.pc = "copy"
        /\ out' = Append(out, At(rpos, cons.i))
        /\ slot' = slot /\ rpos' = rpos
    BY <1>5 DEF PopCopy, At
  <2>2. cons'.i = cons.i + 1 /\ cons'.pc = "copy"
    BY <1>0, <2>1 DEF IInv, TypeOK, Call
  <2>3. At(rpos, cons.i) \in Frame
    <3>1. cons.i \in 0 .. Cap
      BY <1>0, <2>1, Constants, SMTT(30)
    <3>2. Advance(rpos, cons.i) \in Nat
      BY <1>0, <3>1, AdvanceInRange
    <3> QED BY <1>0, <3>2, SlotInRing DEF At
  <2>4. out' \in Seq(Frame) /\ Len(out') = cons.i + 1
    BY <2>1, <2>3 DEF Taken
  <2>5. ASSUME NEW j \in 1 .. cons.i + 1 PROVE out'[j] = At(rpos, j - 1)
    <3>1. CASE j = cons.i + 1
      <4>1. j - 1 = cons.i
        BY <1>0, <3>1
      <4> QED BY <1>0, <2>1, <3>1, <4>1 DEF Taken
    <3>2. CASE j # cons.i + 1
      <4>1. j \in 1 .. cons.i
        BY <1>0, <3>2
      <4> QED BY <2>1, <4>1 DEF Taken
    <3> QED BY <3>1, <3>2
  <2> QED BY <2>1, <2>2, <2>4, <2>5 DEF Taken, At
<1>6. CASE PopPublish
  BY <1>6 DEF PopPublish, Taken, Idle
<1> QED BY <1>2, <1>3, <1>4, <1>5, <1>6 DEF Next, Push, Pop

-----------------------------------------------------------------------------
\* Whatever the length of the ring's contents, they are a sequence of frames.
ContentsShape ==
  /\ Distance(rpos, wpos) \in 0 .. Cap
  /\ Contents \in Seq(Frame) /\ Len(Contents) = Distance(rpos, wpos)
  /\ \A j \in 1 .. Distance(rpos, wpos) : Contents[j] = At(rpos, j - 1)

LEMMA ContentsOK == IInv => ContentsShape
<1> SUFFICES ASSUME IInv PROVE ContentsShape
  OBVIOUS
<1>1. /\ wpos \in 0 .. Modulus - 1 /\ rpos \in 0 .. Modulus - 1
      /\ slot \in [0 .. Cap - 1 -> Frame]
      /\ Distance(rpos, wpos) \in 0 .. Cap
  BY Constants DEF IInv, TypeOK, NeverOverfull, Distance
<1>2. ASSUME NEW j \in 1 .. Distance(rpos, wpos) PROVE At(rpos, j - 1) \in Frame
  <2>1. Advance(rpos, j - 1) \in Nat
    BY <1>1, Constants DEF Advance
  <2> QED BY <1>1, <2>1, SlotInRing DEF At
<1>3. Contents = [j \in 1 .. Distance(rpos, wpos) |-> At(rpos, j - 1)]
  BY DEF Contents, At
<1> HIDE DEF Contents
<1> QED BY <1>1, <1>2, <1>3 DEF ContentsShape

LEMMA InitRefines == Init => Fifo!Init
<1> SUFFICES ASSUME Init PROVE Fifo!Init
  OBVIOUS
<1>1. Len(Contents) = 0
  BY InitIInv, ContentsOK, Constants DEF Init, Distance, ContentsShape
<1> QED BY <1>1, Constants DEF Fifo!Init, Init

LEMMA StepRefines == IInv /\ IInv' /\ Taken /\ [Next]_vars => [Fifo!Next]_(Fifo!fifoVars)
<1> SUFFICES ASSUME IInv, IInv', Taken, [Next]_vars PROVE [Fifo!Next]_(Fifo!fifoVars)
  OBVIOUS
<1> DEFINE D == Distance(rpos, wpos)
<1>0. /\ wpos \in 0 .. Modulus - 1 /\ rpos \in 0 .. Modulus - 1
      /\ slot \in [0 .. Cap - 1 -> Frame]
      /\ cons.n \in Nat /\ cons.i \in Nat /\ cons.pc \in {"idle", "copy"}
      /\ cons.pc # "idle" => cons.n <= D
      /\ prod.pc # "idle" => D + prod.n <= Cap
      /\ prod.n \in Nat /\ prod.i \in Nat
  BY Constants DEF IInv, TypeOK, NeverOverfull, PendingFits, Call, Distance
<1>1. /\ D \in 0 .. Cap
      /\ Contents \in Seq(Frame) /\ Len(Contents) = D
      /\ \A j \in 1 .. D : Contents[j] = At(rpos, j - 1)
  BY ContentsOK DEF ContentsShape
<1>2. /\ D' \in 0 .. Cap
      /\ Contents' \in Seq(Frame) /\ Len(Contents') = D'
      /\ \A j \in 1 .. D' : Contents'[j] = At(rpos, j - 1)'
  <2>1. ContentsShape'
    BY ContentsOK, PTL
  <2> QED BY <2>1 DEF ContentsShape
<1>3. ASSUME UNCHANGED <<slot, wpos, rpos, delivered>> PROVE UNCHANGED Fifo!fifoVars
  BY <1>3 DEF Fifo!fifoVars, Contents
<1>4. CASE Refill \/ PushLoad \/ PopCopy \/ UNCHANGED vars
  BY <1>3, <1>4 DEF Refill, PushLoad, PopCopy, vars
<1>5. ASSUME NEW want \in 0 .. Cap, PopLoad(want) PROVE UNCHANGED Fifo!fifoVars
  BY <1>3, <1>5 DEF PopLoad
<1>6. CASE PushCopy
  <2>1. PICK f \in Frame : slot' = [slot EXCEPT ![Slot(Advance(wpos, prod.i))] = f]
    BY <1>6 DEF PushCopy
  <2>2. rpos' = rpos /\ wpos' = wpos /\ delivered' = delivered /\ prod.pc = "copy" /\ prod.i < prod.n
    BY <1>6 DEF PushCopy
  <2>3. ASSUME NEW j \in 1 .. D PROVE At(rpos, j - 1)' = At(rpos, j - 1)
    <3>1. j - 1 \in 0 .. D - 1
      BY <1>1
    <3>2. Slot(Advance(wpos, prod.i)) # Slot(Advance(rpos, j - 1))
      BY <2>2, <3>1, CopyGoesElsewhere
    <3>3. Advance(rpos, j - 1) \in Nat
      BY <1>0, <1>1, <3>1, Constants DEF Advance
    <3> QED BY <1>0, <2>1, <2>2, <3>2, <3>3, SlotInRing DEF At
  <2>4. D' = D
    BY <2>2
  <2> HIDE DEF D
  <2>5. Contents' = Contents
    BY <1>1, <1>2, <2>3, <2>4
  <2> QED BY <2>2, <2>5 DEF Fifo!fifoVars
<1>7. CASE PushPublish
  <2> DEFINE n == prod.n
             batch == [j \in 1 .. n |-> At(wpos, j - 1)]
  <2>1. /\ wpos' = Advance(wpos, n) /\ rpos' = rpos /\ slot' = slot /\ delivered' = delivered
        /\ prod.pc = "copy"
    BY <1>7 DEF PushPublish
  <2>2. D' = D + n /\ D + n <= Cap /\ n \in Nat
    BY <1>0, <2>1, PublishDistance
  <2>3. ASSUME NEW j \in 1 .. n PROVE At(wpos, j - 1) \in Frame /\ At(wpos, j - 1) = At(rpos, D + j - 1)
    <3>1. Advance(wpos, j - 1) \in Nat
      BY <1>0, <1>1, <2>2, Constants DEF Advance
    <3>2. Advance(rpos, D) = wpos
      BY <1>0, <1>1, AdvanceDistance
    <3>3. D \in 0 .. Cap /\ j - 1 \in 0 .. Cap /\ D + (j - 1) <= Cap
      BY <1>1, <2>2, Constants
    <3>4. Advance(Advance(rpos, D), j - 1) = Advance(rpos, D + (j - 1))
      BY <1>0, <3>3, AdvanceTwice
    <3>5. D + (j - 1) = D + j - 1
      BY <3>3, Constants
    <3> QED BY <1>0, <3>1, <3>2, <3>4, <3>5, SlotInRing DEF At
  <2>4. batch \in [1 .. n -> Frame] /\ Len(batch) = n /\ batch \in Seq(Frame)
    BY <2>2, <2>3
  <2>5. ASSUME NEW j \in 1 .. D + n PROVE Contents'[j] = (Contents \o batch)[j]
    <3>1. Contents'[j] = At(rpos, j - 1)
      BY <1>2, <2>1, <2>2 DEF At
    <3>2. CASE j \in 1 .. D
      BY <1>1, <2>4, <3>1, <3>2
    <3>3. CASE j \notin 1 .. D
      <4>1. j - D \in 1 .. n /\ D + (j - D) - 1 = j - 1
        BY <1>1, <2>2, <3>3
      <4>2. batch[j - D] = At(rpos, j - 1)
        BY <2>3, <4>1
      <4>3. (Contents \o batch)[j] = batch[j - D]
        BY <1>1, <2>4, <2>2, <3>3, <4>1, SMTT(30)
      <4> QED BY <3>1, <4>2, <4>3
    <3> QED BY <3>2, <3>3
  <2> HIDE DEF batch, D
  <2>6. Contents' = Contents \o batch
    <3>1. Contents \o batch \in Seq(Frame) /\ Len(Contents \o batch) = Len(Contents) + Len(batch)
      BY <1>1, <2>4, ConcatProperties
    <3>2. Len(Contents') = Len(Contents \o batch) /\ Len(Contents') = D + n
      BY <1>1, <1>2, <2>2, <2>4, <3>1
    <3>3. \A j \in 1 .. Len(Contents') : Contents'[j] = (Contents \o batch)[j]
      BY <2>5, <3>2
    <3> QED BY <1>2, <3>1, <3>2, <3>3, SeqEqual
  <2>7. Fifo!Put(batch)
    BY <1>1, <2>1, <2>2, <2>4, <2>6 DEF Fifo!Put
  <2>8. n \in 0 .. Cap
    BY <1>1, <2>2, Constants
  <2> QED BY <2>4, <2>7, <2>8 DEF Fifo!Next
<1>8. CASE PopPublish
  <2> DEFINE n == cons.n
  <2>1. /\ rpos' = Advance(rpos, n) /\ wpos' = wpos /\ slot' = slot /\ delivered' = out
        /\ cons.pc = "copy" /\ cons.i = n
    BY <1>8 DEF PopPublish
  <2>2. D' = D - n /\ n <= D /\ n \in Nat
    BY <1>0, <1>1, <2>1, ReleaseDistance
  <2>3. delivered' = SubSeq(Contents, 1, n)
    <3>1. out \in Seq(Frame) /\ Len(out) = n /\ \A j \in 1 .. n : out[j] = Contents[j]
      BY <1>1, <2>1, <2>2 DEF Taken
    <3> HIDE DEF n, D
    <3> QED BY <1>1, <2>1, <2>2, <3>1
  <2>4. ASSUME NEW j \in 1 .. D - n PROVE Contents'[j] = Contents[n + j]
    <3>1. Contents'[j] = At(Advance(rpos, n), j - 1)
      BY <1>2, <2>1, <2>2 DEF At
    <3>2. n \in 0 .. Cap /\ j - 1 \in 0 .. Cap /\ n + (j - 1) <= Cap /\ n + (j - 1) = n + j - 1
          /\ n + j \in 1 .. D
      BY <1>1, <2>2, Constants
    <3>3. Advance(Advance(rpos, n), j - 1) = Advance(rpos, n + j - 1)
      BY <1>0, <3>2, AdvanceTwice
    <3> QED BY <1>1, <3>1, <3>2, <3>3 DEF At
  <2> HIDE DEF D, n
  <2>5. Contents' = SubSeq(Contents, n + 1, Len(Contents))
    BY <1>1, <1>2, <2>2, <2>4
  <2>6. Fifo!Take(n)
    BY <1>1, <2>2, <2>3, <2>5 DEF Fifo!Take
  <2>7. n \in 0 .. Cap
    BY <1>1, <2>2, Constants
  <2> QED BY <2>6, <2>7 DEF Fifo!Next
<1> QED BY <1>4, <1>5, <1>6, <1>7, <1>8 DEF Next, Push, Pop

\* The two threads, without a lock and one access at a time, are a bounded
\* FIFO: nothing is lost, repeated or reordered, wherever the cursors wrap.
THEOREM RingIsAFifo == Spec => IsAFifo
<1>1. IInv /\ Taken /\ [Next]_vars => IInv' /\ Taken'
  BY NextIInv, TakenNext
<1> QED
  BY InitIInv, TakenInit, <1>1, InitRefines, StepRefines, NextIInv, PTL
  DEF Spec, IsAFifo, Fifo!Spec
=============================================================================
