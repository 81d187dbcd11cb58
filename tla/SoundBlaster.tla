---------------------------- MODULE SoundBlaster ----------------------------
(***************************************************************************)
(* The Sound Blaster and the two channels of the 8237 it plays from        *)
(* (sound_blaster.cc), with a driver that programs the DMA controller,     *)
(* sends DSP commands byte by byte, resets the DSP when it likes, and reads *)
(* the replies.  render() consumes the DMA stream at the programmed rate.  *)
(*                                                                         *)
(* Samples are left out: playing a sample is fetching its address.  The    *)
(* block length of the DSP commands is not in the model because nothing    *)
(* reads it: a block ends at the DMA channel's terminal count.  A register *)
(* of the 8237 has two digits of base Byte, written one after the other.   *)
(***************************************************************************)
EXTENDS Integers, Sequences

CONSTANTS
    Byte,           \* values of a byte of a DMA register
    FIFO_SZ,        \* replies the DSP can hold
    Commands,       \* commands the driver sends
    Buffers,        \* [addr, count] it gives the DMA controller
    Used,           \* channels it uses
    One, Steps,     \* a source sample, and the source samples per host frame
    MaxFrames,      \* frames of a render call
    MaxPlayed       \* bound: fetches since the last block end

ASSUME SoundBlasterAssumption ==
    /\ Byte \in Nat \ {0, 1} /\ One \in Nat \ {0} /\ FIFO_SZ \in Nat \ {0, 1}
    /\ Steps \subseteq Nat \ {0} /\ MaxFrames \in Nat
    /\ Used \subseteq {"dma8", "dma16"}
    /\ Buffers \subseteq [addr : 0 .. Byte * Byte - 1, count : 0 .. Byte * Byte - 1]

VARIABLES
    c,          \* the card and the DMA controller
    sending,    \* driver: bytes of the command it is sending
    expected    \* driver: replies it waits for

card == <<c, sending, expected>>

Channels == {"dma8", "dma16"}
active_dma(d) == IF d.mode_16bit THEN "dma16" ELSE "dma8"

-----------------------------------------------------------------------------
(* The DMA controller. *)

\* A write of v to half of a register.
Half(register, ff, v) ==
    IF ff THEN [register EXCEPT !.hi = v] ELSE [register EXCEPT !.lo = v]
Value(register) == register.hi * Byte + register.lo

\* dma_write: what it leaves in the channel, and the half that is written next.
Written(chan, port, ff, v) ==
    LET base == Half(chan.base_addr, ff, v)
        count == Half(chan.base_count, ff, v)
    IN  CASE port = "addr" -> [chan EXCEPT !.base_addr = base, !.cur_addr = Value(base)]
          [] port = "count" -> [chan EXCEPT !.base_count = count, !.cur_count = Value(count)]
          [] port = "mask" -> [chan EXCEPT !.masked = (v = 1)]
          [] port = "clear" -> chan
NextHalf(port, ff) ==
    CASE port \in {"addr", "count"} -> ~ ff [] port = "mask" -> ff [] port = "clear" -> FALSE
DmaWrite(d, ch, port, v) ==
    [d EXCEPT !.dma = [@ EXCEPT ![ch] = Written(d.dma[ch], port, d.ff[ch], v)],
              !.ff = [@ EXCEPT ![ch] = NextHalf(port, d.ff[ch])]]

\* read_one and step_count: the address is what is fetched.
Fetch(d) ==
    LET ch == active_dma(d)
        chan == d.dma[ch]
    IN  [d EXCEPT !.fetched = Append(@, chan.cur_addr),
                  !.have = @ /\ chan.cur_count # 0,
                  !.dma[ch] = [chan EXCEPT !.cur_addr = (@ + 1) % (Byte * Byte),
                                           !.cur_count = (@ - 1) % (Byte * Byte)]]

\* fetch_frame: two units in stereo.
FetchFrame(d) ==
    LET primed == [d EXCEPT !.have = TRUE]
    IN  IF d.stereo THEN Fetch(Fetch(primed)) ELSE Fetch(primed)

\* block_complete.
WithoutAddress(d) ==
    LET chan == d.dma[active_dma(d)]
        irq == [d EXCEPT !.blocks = Append(@, d.fetched), !.fetched = <<>>]
    IN  IF d.auto_init_mode
        THEN [irq EXCEPT !.dma[active_dma(d)] = [chan EXCEPT !.tc = TRUE, !.cur_count = Value(chan.base_count)]]
        ELSE [irq EXCEPT !.dma[active_dma(d)].tc = TRUE, !.playing = FALSE]
BlockComplete(d) ==
    LET chan == d.dma[active_dma(d)]
        irq == [d EXCEPT !.blocks = Append(@, d.fetched), !.fetched = <<>>]
    IN  IF d.auto_init_mode
        THEN [irq EXCEPT !.dma[active_dma(d)] =
                [chan EXCEPT !.tc = TRUE, !.cur_addr = Value(chan.base_addr), !.cur_count = Value(chan.base_count)]]
        ELSE [irq EXCEPT !.dma[active_dma(d)].tc = TRUE, !.playing = FALSE]

-----------------------------------------------------------------------------
(* The DSP. *)

Parameters(cmd) ==
    CASE cmd \in {"E0", "40"} -> 1
      [] cmd \in {"41", "48", "14"} -> 2
      [] cmd \in {"B0", "B4", "C0", "C4"} -> 3
      [] OTHER -> 0

PushFifo(d, replies) ==
    [d EXCEPT !.fifo = LET all == @ \o replies
                       IN  IF Len(all) > FIFO_SZ THEN SubSeq(all, 1, FIFO_SZ) ELSE all]

StartPlayback(d, autoinit, sixteen) ==
    [d EXCEPT !.auto_init_mode = autoinit, !.mode_16bit = sixteen, !.frac = 0,
              !.paused = FALSE, !.playing = TRUE, !.fetched = <<>>]

\* What a command does once its parameters are there.
Answer(d, cmd, params) ==
    CASE cmd = "E0" -> PushFifo(d, <<<<"not", params[1]>>>>)
      [] cmd = "E1" -> PushFifo(d, <<"major", "minor">>)
      [] cmd = "E8" -> PushFifo(d, <<"zero">>)
      [] cmd = "D8" -> PushFifo(d, <<d.speaker>>)
      [] cmd \in {"D1", "D3"} -> [d EXCEPT !.speaker = (cmd = "D1")]
      [] cmd \in {"D0", "D5"} -> [d EXCEPT !.paused = TRUE]
      [] cmd \in {"D4", "D6"} -> [d EXCEPT !.paused = FALSE]
      [] cmd \in {"DA", "D9"} -> [d EXCEPT !.auto_init_mode = FALSE]
      [] cmd = "F2" -> [BlockComplete(d) EXCEPT !.blocks = d.blocks]
      [] cmd \in {"14", "91"} -> StartPlayback(d, FALSE, FALSE)
      [] cmd \in {"1C", "90"} -> StartPlayback(d, TRUE, FALSE)
      [] cmd \in {"B0", "B4", "C0", "C4"} ->
            StartPlayback([d EXCEPT !.stereo = (params[1] = "stereo")],
                          cmd \in {"B4", "C4"}, cmd \in {"B0", "B4"})
      [] OTHER -> d

\* dsp_command and dsp_param, on a write of base + 0Ch.
DspWrite(d, v) ==
    LET collected == Append(d.params, v)
        begun == [d EXCEPT !.cmd = v, !.params = <<>>, !.need_params = Parameters(v)]
        param == [d EXCEPT !.params = collected, !.need_params = @ - 1]
    IN  IF d.need_params > 1 THEN param
        ELSE IF d.need_params = 1 THEN Answer(param, d.cmd, collected)
        ELSE IF Parameters(v) = 0 THEN Answer(begun, v, <<>>) ELSE begun

\* The second half of the reset handshake.
ResetKeepsCommand(d) ==
    IF ~ d.reset_pending THEN d
    ELSE [d EXCEPT !.reset_pending = FALSE, !.playing = FALSE, !.paused = FALSE, !.fifo = <<"AA">>]
DspReset(d) ==
    IF ~ d.reset_pending THEN d
    ELSE [d EXCEPT !.reset_pending = FALSE, !.playing = FALSE, !.paused = FALSE,
                   !.need_params = 0, !.params = <<>>, !.cmd = "none", !.fifo = <<"AA">>]

-----------------------------------------------------------------------------
(* Playing. *)

\* The stream goes on to its next source frame.
NextSource(d) ==
    LET ended == BlockComplete(d)
    IN  IF d.have THEN FetchFrame(d)
        ELSE IF ~ ended.playing THEN ended
        ELSE IF ended.dma[active_dma(ended)].masked THEN [ended EXCEPT !.playing = FALSE]
        ELSE FetchFrame(ended)

\* One host frame: frac advances by step, over as many source frames as it crosses.
CrossOne(d) == IF d.playing /\ d.frac >= One THEN NextSource([d EXCEPT !.frac = @ - One]) ELSE d
HostFrame(d, step) ==
    LET Cross[k \in 0 .. step] ==
            IF k = 0 THEN [d EXCEPT !.frac = @ + step] ELSE CrossOne(Cross[k - 1])
    IN  IF d.playing THEN Cross[step] ELSE d

\* render.  The frame it holds at the end, and whether that was the last of
\* the block, are not kept for the next call.
Rendered(d, frames, step) ==
    LET Sample[i \in 0 .. frames] ==
            IF i = 0 THEN FetchFrame(d) ELSE HostFrame(Sample[i - 1], step)
        silent == ~ d.playing \/ d.paused \/ ~ d.speaker \/ d.dma[active_dma(d)].masked
    IN  IF silent THEN d ELSE [Sample[frames] EXCEPT !.have = TRUE]

-----------------------------------------------------------------------------
(* The card with its driver. *)

Chan == [base_addr |-> [hi |-> 0, lo |-> 0], cur_addr |-> 0,
         base_count |-> [hi |-> 0, lo |-> 0], cur_count |-> 0, masked |-> TRUE, tc |-> FALSE]

\* reset.
CardInit ==
    /\ c = [dma |-> [ch \in Channels |-> Chan], ff |-> [ch \in Channels |-> FALSE],
            cmd |-> "none", need_params |-> 0, params |-> <<>>, reset_pending |-> FALSE, fifo |-> <<>>,
            speaker |-> FALSE, playing |-> FALSE, paused |-> FALSE, auto_init_mode |-> FALSE,
            mode_16bit |-> FALSE, stereo |-> FALSE, frac |-> 0,
            have |-> TRUE, fetched |-> <<>>, blocks |-> <<>>]
    /\ sending = <<>> /\ expected = <<>>

\* blocks holds the blocks that end in one step; the interrupt that F2 asks for ends none.
Card == [c EXCEPT !.blocks = <<>>]

ProgramDma(ch, buffer) ==
    /\ ~ c.playing /\ sending = <<>>
    /\ LET clear == DmaWrite(Card, ch, "clear", 0)
           a_lo  == DmaWrite(clear, ch, "addr", buffer.addr % Byte)
           a_hi  == DmaWrite(a_lo, ch, "addr", buffer.addr \div Byte)
           c_lo  == DmaWrite(a_hi, ch, "count", buffer.count % Byte)
           c_hi  == DmaWrite(c_lo, ch, "count", buffer.count \div Byte)
       IN  c' = DmaWrite(c_hi, ch, "mask", 0)
    /\ UNCHANGED <<sending, expected>>

Mask(ch, v) == c' = DmaWrite(Card, ch, "mask", v) /\ UNCHANGED <<sending, expected>>

\* A read of a channel's count.
CountRead(ch) == c' = [Card EXCEPT !.ff[ch] = ~ @] /\ UNCHANGED <<sending, expected>>

DmaStatus == /\ c' = [Card EXCEPT !.dma = [ch \in Channels |-> [@[ch] EXCEPT !.tc = FALSE]]]
             /\ UNCHANGED <<sending, expected>>

\* What the driver knows of a query's reply.
Reply(d, cmd, param) ==
    CASE cmd = "E0" -> <<<<"not", param>>>> [] cmd = "E1" -> <<"major", "minor">>
      [] cmd = "E8" -> <<"zero">> [] cmd = "D8" -> <<d.speaker>> [] OTHER -> <<>>

\* The commands that start a transfer, and the channel that one is of.
Starts == {"14", "91", "1C", "90", "B0", "B4", "C0", "C4"}
StartChannel(cmd) == IF cmd \in {"B0", "B4"} THEN "dma16" ELSE "dma8"
AtStart(chan) == chan.cur_addr = Value(chan.base_addr) /\ chan.cur_count = Value(chan.base_count)

\* The driver sends a command when it has the replies it waits for, and starts
\* a transfer from the beginning of a buffer when none is going on.
Command(cmd, param) ==
    /\ sending = <<>> /\ expected = <<>> /\ ~ c.reset_pending
    /\ cmd \in Starts => ~ c.playing /\ AtStart(c.dma[StartChannel(cmd)])
    /\ sending' = <<cmd>> \o SubSeq(<<param, "lo", "hi">>, 1, Parameters(cmd))
    /\ expected' = Reply(c, cmd, param)
    /\ c' = Card

SendByte ==
    /\ sending # <<>>
    /\ sending' = Tail(sending)
    /\ c' = DspWrite(Card, Head(sending))
    /\ UNCHANGED expected

\* The driver gives up what it is doing, and resets the DSP.
ResetOn ==
    /\ ~ c.reset_pending
    /\ c' = [Card EXCEPT !.reset_pending = TRUE]
    /\ sending' = <<>> /\ expected' = <<"AA">>
ResetOff ==
    /\ c.reset_pending
    /\ c' = DspReset(Card)
    /\ UNCHANGED <<sending, expected>>

ReadData ==
    /\ expected # <<>> /\ c.fifo # <<>> /\ ~ c.reset_pending
    /\ c' = [Card EXCEPT !.fifo = Tail(@)]
    /\ expected' = Tail(expected)
    /\ UNCHANGED sending

Render(frames, step) ==
    /\ Len(c.fetched) < MaxPlayed
    /\ c' = Rendered(Card, frames, step)
    /\ UNCHANGED <<sending, expected>>

CardNext ==
    \/ \E ch \in Used : \/ \E buffer \in Buffers : ProgramDma(ch, buffer)
                        \/ \E v \in 0 .. 1 : Mask(ch, v)
                        \/ CountRead(ch)
    \/ DmaStatus
    \/ \E cmd \in Commands, param \in {"mono", "stereo"} : Command(cmd, param)
    \/ SendByte \/ ResetOn \/ ResetOff \/ ReadData
    \/ \E frames \in 1 .. MaxFrames, step \in Steps : Render(frames, step)

CardSpec == CardInit /\ [][CardNext]_card

-----------------------------------------------------------------------------
(* Properties. *)

\* The DSP takes every byte for what the driver meant, command or parameter,
\* and holds the replies the driver waits for, whatever was reset half-way.
DspInStep ==
    ~ c.reset_pending =>
        /\ c.need_params > 0 => c.need_params = Len(sending)
        /\ sending = <<>> => c.need_params = 0 /\ c.fifo = expected

\* When the card says that a block has ended, it has played the programmed
\* buffer from its first address to its last.
BlockEndMeansPlayed ==
    LET chan == c.dma[active_dma(c)]
        length == Value(chan.base_count) + 1
    IN  \A i \in DOMAIN c.blocks :
            /\ Len(c.blocks[i]) >= length
            /\ \A k \in 1 .. length :
                  c.blocks[i][k] = (Value(chan.base_addr) + k - 1) % (Byte * Byte)

=============================================================================
