---------------------------- MODULE Session_proof ----------------------------
(***************************************************************************)
(* What holds of every session of the two backends, however often the user *)
(* starts, cancels and stops: at most one DOSBox is alive, and an emulator *)
(* of emu88 runs only while the view model owns it, and is stopped safely. *)
(*                                                                         *)
(* Neither property is inductive.  A loop is owned because the installed   *)
(* emulator is replaced only when nothing of it is left, and that because  *)
(* disks are loading for one start at a time, while nothing is installed   *)
(* and no exit waits on the main queue.  SessionInv says all of this.      *)
(***************************************************************************)
EXTENDS MCSession, DiskLibrary, TLAPS, FiniteSetTheorems

-----------------------------------------------------------------------------
(* DOSBox: whichever emulators the user starts, cancels and starts again. *)

\* Every object has its fields.
BoxShape ==
    /\ DOMAIN box = Boxes
    /\ \A s \in Boxes : DOMAIN box[s] = {"load", "mounted", "copy", "shouldRun", "thread"}
    /\ DOMAIN bridge = {"running", "atexit", "shutdown"}

\* What OneDosBox says, without counting.
AtMostOne ==
    /\ \A s, t \in Boxes : Alive(s) /\ Alive(t) => s = t
    /\ \A s \in Boxes : Alive(s) => bridge.running

BoxInv == BoxShape /\ AtMostOne

LEMMA AtMostOneCounts == AtMostOne => OneDosBox
<1> SUFFICES ASSUME AtMostOne PROVE Cardinality({s \in Boxes : Alive(s)}) <= 1
  BY DEF AtMostOne, OneDosBox
<1> DEFINE A == {s \in Boxes : Alive(s)}
<1>1. CASE A = {}
  <2>1. Cardinality(A) = 0
    BY <1>1, FS_EmptySet
  <2> QED
    BY <2>1
<1>2. CASE A # {}
  <2>1. PICK s : s \in A
    BY <1>2
  <2>2. A = {s}
    BY <2>1 DEF AtMostOne
  <2>3. Cardinality(A) = 1
    BY <2>2, FS_Singleton
  <2> QED
    BY <2>3
<1> QED
  BY <1>1, <1>2

\* The thread of an emulator that is alive moves on.
LEMMA MoveKeeps ==
    ASSUME BoxInv, NEW s, NEW from \in {"shell", "modules", "window", "clearing"}, NEW to,
           Move(s, from, to), bridge' = bridge
    PROVE  BoxInv'
BY DEF Move, BoxInv, BoxShape, AtMostOne, Alive

\* The last thing it does is to say that nobody is.
LEMMA ClearKeeps == ASSUME BoxInv, NEW s \in Boxes, Clear(s) PROVE BoxInv'
BY DEF Clear, Move, BoxInv, BoxShape, AtMostOne, Alive

\* A newcomer gets in only when nobody is alive.
LEMMA DosBoxInitKeeps == ASSUME BoxInv, NEW s, DosBoxInit(s) PROVE BoxInv'
<1>1. CASE /\ ~bridge.running
           /\ bridge' = [bridge EXCEPT !.running = TRUE, !.atexit = TRUE]
           /\ box' = [box EXCEPT ![s].shouldRun = TRUE, ![s].thread = "shell"]
  <2>1. bridge'.running /\ DOMAIN bridge' = DOMAIN bridge
    BY <1>1 DEF BoxInv, BoxShape
  <2>2. \A t \in Boxes : t # s => box'[t] = box[t] /\ ~ Alive(t)'
    BY <1>1 DEF BoxInv, BoxShape, AtMostOne, Alive
  <2>3. BoxShape'
    BY <1>1, <2>1 DEF BoxInv, BoxShape
  <2> QED
    BY <2>1, <2>2, <2>3 DEF BoxInv, AtMostOne
<1>2. CASE /\ ~bridge.running
           /\ bridge' = [bridge EXCEPT !.atexit = TRUE] /\ UNCHANGED box
  BY <1>2 DEF BoxInv, BoxShape, AtMostOne, Alive
<1>3. CASE bridge.running /\ UNCHANGED <<bridge, box>>
  BY <1>3 DEF BoxInv, BoxShape, AtMostOne, Alive
<1> QED
  BY <1>1, <1>2, <1>3 DEF DosBoxInit

\* Loading the disks does not touch the thread.
LEMMA LoadDisksKeeps == ASSUME BoxInv, NEW s \in Boxes, LoadDisks(s) PROVE BoxInv'
<1>1. bridge' = bridge
  BY DEF LoadDisks
<1>2. /\ DOMAIN box' = Boxes
      /\ \A t \in Boxes : box'[t].thread = box[t].thread /\ DOMAIN box'[t] = DOMAIN box[t]
  <2>1. CASE box' = [box EXCEPT ![s] = LoadDisk(@)]
    BY <2>1 DEF LoadDisk, BoxInv, BoxShape
  <2>2. CASE box' = [box EXCEPT ![s].load = "failed"]
    BY <2>2 DEF BoxInv, BoxShape
  <2>3. CASE box' = [box EXCEPT ![s].load = "loaded"]
    BY <2>3 DEF BoxInv, BoxShape
  <2> QED
    BY <2>1, <2>2, <2>3 DEF LoadDisks
<1> QED
  BY <1>1, <1>2 DEF BoxInv, BoxShape, AtMostOne, Alive

LEMMA BoxInitInv == BoxInit => BoxInv
BY DEF BoxInit, BoxInv, BoxShape, AtMostOne, Alive, NewBox

LEMMA BoxNextInv == BoxInv /\ [BoxNext]_boxVars => BoxInv'
<1> SUFFICES ASSUME BoxInv, [BoxNext]_boxVars PROVE BoxInv'
  OBVIOUS
<1>1. CASE UNCHANGED <<box, bridge>>
  BY <1>1 DEF BoxInv, BoxShape, AtMostOne, Alive
<1>2. CASE StartBox
  BY <1>2 DEF StartBox, BoxInv, BoxShape, AtMostOne, Alive
<1>3. CASE Cancel \/ SaveNow \/ Stop
  BY <1>1, <1>3 DEF Cancel, SaveNow, Stop
<1>4. CASE Quit
  BY <1>4 DEF Quit, BoxInv, BoxShape, AtMostOne, Alive
<1>5. CASE MainContinues
  BY <1>1, <1>5 DEF MainContinues, ReadImage, WriteImage, Saved, WaitForDosBox
<1>6. CASE GiveUp \/ EmulatorDidExit
  BY <1>1, <1>6 DEF GiveUp, EmulatorDidExit
<1>7. CASE InstallBox
  BY <1>7, DosBoxInitKeeps DEF InstallBox
<1>8. CASE Teardown
  BY <1>8, MoveKeeps DEF Teardown
<1>9. ASSUME NEW s \in Boxes, LoadDisks(s) PROVE BoxInv'
  BY <1>9, LoadDisksKeeps
<1>10. ASSUME NEW s \in Boxes, GuestWrites(s) PROVE BoxInv'
  BY <1>1, <1>10 DEF GuestWrites
<1>11. ASSUME NEW s \in Boxes, LeaveShell(s) \/ ShutDown(s) PROVE BoxInv'
  BY <1>11, MoveKeeps DEF LeaveShell, ShutDown
<1>12. ASSUME NEW s \in Boxes, AskTeardown(s) PROVE BoxInv'
  BY <1>12, MoveKeeps DEF AskTeardown
<1>13. ASSUME NEW s \in Boxes, EndRun(s) PROVE BoxInv'
  BY <1>13 DEF EndRun, BoxInv, BoxShape, AtMostOne, Alive
<1> QED
  BY <1>1, <1>2, <1>3, <1>4, <1>5, <1>6, <1>7, <1>8, <1>9, <1>10, <1>11, <1>12, <1>13, ClearKeeps
  DEF BoxNext, MainBlocks, RunThread, boxVars

\* Of all the emulators a user can start, cancel and start again, one at most
\* is between dosbox_init() and the end of its cleanup, and s_running is set as
\* long as there is one.
THEOREM OneDosBoxAtATime == BoxSpec => []OneDosBox
<1>1. BoxInv => OneDosBox
  BY AtMostOneCounts DEF BoxInv
<1> QED
  BY BoxInitInv, BoxNextInv, <1>1, PTL DEF BoxSpec

-----------------------------------------------------------------------------
(* The sessions of emu88. *)

Block == [kind : {"loaded", "didExit"}, of : Emulator]

EmulatorObject ==
    [load : {"none", "loading", "loaded", "failed"},
     run : {"none", "queued", "running", "ending", "returned", "done", "selfwait"},
     shouldRun : BOOLEAN, delegate : BOOLEAN, machine : BOOLEAN,
     refs : SUBSET {"loader", "model", "block"}, halted : BOOLEAN]

SessionType ==
    /\ isRunning \in BOOLEAN /\ isStarting \in BOOLEAN /\ startCancelled \in BOOLEAN
    /\ current \in Emulator \cup {None}
    /\ mainQueue \in Seq(Block)
    /\ owed \in Nat /\ starts \in 0 .. MaxStarts
    /\ main \in [pc : {"free", "clear", "drain"}, of : Emulator \cup {None}]
    /\ emu \in [Emulator -> EmulatorObject]

Loading(e) == "loader" \in emu[e].refs
Looping(e) == emu[e].run \in {"queued", "running", "ending"}
Queued(kind, i) == i \in DOMAIN mainQueue /\ mainQueue[i].kind = kind

\* One start at a time, and nothing of an emulator exists before its disks are
\* there.
StartsAlone ==
    /\ \A e \in Emulator : e > starts => emu[e] = New
    /\ \A e, f \in Emulator : Loading(e) /\ Loading(f) => e = f
    /\ \A e \in Emulator : emu[e].load = "loading" => Loading(e)
    /\ \A e \in Emulator : Loading(e) =>
         /\ emu[e].load # "none"
         /\ emu[e] = [New EXCEPT !.load = emu[e].load, !.refs = {"loader"}]
         /\ current = None /\ main = Free
         /\ ~ startCancelled => isStarting /\ isRunning
         /\ \A i : ~ Queued("didExit", i)
    /\ isStarting => current = None

\* What waits for the main thread.
BlocksAreDue ==
    /\ \A i, j : Queued("loaded", i) /\ Queued("loaded", j) => i = j
    /\ \A i : Queued("loaded", i) =>
         LET e == mainQueue[i].of IN Loading(e) /\ emu[e].load \in {"loaded", "failed"}
    /\ \A i, j : Queued("didExit", i) /\ Queued("didExit", j) => i = j
    /\ \A i : Queued("didExit", i) =>
         LET e == mainQueue[i].of
         IN  /\ i <= owed \/ current = e
             /\ current \in {None, e}
             /\ ~ Looping(e) /\ emu[e].halted

\* An emulator that may still do something is the view model's.
LoopsAreOwned ==
    /\ current # None => isRunning /\ "model" \in emu[current].refs
    /\ main # Free => main.of = current /\ current # None /\ main.pc # "free"
                       /\ ~ emu[main.of].delegate
    /\ main.pc = "drain" => ~ emu[main.of].shouldRun
    /\ \A e \in Emulator :
         /\ emu[e].shouldRun => current = e /\ Looping(e)
         /\ Looping(e) =>
              /\ emu[e].machine
              /\ emu[e].delegate => current = e /\ (emu[e].shouldRun \/ emu[e].halted)
              /\ emu[e].run = "ending" => ~ emu[e].shouldRun
         /\ Looping(e) \/ emu[e].run = "returned" =>
              /\ "block" \in emu[e].refs
              /\ "model" \in emu[e].refs \/ emu[e].halted
         /\ emu[e].run = "selfwait" => emu[e].halted

SessionInv == SessionType /\ StartsAlone /\ BlocksAreDue /\ LoopsAreOwned

LEMMA AfterTail ==
    ASSUME mainQueue \in Seq(Block), mainQueue # << >>, mainQueue' = Tail(mainQueue)
    PROVE  /\ mainQueue' \in Seq(Block)
           /\ Head(mainQueue) = mainQueue[1] /\ Head(mainQueue) \in Block
           /\ 1 \in DOMAIN mainQueue
           /\ \A kind, i : Queued(kind, i)' =>
                 /\ i \in Nat /\ i >= 1
                 /\ Queued(kind, i + 1) /\ mainQueue'[i] = mainQueue[i + 1]
<1>1. DOMAIN mainQueue = 1 .. Len(mainQueue) /\ Len(mainQueue) \in Nat /\ Len(mainQueue) >= 1
  OBVIOUS
<1>2. mainQueue' \in Seq(Block) /\ Len(mainQueue') = Len(mainQueue) - 1
  OBVIOUS
<1>3. \A i \in 1 .. Len(mainQueue) - 1 : mainQueue'[i] = mainQueue[i + 1]
  BY <1>1
<1>4. DOMAIN mainQueue' = 1 .. Len(mainQueue) - 1
  BY <1>2
<1>5. Head(mainQueue) = mainQueue[1] /\ Head(mainQueue) \in Block /\ 1 \in DOMAIN mainQueue
  BY <1>1
<1> QED
  BY <1>1, <1>2, <1>3, <1>4, <1>5 DEF Queued

LEMMA AfterAppend ==
    ASSUME mainQueue \in Seq(Block), NEW b \in Block, mainQueue' = Append(mainQueue, b)
    PROVE  /\ mainQueue' \in Seq(Block)
           /\ \A kind, i : Queued(kind, i)' =>
                 \/ Queued(kind, i) /\ mainQueue'[i] = mainQueue[i] /\ i <= Len(mainQueue)
                 \/ i = Len(mainQueue) + 1 /\ mainQueue'[i] = b /\ b.kind = kind
<1>1. DOMAIN mainQueue = 1 .. Len(mainQueue) /\ Len(mainQueue) \in Nat
  OBVIOUS
<1>2. mainQueue' \in Seq(Block) /\ DOMAIN mainQueue' = 1 .. Len(mainQueue) + 1
  OBVIOUS
<1>3. \A i \in 1 .. Len(mainQueue) : mainQueue'[i] = mainQueue[i]
  OBVIOUS
<1>4. mainQueue'[Len(mainQueue) + 1] = b
  OBVIOUS
<1> QED
  BY <1>1, <1>2, <1>3, <1>4 DEF Queued

LEMMA QueueKept ==
    ASSUME mainQueue' = mainQueue
    PROVE  \A kind, i : Queued(kind, i)' <=> Queued(kind, i)
BY DEF Queued

LEMMA WaitingBlock ==
    ASSUME mainQueue \in Seq(Block), NEW kind, NEW i, Queued(kind, i)
    PROVE  i \in Nat /\ i >= 1 /\ mainQueue[i] \in Block /\ mainQueue[i].of \in Emulator
<1>1. DOMAIN mainQueue = 1 .. Len(mainQueue) /\ Len(mainQueue) \in Nat
  OBVIOUS
<1>2. \A k \in 1 .. Len(mainQueue) : mainQueue[k] \in Block
  OBVIOUS
<1> QED
  BY <1>1, <1>2 DEF Queued, Block

LEMMA NoneIsNoEmulator == None \notin Emulator /\ Emulator \subseteq Nat
BY SessionAssumption DEF None, Emulator

\* An action that changes one emulator, whose disks are loaded already.
LEMMA OneChanged ==
    ASSUME SessionInv, NEW e \in Emulator, ~ Loading(e), emu[e] # New,
           NEW r \in EmulatorObject, "loader" \notin r.refs, r.load = emu[e].load,
           emu' = [emu EXCEPT ![e] = r], starts' = starts
    PROVE  /\ emu' \in [Emulator -> EmulatorObject] /\ emu'[e] = r
           /\ \A f \in Emulator : f # e => emu'[f] = emu[f]
           /\ \A f \in Emulator : Loading(f)' <=> Loading(f)
           /\ \A f \in Emulator : Loading(f) => emu'[f] = emu[f]
           /\ \A f \in Emulator : f > starts' => emu'[f] = New
           /\ \A f \in Emulator : emu'[f].load = "loading" => Loading(f)'
<1>1. /\ emu' \in [Emulator -> EmulatorObject] /\ emu'[e] = r
      /\ \A f \in Emulator : f # e => emu'[f] = emu[f]
  BY DEF SessionInv, SessionType
<1>2. \A f \in Emulator : Loading(f)' <=> Loading(f)
  BY <1>1 DEF Loading
<1>3. \A f \in Emulator : Loading(f) => emu'[f] = emu[f]
  BY <1>1 DEF Loading
<1>4. \A f \in Emulator : f > starts' => emu'[f] = New
  BY <1>1 DEF SessionInv, StartsAlone
<1>5. \A f \in Emulator : emu'[f].load = "loading" => Loading(f)'
  BY <1>1, <1>2 DEF SessionInv, StartsAlone
<1> QED
  BY <1>1, <1>2, <1>3, <1>4, <1>5

LEMMA LoadingIsNotNew == \A e \in Emulator : Loading(e) => emu[e] # New
BY DEF Loading, New

LEMMA StartInv == ASSUME Patient, SessionInv, Start PROVE SessionInv'
<1> DEFINE n == starts + 1
<1>1. /\ n \in Emulator /\ starts' = n
      /\ mainQueue' = mainQueue /\ current' = current /\ main' = Free /\ main = Free
      /\ isRunning' = TRUE /\ isStarting' = TRUE /\ startCancelled' = FALSE
      /\ current = None /\ owed = 0
      /\ owed' = Len(mainQueue)
  BY SessionAssumption
  DEF Start, UserEvent, AfterEvent, SessionInv, SessionType, LoopsAreOwned, Emulator
<1>2. \A e \in Emulator : ~ Loading(e)
  BY DEF Start, Loading
<1> HIDE DEF n
<1>3. emu[n] = New
  <2>1. n > starts
    BY SessionAssumption DEF n, SessionInv, SessionType
  <2> QED
    BY <1>1, <2>1 DEF SessionInv, StartsAlone
<1>33. emu' = [emu EXCEPT ![n] = [New EXCEPT !.load = "loading", !.refs = {"loader"}]]
  BY <1>1, <1>3 DEF Start, SessionInv, SessionType, New
<1>4. \A i : ~ Queued("didExit", i)
  BY <1>1, WaitingBlock, NoneIsNoEmulator DEF SessionInv, BlocksAreDue, SessionType
<1>5. \A i : ~ Queued("loaded", i)
  BY <1>1, <1>2, WaitingBlock DEF SessionInv, BlocksAreDue, SessionType
<1>6. \A i : ~ Queued("didExit", i)' /\ ~ Queued("loaded", i)'
  BY <1>1, <1>4, <1>5, QueueKept
<1>7. SessionType'
  <2>1. emu' \in [Emulator -> EmulatorObject]
    BY <1>1, <1>33 DEF SessionInv, SessionType, New, EmulatorObject
  <2>2. starts' \in 0 .. MaxStarts /\ owed' \in Nat
    BY <1>1, SessionAssumption DEF SessionInv, SessionType, Emulator
  <2> QED
    BY <1>1, <2>1, <2>2 DEF SessionInv, SessionType, Free
<1>8. StartsAlone'
  <2>1. \A e \in Emulator : e # n => emu'[e] = emu[e]
    BY <1>33 DEF SessionInv, SessionType
  <2>2. emu'[n] = [New EXCEPT !.load = "loading", !.refs = {"loader"}]
    BY <1>1, <1>33 DEF SessionInv, SessionType
  <2>3. \A e \in Emulator : Loading(e)' <=> e = n
    BY <1>2, <2>1, <2>2 DEF Loading, New
  <2>4. \A e \in Emulator : e > starts' => e > starts /\ e # n
    BY <1>1, NoneIsNoEmulator, SessionAssumption DEF SessionInv, SessionType, n
  <2>5. \A e \in Emulator : e > starts' => emu'[e] = New
    BY <2>1, <2>4 DEF SessionInv, StartsAlone
  <2>6. \A e \in Emulator : emu'[e].load = "loading" => Loading(e)'
    BY <1>2, <2>1, <2>3 DEF SessionInv, StartsAlone
  <2>7. /\ emu'[n].load = "loading"
        /\ emu'[n] = [New EXCEPT !.load = emu'[n].load, !.refs = {"loader"}]
    BY <2>2 DEF New
  <2> QED
    BY <1>1, <1>6, <2>3, <2>5, <2>6, <2>7 DEF StartsAlone
<1>9. BlocksAreDue'
  BY <1>6 DEF BlocksAreDue
<1>10. LoopsAreOwned'
  BY <1>1, <1>2, <1>3, <1>33 DEF SessionInv, SessionType, LoopsAreOwned, New, Looping, Free, None
<1> QED
  BY <1>7, <1>8, <1>9, <1>10 DEF SessionInv

LEMMA CancelStartInv == ASSUME SessionInv, CancelStart PROVE SessionInv'
<1>1. /\ UNCHANGED <<current, mainQueue, main, starts, emu>>
      /\ startCancelled' = TRUE /\ isStarting' = FALSE /\ isRunning' = FALSE
      /\ owed' = Len(mainQueue) /\ current = None /\ main = Free
  BY DEF CancelStart, UserEvent, AfterEvent, SessionInv, StartsAlone
<1>2. Len(mainQueue) \in Nat /\ DOMAIN mainQueue = 1 .. Len(mainQueue)
  BY DEF SessionInv, SessionType
<1>3. SessionType'
  BY <1>1, <1>2 DEF SessionInv, SessionType
<1>4. StartsAlone'
  BY <1>1, QueueKept DEF SessionInv, StartsAlone, Loading
<1>5. BlocksAreDue'
  BY <1>1, <1>2, QueueKept DEF SessionInv, BlocksAreDue, Queued, Loading, Looping
<1>6. LoopsAreOwned'
  BY <1>1 DEF SessionInv, LoopsAreOwned, Looping
<1> QED
  BY <1>3, <1>4, <1>5, <1>6 DEF SessionInv

LEMMA DetachDelegateInv == ASSUME SessionInv, DetachDelegate PROVE SessionInv'
<1> DEFINE r == [emu[current] EXCEPT !.delegate = FALSE]
<1>1. /\ UNCHANGED <<isRunning, isStarting, startCancelled, current, owed, starts, mainQueue>>
      /\ main = Free /\ current \in Emulator /\ isRunning = TRUE
      /\ main' = [pc |-> "clear", of |-> current]
      /\ emu' = [emu EXCEPT ![current] = r]
  BY DEF DetachDelegate, UserEvent, ui, SessionInv, SessionType
<1>2. /\ r \in EmulatorObject /\ r.delegate = FALSE
      /\ r.load = emu[current].load /\ r.run = emu[current].run /\ r.refs = emu[current].refs
      /\ r.shouldRun = emu[current].shouldRun /\ r.machine = emu[current].machine
      /\ r.halted = emu[current].halted
  BY <1>1, ZenonT(60) DEF SessionInv, SessionType, EmulatorObject
<1> HIDE DEF r
<1>3. \A e \in Emulator : ~ Loading(e)
  BY <1>1, NoneIsNoEmulator DEF SessionInv, StartsAlone
<1>4. emu[current] # New
  BY <1>1, NoneIsNoEmulator DEF SessionInv, LoopsAreOwned, New
<1>5. /\ emu' \in [Emulator -> EmulatorObject] /\ emu'[current] = r
      /\ \A f \in Emulator : f # current => emu'[f] = emu[f]
      /\ \A f \in Emulator : ~ Loading(f)'
      /\ \A f \in Emulator : f > starts' => emu'[f] = New
      /\ \A f \in Emulator : emu'[f].load # "loading"
  BY <1>1, <1>2, <1>3, <1>4, OneChanged DEF Loading
<1>6. \A f \in Emulator :
        /\ emu'[f].load = emu[f].load /\ emu'[f].run = emu[f].run /\ emu'[f].refs = emu[f].refs
        /\ emu'[f].shouldRun = emu[f].shouldRun /\ emu'[f].machine = emu[f].machine
        /\ emu'[f].halted = emu[f].halted
        /\ emu'[f].delegate => emu[f].delegate /\ f # current
  BY <1>2, <1>5
<1>7. SessionType'
  BY <1>1, <1>5 DEF SessionInv, SessionType
<1>8. StartsAlone'
  BY <1>1, <1>5 DEF SessionInv, StartsAlone
<1>9. BlocksAreDue'
  BY <1>1, <1>6, QueueKept, WaitingBlock
  DEF SessionInv, SessionType, BlocksAreDue, Loading, Looping
<1>10. LoopsAreOwned'
  BY <1>1, <1>2, <1>5, <1>6, NoneIsNoEmulator DEF SessionInv, LoopsAreOwned, Looping, Free
<1> QED
  BY <1>7, <1>8, <1>9, <1>10 DEF SessionInv

\* While the main thread is inside stop(), that is the installed emulator's.
LEMMA Stopping ==
    ASSUME SessionInv, main.pc # "free"
    PROVE  /\ main # Free /\ main.of = current /\ current \in Emulator /\ isRunning = TRUE
           /\ main = [pc |-> main.pc, of |-> current]
           /\ emu[current] # New /\ emu[current] \in EmulatorObject
           /\ emu[current].delegate = FALSE
           /\ \A e \in Emulator : ~ Loading(e)
<1>1. main # Free
  BY DEF Free
<1>2. main.of = current /\ current \in Emulator /\ isRunning = TRUE
  BY <1>1 DEF SessionInv, SessionType, LoopsAreOwned
<1>3. main = [pc |-> main.pc, of |-> current]
  BY <1>2 DEF SessionInv, SessionType
<1>4. emu[current] # New /\ emu[current] \in EmulatorObject
  BY <1>2, NoneIsNoEmulator DEF SessionInv, SessionType, LoopsAreOwned, New
<1>5. emu[current].delegate = FALSE
  BY <1>1, <1>2, <1>4 DEF SessionInv, LoopsAreOwned, EmulatorObject
<1>6. \A e \in Emulator : ~ Loading(e)
  BY <1>1 DEF SessionInv, StartsAlone
<1> QED
  BY <1>1, <1>2, <1>3, <1>4, <1>5, <1>6

LEMMA ClearShouldRunInv == ASSUME SessionInv, ClearShouldRun PROVE SessionInv'
<1> DEFINE r == [emu[current] EXCEPT !.shouldRun = FALSE]
<1>1. /\ UNCHANGED <<isRunning, isStarting, startCancelled, current, owed, starts, mainQueue>>
      /\ main.pc # "free" /\ main' = [main EXCEPT !.pc = "drain"]
      /\ emu' = [emu EXCEPT ![main.of].shouldRun = FALSE]
  BY DEF ClearShouldRun, ui
<1>2. /\ main # Free /\ main.of = current /\ current \in Emulator /\ isRunning = TRUE
      /\ main = [pc |-> main.pc, of |-> current]
      /\ emu[current] # New /\ emu[current] \in EmulatorObject
      /\ emu[current].delegate = FALSE
      /\ \A e \in Emulator : ~ Loading(e)
  BY <1>1, Stopping
<1>3. main' = [pc |-> "drain", of |-> current]
  BY <1>1, <1>2
<1>4. emu' = [emu EXCEPT ![current] = r]
  BY <1>1, <1>2
<1>5. /\ r \in EmulatorObject /\ r.shouldRun = FALSE
      /\ r.load = emu[current].load /\ r.run = emu[current].run /\ r.refs = emu[current].refs
      /\ r.delegate = emu[current].delegate /\ r.machine = emu[current].machine
      /\ r.halted = emu[current].halted
  BY <1>2 DEF EmulatorObject
<1> HIDE DEF r
<1>6. /\ emu' \in [Emulator -> EmulatorObject] /\ emu'[current] = r
      /\ \A f \in Emulator : f # current => emu'[f] = emu[f]
      /\ \A f \in Emulator : ~ Loading(f)'
      /\ \A f \in Emulator : f > starts' => emu'[f] = New
      /\ \A f \in Emulator : emu'[f].load # "loading"
  <2>1. "loader" \notin r.refs
    BY <1>2, <1>5 DEF Loading
  <2>2. ~ Loading(current)
    BY <1>2
  <2>3. starts' = starts
    BY <1>1
  <2>4. /\ emu' \in [Emulator -> EmulatorObject] /\ emu'[current] = r
        /\ \A f \in Emulator : f # current => emu'[f] = emu[f]
        /\ \A f \in Emulator : Loading(f)' <=> Loading(f)
        /\ \A f \in Emulator : f > starts' => emu'[f] = New
        /\ \A f \in Emulator : emu'[f].load = "loading" => Loading(f)'
    BY <1>2, <1>4, <1>5, <2>1, <2>2, <2>3, OneChanged
  <2> QED
    BY <1>2, <2>4
<1>7. \A f \in Emulator :
        /\ emu'[f].load = emu[f].load /\ emu'[f].run = emu[f].run /\ emu'[f].refs = emu[f].refs
        /\ emu'[f].delegate = emu[f].delegate /\ emu'[f].machine = emu[f].machine
        /\ emu'[f].halted = emu[f].halted
        /\ f # current => emu'[f].shouldRun = emu[f].shouldRun
  BY <1>5, <1>6
<1>8. SessionType'
  BY <1>1, <1>2, <1>3, <1>6 DEF SessionInv, SessionType
<1>9. StartsAlone'
  BY <1>1, <1>2, <1>6 DEF SessionInv, StartsAlone
<1>10. BlocksAreDue'
  BY <1>1, <1>7, QueueKept, WaitingBlock
  DEF SessionInv, SessionType, BlocksAreDue, Loading, Looping
<1>11. LoopsAreOwned'
  BY <1>1, <1>2, <1>3, <1>5, <1>6, <1>7, NoneIsNoEmulator
  DEF SessionInv, LoopsAreOwned, Looping, Free
<1> QED
  BY <1>8, <1>9, <1>10, <1>11 DEF SessionInv

LEMMA FinishStopInv == ASSUME SessionInv, FinishStop PROVE SessionInv'
<1> DEFINE r == [emu[current] EXCEPT !.machine = FALSE, !.refs = @ \ {"model"}]
<1>1. /\ UNCHANGED <<startCancelled, mainQueue, starts>>
      /\ main.pc # "free" /\ QueueIdle(main.of)
      /\ main' = Free /\ current' = None /\ isRunning' = FALSE /\ isStarting' = FALSE
      /\ owed' = Len(mainQueue)
      /\ emu' = [emu EXCEPT ![main.of].machine = FALSE, ![main.of].refs = @ \ {"model"}]
  BY DEF FinishStop, AfterEvent
<1>2. /\ main # Free /\ main.of = current /\ current \in Emulator
      /\ emu[current] # New /\ emu[current] \in EmulatorObject
      /\ \A e \in Emulator : ~ Loading(e)
  BY <1>1, Stopping
<1>3. emu' = [emu EXCEPT ![current] = r]
  BY <1>1, <1>2
<1>4. emu[current].run \in {"none", "done"}
  BY <1>1, <1>2 DEF QueueIdle
<1>5. /\ r \in EmulatorObject /\ r.machine = FALSE
      /\ r.load = emu[current].load /\ r.run = emu[current].run
      /\ r.refs = emu[current].refs \ {"model"}
      /\ r.delegate = emu[current].delegate /\ r.shouldRun = emu[current].shouldRun
      /\ r.halted = emu[current].halted
  BY <1>2 DEF EmulatorObject
<1> HIDE DEF r
<1>6. /\ emu' \in [Emulator -> EmulatorObject] /\ emu'[current] = r
      /\ \A f \in Emulator : f # current => emu'[f] = emu[f]
      /\ \A f \in Emulator : ~ Loading(f)'
      /\ \A f \in Emulator : f > starts' => emu'[f] = New
      /\ \A f \in Emulator : emu'[f].load # "loading"
  <2>1. "loader" \notin r.refs
    BY <1>2, <1>5 DEF Loading
  <2>2. ~ Loading(current)
    BY <1>2
  <2>3. starts' = starts
    BY <1>1
  <2>4. /\ emu' \in [Emulator -> EmulatorObject] /\ emu'[current] = r
        /\ \A f \in Emulator : f # current => emu'[f] = emu[f]
        /\ \A f \in Emulator : Loading(f)' <=> Loading(f)
        /\ \A f \in Emulator : f > starts' => emu'[f] = New
        /\ \A f \in Emulator : emu'[f].load = "loading" => Loading(f)'
    BY <1>2, <1>3, <1>5, <2>1, <2>2, <2>3, OneChanged
  <2> QED
    BY <1>2, <2>4
<1>7. \A f \in Emulator :
        /\ emu'[f].run = emu[f].run /\ emu'[f].shouldRun = emu[f].shouldRun
        /\ emu'[f].delegate = emu[f].delegate /\ emu'[f].halted = emu[f].halted
  BY <1>5, <1>6
<1>8. Len(mainQueue) \in Nat /\ DOMAIN mainQueue = 1 .. Len(mainQueue)
  BY DEF SessionInv, SessionType
<1>9. SessionType'
  BY <1>1, <1>6, <1>8 DEF SessionInv, SessionType, Free
<1>10. StartsAlone'
  BY <1>1, <1>6 DEF SessionInv, StartsAlone
<1>11. \A i : ~ Queued("loaded", i)
  BY <1>2, WaitingBlock DEF SessionInv, SessionType, BlocksAreDue
<1>12. \A i : Queued("didExit", i) => i <= owed'
  BY <1>1, <1>8 DEF Queued
<1>13. BlocksAreDue'
  BY <1>1, <1>7, <1>11, <1>12, QueueKept, WaitingBlock
  DEF SessionInv, SessionType, BlocksAreDue, Looping
<1>14. \A f \in Emulator :
         ~ emu'[f].shouldRun /\ (Looping(f)' => ~ emu'[f].delegate)
  BY <1>2, <1>4, <1>7 DEF SessionInv, LoopsAreOwned, Looping
<1>15. \A f \in Emulator :
         Looping(f)' \/ emu'[f].run = "returned" => f # current /\ emu'[f] = emu[f]
  BY <1>2, <1>4, <1>6, <1>7 DEF Looping
<1>16. LoopsAreOwned'
  BY <1>1, <1>7, <1>14, <1>15, ZenonT(60) DEF SessionInv, LoopsAreOwned, Looping, Free
<1> QED
  BY <1>9, <1>10, <1>13, <1>16 DEF SessionInv

\* A step of an emulator's own queue leaves the view model's state alone.
LEMMA QueueStep ==
    ASSUME SessionInv, NEW e \in Emulator, emu[e].run # "none",
           NEW r \in EmulatorObject, r.load = emu[e].load, r.refs \subseteq emu[e].refs,
           emu' = [emu EXCEPT ![e] = r], UNCHANGED <<ui, main>>
    PROVE  /\ UNCHANGED <<isRunning, isStarting, startCancelled, current, owed, starts, main>>
           /\ ~ Loading(e)
           /\ emu' \in [Emulator -> EmulatorObject] /\ emu'[e] = r
           /\ \A f \in Emulator : f # e => emu'[f] = emu[f]
           /\ \A f \in Emulator : Loading(f)' <=> Loading(f)
           /\ mainQueue' \in Seq(Block) => SessionType'
           /\ (\A f \in Emulator : \A i : Loading(f) => ~ Queued("didExit", i)') => StartsAlone'
<1>1. UNCHANGED <<isRunning, isStarting, startCancelled, current, owed, starts, main>>
  BY DEF ui
<1>2. ~ Loading(e) /\ emu[e] # New
  <2>1. emu[e] # New
    BY DEF New
  <2>2. ASSUME Loading(e) PROVE FALSE
    <3>1. emu[e] = [New EXCEPT !.load = emu[e].load, !.refs = {"loader"}]
      BY <2>2 DEF SessionInv, StartsAlone
    <3> QED
      BY <3>1 DEF New
  <2> QED
    BY <2>1, <2>2
<1>3. "loader" \notin r.refs
  BY <1>2 DEF Loading
<1>4. /\ emu' \in [Emulator -> EmulatorObject] /\ emu'[e] = r
      /\ \A f \in Emulator : f # e => emu'[f] = emu[f]
      /\ \A f \in Emulator : Loading(f)' <=> Loading(f)
      /\ \A f \in Emulator : Loading(f) => emu'[f] = emu[f]
      /\ \A f \in Emulator : f > starts' => emu'[f] = New
      /\ \A f \in Emulator : emu'[f].load = "loading" => Loading(f)'
  BY <1>1, <1>2, <1>3, OneChanged
<1>5. mainQueue' \in Seq(Block) => SessionType'
  BY <1>1, <1>4 DEF SessionInv, SessionType
<1>6. (\A f \in Emulator : \A i : Loading(f) => ~ Queued("didExit", i)') => StartsAlone'
  BY <1>1, <1>4 DEF SessionInv, StartsAlone
<1> QED
  BY <1>1, <1>2, <1>4, <1>5, <1>6

LEMMA EnterLoopInv == ASSUME SessionInv, NEW e \in Emulator, EnterLoop(e) PROVE SessionInv'
<1> DEFINE r == [emu[e] EXCEPT !.run = IF emu[e].shouldRun THEN "running" ELSE "ending"]
<1>1. /\ emu[e].run = "queued"
      /\ mainQueue' = mainQueue /\ UNCHANGED <<ui, main>>
      /\ emu' = [emu EXCEPT ![e] = r]
  BY DEF EnterLoop
<1>2. emu[e] \in EmulatorObject
  BY DEF SessionInv, SessionType
<1>3. /\ r \in EmulatorObject
      /\ r.load = emu[e].load /\ r.refs = emu[e].refs /\ r.delegate = emu[e].delegate
      /\ r.machine = emu[e].machine
      /\ r.run = (IF emu[e].shouldRun THEN "running" ELSE "ending")
      /\ r.shouldRun = emu[e].shouldRun /\ r.halted = emu[e].halted
  BY <1>1, <1>2 DEF EmulatorObject
<1> HIDE DEF r
<1>4. /\ UNCHANGED <<isRunning, isStarting, startCancelled, current, owed, starts, main>>
      /\ ~ Loading(e) /\ emu'[e] = r
      /\ \A f \in Emulator : f # e => emu'[f] = emu[f]
      /\ \A f \in Emulator : Loading(f)' <=> Loading(f)
      /\ mainQueue' \in Seq(Block) => SessionType'
      /\ (\A f \in Emulator : \A i : Loading(f) => ~ Queued("didExit", i)') => StartsAlone'
  BY <1>1, <1>3, QueueStep
<1>5. SessionType'
  BY <1>1, <1>4 DEF SessionInv, SessionType
<1>6. StartsAlone'
  BY <1>1, <1>4, QueueKept DEF SessionInv, StartsAlone
<1>7. BlocksAreDue'
  BY <1>1, <1>3, <1>4, QueueKept, WaitingBlock
  DEF SessionInv, SessionType, BlocksAreDue, Looping
<1>8. LoopsAreOwned'
  BY <1>1, <1>3, <1>4, NoneIsNoEmulator
  DEF SessionInv, SessionType, LoopsAreOwned, Looping
<1> QED
  BY <1>5, <1>6, <1>7, <1>8 DEF SessionInv

LEMMA HaltCpuInv == ASSUME SessionInv, NEW e \in Emulator, HaltCpu(e) PROVE SessionInv'
<1> DEFINE r == [emu[e] EXCEPT !.run = "ending", !.halted = TRUE, !.shouldRun = FALSE]
<1>1. /\ emu[e].run = "running"
      /\ mainQueue' = mainQueue /\ UNCHANGED <<ui, main>>
      /\ emu' = [emu EXCEPT ![e] = r]
  BY DEF HaltCpu
<1>2. emu[e] \in EmulatorObject
  BY DEF SessionInv, SessionType
<1>3. /\ r \in EmulatorObject
      /\ r.load = emu[e].load /\ r.refs = emu[e].refs /\ r.delegate = emu[e].delegate
      /\ r.machine = emu[e].machine
      /\ r.run = "ending" /\ r.halted = TRUE /\ r.shouldRun = FALSE
  BY <1>1, <1>2 DEF EmulatorObject
<1> HIDE DEF r
<1>4. /\ UNCHANGED <<isRunning, isStarting, startCancelled, current, owed, starts, main>>
      /\ ~ Loading(e) /\ emu'[e] = r
      /\ \A f \in Emulator : f # e => emu'[f] = emu[f]
      /\ \A f \in Emulator : Loading(f)' <=> Loading(f)
      /\ mainQueue' \in Seq(Block) => SessionType'
      /\ (\A f \in Emulator : \A i : Loading(f) => ~ Queued("didExit", i)') => StartsAlone'
  BY <1>1, <1>3, QueueStep
<1>5. SessionType'
  BY <1>1, <1>4 DEF SessionInv, SessionType
<1>6. StartsAlone'
  BY <1>1, <1>4, QueueKept DEF SessionInv, StartsAlone
<1>7. BlocksAreDue'
  BY <1>1, <1>3, <1>4, QueueKept, WaitingBlock
  DEF SessionInv, SessionType, BlocksAreDue, Looping
<1>8. LoopsAreOwned'
  BY <1>1, <1>3, <1>4, NoneIsNoEmulator
  DEF SessionInv, SessionType, LoopsAreOwned, Looping
<1> QED
  BY <1>5, <1>6, <1>7, <1>8 DEF SessionInv

LEMMA LeaveLoopInv == ASSUME SessionInv, NEW e \in Emulator, LeaveLoop(e) PROVE SessionInv'
<1> DEFINE r == [emu[e] EXCEPT !.run = "ending"]
<1>1. /\ emu[e].run = "running" /\ ~ emu[e].shouldRun
      /\ mainQueue' = mainQueue /\ UNCHANGED <<ui, main>>
      /\ emu' = [emu EXCEPT ![e] = r]
  BY DEF LeaveLoop
<1>2. emu[e] \in EmulatorObject
  BY DEF SessionInv, SessionType
<1>3. /\ r \in EmulatorObject
      /\ r.load = emu[e].load /\ r.refs = emu[e].refs /\ r.delegate = emu[e].delegate
      /\ r.machine = emu[e].machine
      /\ r.run = "ending" /\ r.shouldRun = emu[e].shouldRun /\ r.halted = emu[e].halted
  BY <1>1, <1>2 DEF EmulatorObject
<1> HIDE DEF r
<1>4. /\ UNCHANGED <<isRunning, isStarting, startCancelled, current, owed, starts, main>>
      /\ ~ Loading(e) /\ emu'[e] = r
      /\ \A f \in Emulator : f # e => emu'[f] = emu[f]
      /\ \A f \in Emulator : Loading(f)' <=> Loading(f)
      /\ mainQueue' \in Seq(Block) => SessionType'
      /\ (\A f \in Emulator : \A i : Loading(f) => ~ Queued("didExit", i)') => StartsAlone'
  BY <1>1, <1>3, QueueStep
<1>5. SessionType'
  BY <1>1, <1>4 DEF SessionInv, SessionType
<1>6. StartsAlone'
  BY <1>1, <1>4, QueueKept DEF SessionInv, StartsAlone
<1>7. BlocksAreDue'
  BY <1>1, <1>3, <1>4, QueueKept, WaitingBlock
  DEF SessionInv, SessionType, BlocksAreDue, Looping
<1>8. LoopsAreOwned'
  BY <1>1, <1>3, <1>4, NoneIsNoEmulator
  DEF SessionInv, SessionType, LoopsAreOwned, Looping
<1> QED
  BY <1>5, <1>6, <1>7, <1>8 DEF SessionInv

LEMMA ReportExitInv == ASSUME SessionInv, NEW e \in Emulator, ReportExit(e) PROVE SessionInv'
<1> DEFINE r == [emu[e] EXCEPT !.run = "returned", !.shouldRun = FALSE]
           b == [kind |-> "didExit", of |-> e]
<1>1. /\ emu[e].run = "ending" /\ UNCHANGED <<ui, main>>
      /\ emu' = [emu EXCEPT ![e] = r]
      /\ IF emu[e].delegate THEN mainQueue' = Append(mainQueue, b) ELSE mainQueue' = mainQueue
  BY DEF ReportExit, Enqueue
<1>2. emu[e] \in EmulatorObject
  BY DEF SessionInv, SessionType
<1>3. /\ r \in EmulatorObject
      /\ r.load = emu[e].load /\ r.refs = emu[e].refs /\ r.delegate = emu[e].delegate
      /\ r.machine = emu[e].machine /\ r.halted = emu[e].halted
      /\ r.run = "returned" /\ r.shouldRun = FALSE
  BY <1>2 DEF EmulatorObject
<1>4. b \in Block /\ b.kind = "didExit" /\ b.of = e
  BY DEF Block
<1> HIDE DEF r, b
<1>5. /\ UNCHANGED <<isRunning, isStarting, startCancelled, current, owed, starts, main>>
      /\ ~ Loading(e) /\ emu'[e] = r
      /\ \A f \in Emulator : f # e => emu'[f] = emu[f]
      /\ \A f \in Emulator : Loading(f)' <=> Loading(f)
      /\ mainQueue' \in Seq(Block) => SessionType'
      /\ (\A f \in Emulator : \A i : Loading(f) => ~ Queued("didExit", i)') => StartsAlone'
  BY <1>1, <1>3, QueueStep
<1>6. LoopsAreOwned'
  BY <1>1, <1>3, <1>5, NoneIsNoEmulator
  DEF SessionInv, SessionType, LoopsAreOwned, Looping
<1>7. CASE ~ emu[e].delegate
  <2>1. mainQueue' = mainQueue
    BY <1>1, <1>7
  <2>2. SessionType'
    BY <1>5, <2>1 DEF SessionInv, SessionType
  <2>3. StartsAlone'
    BY <1>5, <2>1, QueueKept DEF SessionInv, StartsAlone
  <2>4. BlocksAreDue'
    BY <1>1, <1>3, <1>5, <2>1, QueueKept, WaitingBlock
    DEF SessionInv, SessionType, BlocksAreDue, Looping
  <2> QED
    BY <1>6, <2>2, <2>3, <2>4 DEF SessionInv
<1>8. CASE emu[e].delegate
  <2>1. mainQueue \in Seq(Block) /\ mainQueue' = Append(mainQueue, b)
    BY <1>1, <1>8 DEF SessionInv, SessionType
  <2>2. Looping(e) /\ current = e /\ emu[e].halted = TRUE
    BY <1>1, <1>2, <1>8 DEF SessionInv, LoopsAreOwned, Looping, EmulatorObject
  <2>3. \A f \in Emulator : ~ Loading(f)
    BY <2>2, NoneIsNoEmulator DEF SessionInv, StartsAlone
  <2>4. \A i : ~ Queued("loaded", i) /\ ~ Queued("didExit", i)
    BY <2>1, <2>2, <2>3, WaitingBlock, NoneIsNoEmulator DEF SessionInv, BlocksAreDue
  <2>5. /\ mainQueue' \in Seq(Block)
        /\ \A kind, i : Queued(kind, i)' =>
              \/ Queued(kind, i)
              \/ i = Len(mainQueue) + 1 /\ mainQueue'[i] = b /\ b.kind = kind
    BY <1>4, <2>1, AfterAppend
  <2>6. SessionType'
    BY <1>5, <2>5
  <2>7. StartsAlone'
    BY <1>5, <2>3
  <2>8. \A i : ~ Queued("loaded", i)'
    BY <1>4, <2>4, <2>5
  <2>9. \A i : Queued("didExit", i)' => i = Len(mainQueue) + 1 /\ mainQueue'[i] = b
    BY <2>4, <2>5
  <2>10. BlocksAreDue'
    BY <1>3, <1>4, <1>5, <2>2, <2>8, <2>9 DEF BlocksAreDue, Looping
  <2> QED
    BY <1>6, <2>6, <2>7, <2>10 DEF SessionInv
<1> QED
  BY <1>7, <1>8

LEMMA ReleaseBlockInv == ASSUME SessionInv, NEW e \in Emulator, ReleaseBlock(e) PROVE SessionInv'
<1> DEFINE self == emu[e].refs = {"block"} /\ emu[e].machine
           r == [emu[e] EXCEPT !.refs = @ \ {"block"},
                               !.run = IF self THEN "selfwait" ELSE "done"]
<1>1. /\ emu[e].run = "returned" /\ mainQueue' = mainQueue /\ UNCHANGED <<ui, main>>
      /\ emu' = [emu EXCEPT ![e] = r]
  BY DEF ReleaseBlock
<1>2. emu[e] \in EmulatorObject
  BY DEF SessionInv, SessionType
<1>3. /\ r \in EmulatorObject
      /\ r.load = emu[e].load /\ r.delegate = emu[e].delegate
      /\ r.shouldRun = emu[e].shouldRun
      /\ r.machine = emu[e].machine /\ r.halted = emu[e].halted
      /\ r.refs = emu[e].refs \ {"block"} /\ r.run \in {"selfwait", "done"}
      /\ r.run = "selfwait" => emu[e].refs = {"block"}
  BY <1>2 DEF EmulatorObject
<1> HIDE DEF r, self
<1>4. /\ UNCHANGED <<isRunning, isStarting, startCancelled, current, owed, starts, main>>
      /\ ~ Loading(e) /\ emu'[e] = r
      /\ \A f \in Emulator : f # e => emu'[f] = emu[f]
      /\ \A f \in Emulator : Loading(f)' <=> Loading(f)
      /\ mainQueue' \in Seq(Block) => SessionType'
      /\ (\A f \in Emulator : \A i : Loading(f) => ~ Queued("didExit", i)') => StartsAlone'
  BY <1>1, <1>3, QueueStep
<1>5. SessionType'
  BY <1>1, <1>4 DEF SessionInv, SessionType
<1>6. StartsAlone'
  BY <1>1, <1>4, QueueKept DEF SessionInv, StartsAlone
<1>7. BlocksAreDue'
  BY <1>1, <1>3, <1>4, QueueKept, WaitingBlock
  DEF SessionInv, SessionType, BlocksAreDue, Looping
<1>8. r.run = "selfwait" => emu[e].halted
  BY <1>1, <1>3 DEF SessionInv, LoopsAreOwned
<1>9. ~ emu[e].shouldRun
  BY <1>1 DEF SessionInv, LoopsAreOwned, Looping
<1>10. LoopsAreOwned'
  BY <1>1, <1>3, <1>4, <1>8, <1>9, NoneIsNoEmulator
  DEF SessionInv, SessionType, LoopsAreOwned, Looping
<1> QED
  BY <1>5, <1>6, <1>7, <1>10 DEF SessionInv

LEMMA LoadInv == ASSUME SessionInv, NEW e \in Emulator, Load(e) PROVE SessionInv'
<1>1. PICK outcome \in {"loaded", "failed"} : emu' = [emu EXCEPT ![e].load = outcome]
  BY DEF Load
<1> DEFINE r == [New EXCEPT !.load = outcome, !.refs = {"loader"}]
           b == [kind |-> "loaded", of |-> e]
<1>2. /\ emu[e].load = "loading" /\ mainQueue' = Append(mainQueue, b)
      /\ UNCHANGED <<isRunning, isStarting, startCancelled, current, owed, starts, main>>
      /\ mainQueue \in Seq(Block)
  BY DEF Load, ui, Enqueue, SessionInv, SessionType
<1>3. /\ Loading(e) /\ current = None /\ main = Free
      /\ emu[e] = [New EXCEPT !.load = "loading", !.refs = {"loader"}]
  BY <1>2 DEF SessionInv, StartsAlone
<1>4. emu' = [emu EXCEPT ![e] = r]
  BY <1>1, <1>3 DEF New
<1>5. /\ r \in EmulatorObject
      /\ r.load = outcome /\ r.run = "none" /\ r.refs = {"loader"} /\ r.shouldRun = FALSE
  BY DEF EmulatorObject, New
<1>6. r = [New EXCEPT !.load = r.load, !.refs = {"loader"}]
  BY <1>5
<1>7. b \in Block /\ b.kind = "loaded" /\ b.of = e
  BY DEF Block
<1> HIDE DEF r, b
<1>8. /\ emu' \in [Emulator -> EmulatorObject] /\ emu'[e] = r
      /\ \A f \in Emulator : f # e => emu'[f] = emu[f]
  BY <1>4, <1>5 DEF SessionInv, SessionType
<1>9. \A f \in Emulator : Loading(f)' <=> f = e
  BY <1>3, <1>5, <1>8 DEF SessionInv, StartsAlone, Loading
<1>10. \A i : ~ Queued("didExit", i)
  BY <1>3 DEF SessionInv, StartsAlone
<1>11. \A i : ~ Queued("loaded", i)
  BY <1>2, <1>3, WaitingBlock DEF SessionInv, StartsAlone, BlocksAreDue
<1>12. /\ mainQueue' \in Seq(Block)
       /\ \A kind, i : Queued(kind, i)' =>
             \/ Queued(kind, i)
             \/ i = Len(mainQueue) + 1 /\ mainQueue'[i] = b /\ b.kind = kind
  BY <1>2, <1>7, AfterAppend
<1>13. \A i : /\ ~ Queued("didExit", i)'
              /\ Queued("loaded", i)' => i = Len(mainQueue) + 1 /\ mainQueue'[i].of = e
  BY <1>7, <1>10, <1>11, <1>12
<1>14. SessionType'
  BY <1>2, <1>8, <1>12 DEF SessionInv, SessionType
<1>15. StartsAlone'
  <2>1. \A f \in Emulator : f > starts' => emu'[f] = New
    BY <1>2, <1>3, <1>8, LoadingIsNotNew DEF SessionInv, StartsAlone
  <2>2. \A f \in Emulator : emu'[f].load = "loading" => Loading(f)'
    BY <1>3, <1>5, <1>8, <1>9 DEF SessionInv, StartsAlone
  <2>3. \A f \in Emulator : Loading(f)' =>
           /\ emu'[f].load # "none"
           /\ emu'[f] = [New EXCEPT !.load = emu'[f].load, !.refs = {"loader"}]
    BY <1>5, <1>6, <1>8, <1>9
  <2>4. ~ startCancelled' => isStarting' /\ isRunning'
    BY <1>2, <1>3 DEF SessionInv, StartsAlone
  <2> QED
    BY <1>2, <1>3, <1>9, <1>13, <2>1, <2>2, <2>3, <2>4 DEF SessionInv, StartsAlone
<1>16. BlocksAreDue'
  BY <1>5, <1>8, <1>9, <1>13 DEF BlocksAreDue
<1>17. LoopsAreOwned'
  <2>1. \A f \in Emulator :
          Looping(f)' \/ emu'[f].run \in {"returned", "selfwait"} \/ emu'[f].shouldRun
             => emu'[f] = emu[f]
    BY <1>5, <1>8 DEF Looping
  <2> QED
    BY <1>2, <1>3, <2>1 DEF SessionInv, LoopsAreOwned, Looping, Free
<1> QED
  BY <1>14, <1>15, <1>16, <1>17 DEF SessionInv

\* The main thread takes the block of a loading emulator from its queue.
LEMMA LoadedBlock ==
    ASSUME SessionInv, NextBlock("loaded"), BlockDone
    PROVE  /\ Head(mainQueue).of \in Emulator /\ Loading(Head(mainQueue).of)
           /\ emu[Head(mainQueue).of].load # "loading"
           /\ main = Free /\ current = None
           /\ mainQueue' \in Seq(Block) /\ owed' \in Nat
           /\ \A i : ~ Queued("loaded", i)' /\ ~ Queued("didExit", i)'
           /\ \A f \in Emulator : Loading(f) => f = Head(mainQueue).of
<1>1. /\ mainQueue \in Seq(Block) /\ mainQueue # << >> /\ mainQueue' = Tail(mainQueue)
      /\ Head(mainQueue).kind = "loaded" /\ main = Free /\ owed \in Nat
      /\ owed' = IF owed = 0 THEN 0 ELSE owed - 1
  BY DEF NextBlock, BlockDone, SessionInv, SessionType
<1>2. /\ mainQueue' \in Seq(Block)
      /\ Head(mainQueue) = mainQueue[1] /\ Head(mainQueue) \in Block
      /\ 1 \in DOMAIN mainQueue
      /\ \A kind, i : Queued(kind, i)' => i \in Nat /\ i >= 1 /\ Queued(kind, i + 1)
  BY <1>1, AfterTail
<1>3. Queued("loaded", 1) /\ Head(mainQueue).of \in Emulator
  BY <1>1, <1>2 DEF Queued, Block
<1>4. Loading(Head(mainQueue).of) /\ emu[Head(mainQueue).of].load # "loading"
  BY <1>2, <1>3 DEF SessionInv, BlocksAreDue
<1>5. /\ current = None /\ \A i : ~ Queued("didExit", i)
      /\ \A f \in Emulator : Loading(f) => f = Head(mainQueue).of
  BY <1>3, <1>4 DEF SessionInv, StartsAlone
<1>6. \A i : ~ Queued("loaded", i)'
  <2> SUFFICES ASSUME NEW i, Queued("loaded", i)' PROVE FALSE
    OBVIOUS
  <2>1. i \in Nat /\ i >= 1 /\ Queued("loaded", i + 1)
    BY <1>2
  <2>2. i + 1 = 1
    BY <1>3, <2>1 DEF SessionInv, BlocksAreDue
  <2> QED
    BY <2>1, <2>2
<1>7. \A i : ~ Queued("didExit", i)'
  BY <1>2, <1>5
<1>8. owed' \in Nat
  BY <1>1
<1> QED
  BY <1>1, <1>2, <1>3, <1>4, <1>5, <1>6, <1>7, <1>8

LEMMA GiveUpStartInv == ASSUME SessionInv, GiveUpStart PROVE SessionInv'
<1> DEFINE e == Head(mainQueue).of
           r == [emu[e] EXCEPT !.refs = {}]
<1>1. /\ NextBlock("loaded") /\ BlockDone
      /\ emu' = [emu EXCEPT ![e] = r]
      /\ isStarting' = FALSE /\ isRunning' = FALSE
      /\ UNCHANGED <<startCancelled, current, main, starts>>
  BY DEF GiveUpStart
<1>2. /\ e \in Emulator /\ Loading(e) /\ emu[e].load # "loading"
      /\ main = Free /\ current = None
      /\ mainQueue' \in Seq(Block) /\ owed' \in Nat
      /\ \A i : ~ Queued("loaded", i)' /\ ~ Queued("didExit", i)'
      /\ \A f \in Emulator : Loading(f) => f = e
  BY <1>1, LoadedBlock
<1> HIDE DEF e
<1>3. /\ emu[e] = [New EXCEPT !.load = emu[e].load, !.refs = {"loader"}]
      /\ emu[e] \in EmulatorObject
  BY <1>2 DEF SessionInv, StartsAlone, SessionType
<1>4. /\ r \in EmulatorObject /\ r.refs = {} /\ r.load = emu[e].load
      /\ r.run = "none" /\ r.shouldRun = FALSE
  BY <1>3 DEF EmulatorObject, New
<1> HIDE DEF r
<1>5. /\ emu' \in [Emulator -> EmulatorObject] /\ emu'[e] = r
      /\ \A f \in Emulator : f # e => emu'[f] = emu[f]
  BY <1>1, <1>2, <1>4 DEF SessionInv, SessionType
<1>6. \A f \in Emulator : ~ Loading(f)'
  BY <1>2, <1>4, <1>5 DEF Loading
<1>7. SessionType'
  BY <1>1, <1>2, <1>5 DEF SessionInv, SessionType
<1>8. StartsAlone'
  <2>1. \A f \in Emulator : f > starts' => emu'[f] = New
    BY <1>1, <1>2, <1>5, LoadingIsNotNew DEF SessionInv, StartsAlone
  <2>2. \A f \in Emulator : emu'[f].load # "loading"
    BY <1>2, <1>4, <1>5 DEF SessionInv, StartsAlone
  <2> QED
    BY <1>1, <1>6, <2>1, <2>2 DEF StartsAlone
<1>9. BlocksAreDue'
  BY <1>2 DEF BlocksAreDue
<1>10. LoopsAreOwned'
  BY <1>1, <1>2, <1>4, <1>5 DEF SessionInv, LoopsAreOwned, Looping
<1> QED
  BY <1>7, <1>8, <1>9, <1>10 DEF SessionInv

LEMMA InstallInv == ASSUME SessionInv, Install PROVE SessionInv'
<1> DEFINE e == Head(mainQueue).of
<1>1. PICK boots \in BOOLEAN :
        emu' = [Dropped(emu, current) EXCEPT
                  ![e].refs = IF boots THEN {"model", "block"} ELSE {"model"},
                  ![e].machine = TRUE, ![e].delegate = TRUE,
                  ![e].shouldRun = boots,
                  ![e].run = IF boots THEN "queued" ELSE "none"]
  BY DEF Install
<1> DEFINE r == [emu[e] EXCEPT !.refs = IF boots THEN {"model", "block"} ELSE {"model"},
                               !.machine = TRUE, !.delegate = TRUE, !.shouldRun = boots,
                               !.run = IF boots THEN "queued" ELSE "none"]
<1>2. /\ NextBlock("loaded") /\ BlockDone
      /\ ~ startCancelled /\ current' = e /\ isStarting' = FALSE
      /\ UNCHANGED <<isRunning, startCancelled, main, starts>>
  BY DEF Install
<1>3. /\ e \in Emulator /\ Loading(e) /\ emu[e].load # "loading"
      /\ main = Free /\ current = None
      /\ mainQueue' \in Seq(Block) /\ owed' \in Nat
      /\ \A i : ~ Queued("loaded", i)' /\ ~ Queued("didExit", i)'
      /\ \A f \in Emulator : Loading(f) => f = e
  BY <1>2, LoadedBlock
<1> HIDE DEF e
<1>4. emu' = [emu EXCEPT ![e] = r]
  BY <1>1, <1>3 DEF Dropped
<1>5. /\ emu[e] = [New EXCEPT !.load = emu[e].load, !.refs = {"loader"}]
      /\ emu[e] \in EmulatorObject /\ isRunning = TRUE
  BY <1>2, <1>3 DEF SessionInv, StartsAlone, SessionType
<1>6. r \in EmulatorObject
  BY <1>5 DEF EmulatorObject, New
<1>7. /\ r.refs = (IF boots THEN {"model", "block"} ELSE {"model"})
      /\ r.load = emu[e].load /\ r.machine = TRUE /\ r.delegate = TRUE
      /\ r.shouldRun = boots /\ r.run = (IF boots THEN "queued" ELSE "none")
  BY <1>5 DEF EmulatorObject
<1> HIDE DEF r
<1>8. /\ emu' \in [Emulator -> EmulatorObject] /\ emu'[e] = r
      /\ \A f \in Emulator : f # e => emu'[f] = emu[f]
  BY <1>3, <1>4, <1>6 DEF SessionInv, SessionType
<1>9. \A f \in Emulator : ~ Loading(f)'
  BY <1>3, <1>7, <1>8 DEF Loading
<1>10. SessionType'
  BY <1>2, <1>3, <1>8 DEF SessionInv, SessionType
<1>11. StartsAlone'
  <2>1. \A f \in Emulator : f > starts' => emu'[f] = New
    BY <1>2, <1>3, <1>8, LoadingIsNotNew DEF SessionInv, StartsAlone
  <2>2. \A f \in Emulator : emu'[f].load # "loading"
    <3>1. r.load # "loading"
      BY <1>3, <1>7
    <3>2. \A f \in Emulator : f # e => emu[f].load # "loading"
      BY <1>3 DEF SessionInv, StartsAlone
    <3> QED
      BY <1>8, <3>1, <3>2
  <2> QED
    BY <1>2, <1>9, <2>1, <2>2 DEF StartsAlone
<1>12. BlocksAreDue'
  BY <1>3 DEF BlocksAreDue
<1>13. \A f \in Emulator : f # e => ~ emu'[f].shouldRun /\ (Looping(f)' => ~ emu'[f].delegate)
  BY <1>3, <1>8, NoneIsNoEmulator DEF SessionInv, LoopsAreOwned, Looping
<1>14. LoopsAreOwned'
  BY <1>2, <1>3, <1>5, <1>7, <1>8, <1>13, NoneIsNoEmulator
  DEF SessionInv, LoopsAreOwned, Looping, Free
<1> QED
  BY <1>10, <1>11, <1>12, <1>14 DEF SessionInv

LEMMA DidExitInv == ASSUME SessionInv, DidExit PROVE SessionInv'
<1> DEFINE e == Head(mainQueue).of
<1>1. /\ mainQueue \in Seq(Block) /\ mainQueue # << >> /\ mainQueue' = Tail(mainQueue)
      /\ Head(mainQueue).kind = "didExit" /\ main = Free /\ owed \in Nat
      /\ owed' = IF owed = 0 THEN 0 ELSE owed - 1
      /\ emu' = Dropped(emu, current) /\ current' = None /\ isRunning' = FALSE
      /\ UNCHANGED <<isStarting, startCancelled, main, starts>>
  BY DEF DidExit, NextBlock, BlockDone, SessionInv, SessionType
<1>2. /\ mainQueue' \in Seq(Block)
      /\ Head(mainQueue) = mainQueue[1] /\ Head(mainQueue) \in Block
      /\ 1 \in DOMAIN mainQueue
      /\ \A kind, i : Queued(kind, i)' => i \in Nat /\ i >= 1 /\ Queued(kind, i + 1)
  BY <1>1, AfterTail
<1>3. Queued("didExit", 1) /\ e \in Emulator
  BY <1>1, <1>2 DEF Queued, Block
<1>4. current \in {None, e} /\ ~ Looping(e) /\ emu[e].halted
  BY <1>2, <1>3 DEF SessionInv, BlocksAreDue
<1> HIDE DEF e
<1>5. \A f \in Emulator : ~ Loading(f)
  BY <1>3 DEF SessionInv, StartsAlone
<1>6. \A i : ~ Queued("loaded", i)'
  BY <1>1, <1>2, <1>5, WaitingBlock DEF SessionInv, BlocksAreDue
<1>7. \A i : ~ Queued("didExit", i)'
  <2> SUFFICES ASSUME NEW i, Queued("didExit", i)' PROVE FALSE
    OBVIOUS
  <2>1. i \in Nat /\ i >= 1 /\ Queued("didExit", i + 1)
    BY <1>2
  <2>2. i + 1 = 1
    BY <1>3, <2>1 DEF SessionInv, BlocksAreDue
  <2> QED
    BY <2>1, <2>2
<1>8. owed' \in Nat
  BY <1>1
<1>9. BlocksAreDue'
  BY <1>6, <1>7 DEF BlocksAreDue
<1>10. \A f \in Emulator : ~ emu[f].shouldRun /\ (Looping(f) => ~ emu[f].delegate)
  BY <1>4, NoneIsNoEmulator DEF SessionInv, LoopsAreOwned
<1>11. CASE current = None
  <2>1. emu' = emu
    BY <1>1, <1>11 DEF Dropped
  <2>2. SessionType'
    BY <1>1, <1>2, <1>8, <2>1 DEF SessionInv, SessionType
  <2>3. StartsAlone'
    BY <1>1, <1>5, <1>7, <2>1 DEF SessionInv, StartsAlone, Loading
  <2>4. LoopsAreOwned'
    BY <1>1, <1>10, <2>1 DEF SessionInv, LoopsAreOwned, Looping, Free
  <2> QED
    BY <1>9, <2>2, <2>3, <2>4 DEF SessionInv
<1>12. CASE current # None
  <2> DEFINE r == [emu[e] EXCEPT !.refs = @ \ {"model"},
                                 !.machine = @ /\ emu[e].refs # {"model"}]
  <2>1. current = e /\ emu[e] # New /\ emu[e] \in EmulatorObject
    BY <1>3, <1>4, <1>12 DEF SessionInv, SessionType, LoopsAreOwned, New
  <2>2. emu' = [emu EXCEPT ![e] = r]
    BY <1>1, <1>12, <2>1 DEF Dropped
  <2>3. /\ r \in EmulatorObject
        /\ r.refs = emu[e].refs \ {"model"} /\ r.load = emu[e].load
        /\ r.run = emu[e].run /\ r.shouldRun = emu[e].shouldRun
        /\ r.delegate = emu[e].delegate /\ r.halted = emu[e].halted
    BY <2>1 DEF EmulatorObject
  <2> HIDE DEF r
  <2>4. "loader" \notin r.refs /\ ~ Loading(e) /\ starts' = starts
    BY <1>1, <1>3, <1>5, <2>3 DEF Loading
  <2>5. /\ emu' \in [Emulator -> EmulatorObject] /\ emu'[e] = r
        /\ \A f \in Emulator : f # e => emu'[f] = emu[f]
        /\ \A f \in Emulator : Loading(f)' <=> Loading(f)
        /\ \A f \in Emulator : f > starts' => emu'[f] = New
        /\ \A f \in Emulator : emu'[f].load = "loading" => Loading(f)'
    BY <1>3, <2>1, <2>2, <2>3, <2>4, OneChanged
  <2>6. SessionType'
    BY <1>1, <1>2, <1>8, <2>5 DEF SessionInv, SessionType
  <2>7. StartsAlone'
    BY <1>1, <1>5, <2>5 DEF SessionInv, StartsAlone
  <2>8. \A f \in Emulator :
          /\ emu'[f].run = emu[f].run /\ emu'[f].shouldRun = emu[f].shouldRun
          /\ emu'[f].delegate = emu[f].delegate /\ emu'[f].halted = emu[f].halted
    BY <2>3, <2>5
  <2>9. \A f \in Emulator :
          Looping(f)' \/ emu'[f].run = "returned" =>
            /\ Looping(f)' => emu'[f].machine
            /\ "block" \in emu'[f].refs
            /\ "model" \in emu'[f].refs \/ emu'[f].halted
    <3>1. CASE Looping(e) \/ emu[e].run = "returned"
      <4>1. "block" \in emu[e].refs
        BY <1>3, <3>1 DEF SessionInv, LoopsAreOwned
      <4>2. "block" \in r.refs
        BY <2>3, <4>1
      <4> QED
        BY <1>3, <1>4, <2>3, <2>5, <2>8, <4>2 DEF SessionInv, LoopsAreOwned, Looping
    <3>2. CASE ~ (Looping(e) \/ emu[e].run = "returned")
      BY <2>3, <2>5, <2>8, <3>2 DEF SessionInv, LoopsAreOwned, Looping
    <3> QED
      BY <3>1, <3>2
  <2>10. LoopsAreOwned'
    BY <1>1, <1>10, <2>8, <2>9 DEF SessionInv, LoopsAreOwned, Looping, Free
  <2> QED
    BY <1>9, <2>6, <2>7, <2>10 DEF SessionInv
<1> QED
  BY <1>11, <1>12

LEMMA InitInv == Init => SessionInv
<1> SUFFICES ASSUME Init PROVE SessionInv
  OBVIOUS
<1>1. /\ New \in EmulatorObject /\ New.run = "none" /\ New.shouldRun = FALSE
      /\ New.refs = {} /\ New.load = "none"
  BY DEF New, EmulatorObject
<1>2. /\ \A e \in Emulator : emu[e] = New
      /\ emu = [e \in Emulator |-> New]
      /\ current = None /\ main = Free /\ mainQueue = << >> /\ owed = 0 /\ starts = 0
      /\ isRunning = FALSE /\ isStarting = FALSE /\ startCancelled = FALSE
  BY DEF Init
<1>3. \A kind, i : ~ Queued(kind, i)
  BY <1>2 DEF Queued
<1>4. SessionType
  <2>1. mainQueue \in Seq(Block)
    BY <1>2
  <2>2. starts \in 0 .. MaxStarts
    BY <1>2, SessionAssumption
  <2>3. main \in [pc : {"free", "clear", "drain"}, of : Emulator \cup {None}]
    BY <1>2 DEF Free
  <2> QED
    BY <1>1, <1>2, <2>1, <2>2, <2>3 DEF SessionType
<1>5. StartsAlone
  BY <1>1, <1>2 DEF StartsAlone, Loading
<1>6. BlocksAreDue
  BY <1>3 DEF BlocksAreDue
<1>7. LoopsAreOwned
  BY <1>1, <1>2 DEF LoopsAreOwned, Looping, Free
<1> QED
  BY <1>4, <1>5, <1>6, <1>7 DEF SessionInv

LEMMA NextInv == Patient /\ SessionInv /\ [Next]_vars => SessionInv'
<1> SUFFICES ASSUME Patient, SessionInv, [Next]_vars PROVE SessionInv'
  OBVIOUS
<1>1. CASE UNCHANGED vars
  <2>1. /\ UNCHANGED <<isRunning, isStarting, startCancelled, current, mainQueue>>
        /\ UNCHANGED <<owed, main, starts, emu>>
    BY <1>1 DEF vars
  <2>2. SessionType'
    BY <2>1 DEF SessionInv, SessionType
  <2>3. StartsAlone'
    BY <2>1, QueueKept DEF SessionInv, StartsAlone, Loading
  <2>4. BlocksAreDue'
    BY <2>1, QueueKept DEF SessionInv, BlocksAreDue, Loading, Looping
  <2>5. LoopsAreOwned'
    BY <2>1 DEF SessionInv, LoopsAreOwned, Looping
  <2> QED
    BY <2>2, <2>3, <2>4, <2>5 DEF SessionInv
<1>2. CASE Start
  BY <1>2, StartInv
<1>3. CASE CancelStart
  BY <1>3, CancelStartInv
<1>4. CASE DetachDelegate \/ ClearShouldRun \/ FinishStop
  BY <1>4, DetachDelegateInv, ClearShouldRunInv, FinishStopInv
<1>5. CASE MainBlock
  BY <1>5, GiveUpStartInv, InstallInv, DidExitInv DEF MainBlock
<1>6. ASSUME NEW e \in Emulator, Load(e) \/ RunLoop(e) \/ HaltCpu(e) PROVE SessionInv'
  BY <1>6, LoadInv, HaltCpuInv, EnterLoopInv, LeaveLoopInv, ReportExitInv, ReleaseBlockInv
  DEF RunLoop
<1> QED
  BY <1>1, <1>2, <1>3, <1>4, <1>5, <1>6 DEF Next

\* For a user who starts again only when a cancelled start has stopped loading,
\* an emulator executes its guest only while it is the one the view model shows
\* and can stop, whatever starts, cancels, stops and halts came before.
THEOREM NoneRunsUnseen == Patient => (Spec => []OnlyTheShownRuns)
<1> SUFFICES ASSUME Patient PROVE Spec => []OnlyTheShownRuns
  OBVIOUS
<1>1. SessionInv => OnlyTheShownRuns
  BY NoneIsNoEmulator DEF SessionInv, LoopsAreOwned, OnlyTheShownRuns
<1>2. SessionInv /\ [Next]_vars => SessionInv'
  BY NextInv
<1> QED
  BY InitInv, <1>1, <1>2, PTL DEF Spec

\* For the same user: the machine is never freed under a run loop, an exit is
\* reported only of a guest that halted, and only such an emulator is ever
\* destroyed on its own queue.
THEOREM StopsAreSafe == Patient => (Spec => []StopIsSafe)
<1> SUFFICES ASSUME Patient PROVE Spec => []StopIsSafe
  OBVIOUS
<1>1. SessionInv => StopIsSafe
  BY DEF SessionInv, LoopsAreOwned, BlocksAreDue, StopIsSafe, Looping, Queued
<1>2. SessionInv /\ [Next]_vars => SessionInv'
  BY NextInv
<1> QED
  BY InitInv, <1>1, <1>2, PTL DEF Spec

-----------------------------------------------------------------------------
(***************************************************************************)
(* The disk images.  Every path that attaches an image of the catalog      *)
(* enters the drive in the manifest in the same step, and every path that  *)
(* takes a drive out of the manifest empties it, or puts an image there    *)
(* that is not of the catalog.                                             *)
(***************************************************************************)
TrackInv ==
    /\ slot = [d \in Drives |-> slot[d]]
    /\ \A d \in Drives : slot[d] \in Catalog => d \in manifest

LEMMA NotOfCatalog == Nothing \notin Catalog /\ Mine \notin Catalog /\ Imported \notin Catalog
BY DiskLibraryAssumption DEF Nothing, Mine, Imported

\* A drive that is given an image of the user's, or none, needs no entry.
LEMMA OtherImage ==
    ASSUME TrackInv, NEW e, NEW image, image \notin Catalog,
           slot' = [slot EXCEPT ![e] = image], manifest \ {e} \subseteq manifest'
    PROVE  TrackInv'
BY DEF TrackInv

\* What AutoAttach attaches it enters.
LEMMA AutoAttachTracks ==
    ASSUME NEW slots, NEW drives, NEW states, NEW there,
           \A d \in Drives : slots[d] \in Catalog => d \in drives,
           AutoAttach(slots, drives, states, there)
    PROVE  TrackInv'
<1>1. PICK ready : /\ slot' = [d \in Drives |-> IF d \in ready THEN DefaultDisk[d] ELSE slots[d]]
                   /\ manifest' = drives \cup ready
  BY DEF AutoAttach
<1> QED
  BY <1>1 DEF TrackInv

LEMMA InitTracks == LibraryInit => TrackInv
BY NotOfCatalog DEF LibraryInit, TrackInv

LEMMA TaskTracks == ASSUME TrackInv, NEW t, TaskRuns(t) PROVE TrackInv'
<1>1. CASE UNCHANGED <<slot, manifest>>
  BY <1>1 DEF TrackInv
<1>2. CASE Downloaded(t)
  <2>1. PICK f, d : /\ slot' = IF d = Nothing THEN slot ELSE [slot EXCEPT ![d] = f]
                    /\ manifest' = manifest \cup ({d} \ {Nothing})
    BY <1>2 DEF Downloaded
  <2> QED
    BY <2>1 DEF TrackInv
<1> QED
  BY <1>1, <1>2 DEF TaskRuns, Answered, Failed, Staged, Retry, Check, RemoveOld, MoveNew, Rejected

LEMMA NextTracks == TrackInv /\ [LibraryNext]_library => TrackInv'
<1> SUFFICES ASSUME TrackInv, [LibraryNext]_library PROVE TrackInv'
  OBVIOUS
<1>0. CASE UNCHANGED <<slot, manifest>>
  BY <1>0 DEF TrackInv
<1>1. ASSUME NEW f \in Catalog, Download(f) PROVE TrackInv'
  BY <1>0, <1>1 DEF Download
<1>2. ASSUME NEW f \in Catalog, DeleteCatalogDisk(f) PROVE TrackInv'
  <2>1. /\ slot' = [d \in Drives |-> IF slot[d] = f THEN Nothing ELSE slot[d]]
        /\ manifest' = {d \in manifest : slot[d] # f}
    BY <1>2 DEF DeleteCatalogDisk
  <2> QED
    BY <2>1, NotOfCatalog DEF TrackInv
<1>3. ASSUME NEW f \in Catalog, NEW d \in Drives, UseCatalogDisk(f, d) PROVE TrackInv'
  <2>1. CASE slot' = [slot EXCEPT ![d] = f] /\ manifest' = manifest \cup {d}
    BY <2>1 DEF TrackInv
  <2> QED
    BY <1>0, <1>3, <2>1 DEF UseCatalogDisk
<1>4. ASSUME NEW d \in Drives, RemoveDisk(d) PROVE TrackInv'
  BY <1>4, OtherImage, NotOfCatalog DEF RemoveDisk
<1>5. ASSUME NEW d \in OwnDrives, SetDiskPath(d) PROVE TrackInv'
  BY <1>5, OtherImage, NotOfCatalog DEF SetDiskPath
<1>6. ASSUME NEW d \in OwnDrives, CreateBlank(d) PROVE TrackInv'
  BY <1>6, OtherImage, NotOfCatalog DEF CreateBlank
<1>7. CASE (\E d \in OwnDrives : DownloadFromUrl(d)) \/ FetchDiskCatalog
              \/ UrlAnswered \/ UrlHandlerReturned
  BY <1>0, <1>7 DEF DownloadFromUrl, FetchDiskCatalog, UrlAnswered, UrlHandlerReturned
<1>8. CASE UrlDownloaded
  <2>1. CASE slot' = slot
    BY <1>0, <1>8, <2>1 DEF UrlDownloaded
  <2>2. CASE slot' = [slot EXCEPT ![url.drive] = Mine]
    BY <1>8, <2>2, OtherImage, NotOfCatalog DEF UrlDownloaded
  <2> QED
    BY <1>8, <2>1, <2>2 DEF UrlDownloaded
<1>9. CASE BookmarksResolved
  <2>1. PICK ds \in SUBSET OwnDrives :
          AutoAttach([d \in Drives |-> IF d \in ds THEN Imported ELSE slot[d]],
                     manifest, shows, files)
    BY <1>9 DEF BookmarksResolved
  <2> DEFINE slots == [d \in Drives |-> IF d \in ds THEN Imported ELSE slot[d]]
  <2>2. \A d \in Drives : slots[d] \in Catalog => d \in manifest
    BY NotOfCatalog DEF TrackInv
  <2> HIDE DEF slots
  <2> QED
    BY <2>1, <2>2, AutoAttachTracks DEF slots
<1>10. CASE CatalogIsTheSame
  <2>1. \A d \in Drives : slot[d] \in Catalog => d \in manifest
    BY DEF TrackInv
  <2> QED
    BY <1>10, <2>1, AutoAttachTracks DEF CatalogIsTheSame
<1>11. CASE CatalogIsNew
  <2> DEFINE slots == [d \in Drives |-> IF slot[d] \in {Nothing, Imported} THEN slot[d] ELSE Nothing]
             states == [f \in Catalog |-> IF f \in files THEN "notDownloaded" ELSE shows[f]]
  <2>1. \A d \in Drives : slots[d] \in Catalog => d \in {}
    BY NotOfCatalog
  <2>2. AutoAttach(slots, {}, states, {})
    BY <1>11 DEF CatalogIsNew
  <2> HIDE DEF slots, states
  <2> QED
    BY <2>1, <2>2, AutoAttachTracks
<1>12. ASSUME NEW t \in Task, TaskRuns(t) PROVE TrackInv'
  BY <1>12, TaskTracks
<1>13. CASE UNCHANGED library
  BY <1>0, <1>13 DEF library
<1> QED
  BY <1>1, <1>2, <1>3, <1>4, <1>5, <1>6, <1>7, <1>8, <1>9, <1>10, <1>11, <1>12, <1>13
     DEF LibraryNext

\* An image of the catalog is attached only to a drive of the manifest, for
\* any catalog, drives, number of downloads and order of what they and the
\* user do.
THEOREM CatalogDisksStayTracked == LibrarySpec => []CatalogDisksAreTracked
<1>1. TrackInv => CatalogDisksAreTracked
  BY DEF TrackInv, CatalogDisksAreTracked
<1> QED
  BY InitTracks, NextTracks, <1>1, PTL DEF LibrarySpec
=============================================================================
