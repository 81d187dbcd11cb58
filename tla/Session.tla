------------------------------ MODULE Session ------------------------------
(***************************************************************************)
(* Starting, stopping and losing an emulator: EmulatorViewModel.swift on   *)
(* the main thread, one Emu88Emulator object per start, the background     *)
(* task that loads its disks, and its serial queue running -runLoop.       *)
(*                                                                         *)
(* The main thread alternates between user events and the blocks other     *)
(* threads have put on the main queue; between two events it runs the      *)
(* blocks that were there.  dispatch_sync makes it wait for an emulator's  *)
(* queue.  Objects are reference counted: an emulator is destroyed, by     *)
(* whichever thread drops the last reference, and -dealloc calls -stop.    *)
(***************************************************************************)
EXTENDS Naturals, Sequences, FiniteSets

CONSTANTS MaxStarts,    \* bound: times the user presses Start
          Patient       \* TRUE: a user who has cancelled a start presses Start
                        \* again only when its disks have stopped loading

ASSUME SessionAssumption ==
    /\ MaxStarts \in Nat \ {0}
    /\ Patient \in BOOLEAN

VARIABLES isRunning, isStarting,    \* EmulatorViewModel's published state
          startCancelled,
          current,                  \* emu88Emulator; None when activeBackend is nil
          mainQueue,                \* blocks waiting for the main thread
          owed,                     \* blocks it runs before the next user event
          main,                     \* the main thread: free, or inside -stop
          starts,                   \* how many emulators have been made
          emu                       \* the emulator objects

vars == <<isRunning, isStarting, startCancelled, current, mainQueue, owed, main,
          starts, emu>>

ui == <<isRunning, isStarting, startCancelled, current, owed, starts>>

Emulator == 1 .. MaxStarts
None == 0

\* run is the -runLoop block on the emulator's queue: none yet, queued,
\* running, ending (out of its loop), returned (about to be released), done;
\* or waiting for its own queue.  refs says who holds a reference.
New == [load |-> "none", run |-> "none", shouldRun |-> FALSE, delegate |-> FALSE,
        machine |-> FALSE, refs |-> {}, halted |-> FALSE]

Free == [pc |-> "free", of |-> None]

Init == /\ isRunning = FALSE /\ isStarting = FALSE /\ startCancelled = FALSE
        /\ current = None
        /\ mainQueue = << >> /\ owed = 0 /\ main = Free
        /\ starts = 0
        /\ emu = [e \in Emulator |-> New]

Enqueue(kind, e) == mainQueue' = Append(mainQueue, [kind |-> kind, of |-> e])

-----------------------------------------------------------------------------
(***************************************************************************)
(* User events.                                                            *)
(***************************************************************************)
UserEvent == main = Free /\ owed = 0

AfterEvent == owed' = Len(mainQueue)

\* Bug: start() does not look whether a session is on.
StartAgain ==
    /\ UserEvent /\ starts < MaxStarts
    /\ isStarting' = TRUE /\ isRunning' = TRUE /\ startCancelled' = FALSE
    /\ starts' = starts + 1
    /\ emu' = [emu EXCEPT ![starts'].load = "loading", ![starts'].refs = {"loader"}]
    /\ AfterEvent
    /\ UNCHANGED <<current, mainQueue, main>>

Start ==
    /\ UserEvent /\ ~isRunning /\ starts < MaxStarts
    /\ Patient => \A e \in Emulator : "loader" \notin emu[e].refs
    /\ isStarting' = TRUE /\ isRunning' = TRUE /\ startCancelled' = FALSE
    /\ starts' = starts + 1
    /\ emu' = [emu EXCEPT ![starts'].load = "loading", ![starts'].refs = {"loader"}]
    /\ AfterEvent
    /\ UNCHANGED <<current, mainQueue, main>>

\* Both the Cancel button and stop() while disks are loading.
CancelStart ==
    /\ UserEvent /\ isRunning /\ isStarting
    /\ startCancelled' = TRUE /\ isStarting' = FALSE /\ isRunning' = FALSE
    /\ AfterEvent
    /\ UNCHANGED <<current, mainQueue, main, starts, emu>>

\* stop() asks the emulator to stop and then waits for its queue to drain.
\* The delegate goes first, the run loop's flag second.
DetachDelegate ==
    /\ UserEvent /\ isRunning /\ ~isStarting /\ current # None
    /\ main' = [pc |-> "clear", of |-> current]
    /\ emu' = [emu EXCEPT ![current].delegate = FALSE]
    /\ UNCHANGED <<ui, mainQueue>>

ClearShouldRun ==
    /\ main.pc = "clear"
    /\ main' = [main EXCEPT !.pc = "drain"]
    /\ emu' = [emu EXCEPT ![main.of].shouldRun = FALSE]
    /\ UNCHANGED <<ui, mainQueue>>

QueueIdle(e) == emu[e].run \in {"none", "done"}

\* Bug: the view model drops the emulator and leaves the rest to -dealloc.
FinishStopByDropping ==
    /\ main.pc = "drain"
    /\ emu' = [emu EXCEPT ![main.of].refs = @ \ {"model"}]
    /\ current' = None /\ isRunning' = FALSE /\ isStarting' = FALSE
    /\ main' = Free
    /\ AfterEvent
    /\ UNCHANGED <<startCancelled, mainQueue, starts>>

\* Bug: the machine is freed without waiting for the queue.
FinishStopAtOnce ==
    /\ main.pc = "drain"
    /\ emu' = [emu EXCEPT ![main.of].machine = FALSE, ![main.of].refs = @ \ {"model"}]
    /\ current' = None /\ isRunning' = FALSE /\ isStarting' = FALSE
    /\ main' = Free
    /\ AfterEvent
    /\ UNCHANGED <<startCancelled, mainQueue, starts>>

\* The queue has drained: the machine is freed and the view model lets go.
FinishStop ==
    /\ main.pc = "drain" /\ QueueIdle(main.of)
    /\ emu' = [emu EXCEPT ![main.of].machine = FALSE, ![main.of].refs = @ \ {"model"}]
    /\ current' = None /\ isRunning' = FALSE /\ isStarting' = FALSE
    /\ main' = Free
    /\ AfterEvent
    /\ UNCHANGED <<startCancelled, mainQueue, starts>>

-----------------------------------------------------------------------------
(***************************************************************************)
(* The loading task, and what it leaves for the main thread.               *)
(***************************************************************************)
\* Disks are read in the background; a failure is remembered.
Load(e) ==
    /\ emu[e].load = "loading"
    /\ \E outcome \in {"loaded", "failed"} :
         emu' = [emu EXCEPT ![e].load = outcome]
    /\ Enqueue("loaded", e)
    /\ UNCHANGED <<ui, main>>

\* The view model drops its emulator: it is destroyed if no block holds it.
Dropped(f, e) ==
    IF e = None THEN f
    ELSE [f EXCEPT ![e].refs = @ \ {"model"},
                   ![e].machine = @ /\ f[e].refs # {"model"}]

NextBlock(kind) == main = Free /\ mainQueue # << >> /\ Head(mainQueue).kind = kind

BlockDone == /\ mainQueue' = Tail(mainQueue)
             /\ owed' = IF owed = 0 THEN 0 ELSE owed - 1

\* The start was cancelled, or a disk did not load: nothing is started.
GiveUpStart ==
    /\ NextBlock("loaded") /\ BlockDone
    /\ LET e == Head(mainQueue).of IN
         /\ startCancelled \/ emu[e].load = "failed"
         /\ emu' = [emu EXCEPT ![e].refs = {}]
    /\ isStarting' = FALSE /\ isRunning' = FALSE
    /\ UNCHANGED <<startCancelled, current, main, starts>>

\* The emulator is installed and -startWithBootDrive: called.  A boot that
\* fails (no disk in the boot drive) leaves a machine and no run loop.
Install ==
    /\ NextBlock("loaded") /\ BlockDone
    /\ LET e == Head(mainQueue).of IN
         /\ ~startCancelled /\ emu[e].load = "loaded"
         /\ current' = e
         /\ \E boots \in BOOLEAN :
              emu' = [Dropped(emu, current) EXCEPT
                        ![e].refs = IF boots THEN {"model", "block"} ELSE {"model"},
                        ![e].machine = TRUE, ![e].delegate = TRUE,
                        ![e].shouldRun = boots,
                        ![e].run = IF boots THEN "queued" ELSE "none"]
    /\ isStarting' = FALSE
    /\ UNCHANGED <<isRunning, startCancelled, main, starts>>

\* Bug: only the emulator is dropped, the view model stays in its state.
DidExitKeepsRunning ==
    /\ NextBlock("didExit") /\ BlockDone
    /\ UNCHANGED <<isRunning, isStarting, startCancelled, current, main, starts, emu>>

\* emulatorDidExit: whichever emulator is installed is dropped.
DidExit ==
    /\ NextBlock("didExit") /\ BlockDone
    /\ emu' = Dropped(emu, current)
    /\ current' = None
    /\ isRunning' = FALSE
    /\ UNCHANGED <<isStarting, startCancelled, main, starts>>

-----------------------------------------------------------------------------
(***************************************************************************)
(* The emulator's queue: -runLoop.                                         *)
(***************************************************************************)
EnterLoop(e) ==
    /\ emu[e].run = "queued"
    /\ emu' = [emu EXCEPT ![e].run = IF emu[e].shouldRun THEN "running" ELSE "ending"]
    /\ UNCHANGED <<ui, mainQueue, main>>

\* run_batch returns false: the guest has halted its CPU with IF clear.
HaltCpu(e) ==
    /\ emu[e].run = "running"
    /\ emu' = [emu EXCEPT ![e].run = "ending", ![e].halted = TRUE, ![e].shouldRun = FALSE]
    /\ UNCHANGED <<ui, mainQueue, main>>

\* while (_shouldRun), looked at between batches and after each wait for a key.
LeaveLoop(e) ==
    /\ emu[e].run = "running" /\ ~emu[e].shouldRun
    /\ emu' = [emu EXCEPT ![e].run = "ending"]
    /\ UNCHANGED <<ui, mainQueue, main>>

\* The delegate, if it is still there, is told on the main queue.
ReportExit(e) ==
    /\ emu[e].run = "ending"
    /\ IF emu[e].delegate THEN Enqueue("didExit", e) ELSE UNCHANGED mainQueue
    /\ emu' = [emu EXCEPT ![e].run = "returned", ![e].shouldRun = FALSE]
    /\ UNCHANGED <<ui, main>>

\* The queue releases the block.  If that was the last reference, -dealloc
\* runs here and its -stop waits for the queue it is running on.
ReleaseBlock(e) ==
    /\ emu[e].run = "returned"
    /\ emu' = [emu EXCEPT ![e].refs = @ \ {"block"},
                          ![e].run = IF emu[e].refs = {"block"} /\ emu[e].machine
                                     THEN "selfwait" ELSE "done"]
    /\ UNCHANGED <<ui, mainQueue, main>>

RunLoop(e) == \/ EnterLoop(e) \/ LeaveLoop(e) \/ ReportExit(e) \/ ReleaseBlock(e)

MainBlock == GiveUpStart \/ Install \/ DidExit

Next == \/ Start \/ CancelStart \/ DetachDelegate \/ ClearShouldRun \/ FinishStop
        \/ MainBlock
        \/ \E e \in Emulator : Load(e) \/ RunLoop(e) \/ HaltCpu(e)

\* Every thread is scheduled; no user and no guest has to do anything.
Fairness == /\ WF_vars(MainBlock) /\ WF_vars(ClearShouldRun) /\ WF_vars(FinishStop)
            /\ \A e \in Emulator : WF_vars(Load(e)) /\ WF_vars(RunLoop(e))

Spec == Init /\ [][Next]_vars /\ Fairness

-----------------------------------------------------------------------------
\* An emulator executes only while the view model shows it running and can
\* stop it: none is left behind by a stop, a cancelled start or an exit, so
\* two never write the same disk images.
OnlyTheShownRuns ==
    main = Free => \A e \in Emulator :
      emu[e].run = "running" /\ emu[e].shouldRun => isRunning /\ current = e

\* Stopping is safe and final.  The machine is not freed under a run loop; no
\* exit is reported of a session the user ended, only of a guest that halted;
\* and an emulator is destroyed on its own queue, for which its -stop would
\* wait for ever, only when its guest has halted.
StopIsSafe ==
    /\ \A e \in Emulator :
         /\ emu[e].run \in {"queued", "running", "ending"} => emu[e].machine
         /\ emu[e].run = "selfwait" => emu[e].halted
    /\ \A i \in DOMAIN mainQueue :
         mainQueue[i].kind = "didExit" => emu[mainQueue[i].of].halted

\* Sessions end: the main thread comes back from stop(), and a guest that halts
\* its CPU takes the session off the screen.
SessionsEnd ==
    /\ (main.pc = "drain") ~> (main = Free)
    /\ \A e \in Emulator : emu[e].halted ~> (current # e)
=============================================================================
