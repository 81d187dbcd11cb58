------------------------------- MODULE DosBox -------------------------------
(***************************************************************************)
(* A DOSBox session: the view model on the main thread, one DOSEmulator    *)
(* object per start, the task that loads its disks, the queue that runs    *)
(* dosbox_run(), and the globals of dosbox_bridge.cpp they share.          *)
(*                                                                         *)
(* The guest writes to the image file itself; saving reads the image from  *)
(* the emulator object and writes it over the file.  A content is the set  *)
(* of guest writes it holds.  The shell and the modules of DOSBox are in   *)
(* a submodule: SHELL_InitAndRun() returns when the guest leaves it or a   *)
(* shutdown has been requested, or throws.                                 *)
(***************************************************************************)
EXTENDS Naturals, Sequences, FiniteSets

CONSTANTS MaxSessions,  \* bound: times the user presses Start
          MaxWrites,    \* bound: writes of guests to the image
          Patience      \* times exit() looks whether DOSBox has ended (100)

ASSUME DosBoxAssumption ==
    MaxSessions \in Nat /\ MaxWrites \in Nat /\ Patience \in Nat

VARIABLES
    shown,      \* the view model: isRunning, isStarting, startCancelled, dosboxEmulator
    blocks,     \* blocks waiting for the main thread
    busy,       \* what the main thread is in the middle of
    box,        \* the DOSEmulator objects
    bridge,     \* s_running, s_atexit_registered, DOSBox's shutdown flag
    file,       \* content of the image file
    sessions, writes

boxVars == <<shown, blocks, busy, box, bridge, file, sessions, writes>>

Boxes == 1 .. MaxSessions
NoBox == 0

\* thread: the block on the emulator's queue: none, shell (in the DOS shell),
\* modules (destroying them), window (in dispatch_sync), clearing (the globals),
\* ending (dosbox_run has returned), done.
\* copy: what loadDisk read; mounted: loadDisk was called.
NewBox == [load |-> "none", mounted |-> FALSE, copy |-> {}, shouldRun |-> FALSE,
           thread |-> "none"]

Idle == [pc |-> "idle"]

BoxInit ==
    /\ shown = [isRunning |-> FALSE, isStarting |-> FALSE, startCancelled |-> FALSE,
                emulator |-> NoBox]
    /\ blocks = << >> /\ busy = Idle
    /\ box = [s \in Boxes |-> NewBox]
    /\ bridge = [running |-> FALSE, atexit |-> FALSE, shutdown |-> FALSE]
    /\ file = {} /\ sessions = 0 /\ writes = 0

Post(kind, s) == blocks' = Append(blocks, [kind |-> kind, of |-> s])
IsNext(kind) == busy = Idle /\ blocks # << >> /\ Head(blocks).kind = kind

-----------------------------------------------------------------------------
(* Starting. *)

StartBox ==
    /\ busy = Idle /\ ~shown.isRunning /\ sessions < MaxSessions
    /\ shown' = [shown EXCEPT !.isRunning = TRUE, !.isStarting = TRUE,
                              !.startCancelled = FALSE]
    /\ sessions' = sessions + 1
    /\ box' = [box EXCEPT ![sessions'].load = "loading"]
    /\ UNCHANGED <<blocks, busy, bridge, file, writes>>

\* The image is mounted from its file; a copy is kept.
LoadDisk(b) == [b EXCEPT !.load = "loaded", !.mounted = TRUE, !.copy = file]

\* Off the main thread: the image is read, cannot be, or is skipped because
\* the start has been cancelled meanwhile.
LoadDisks(s) ==
    /\ box[s].load = "loading"
    /\ \/ box' = [box EXCEPT ![s] = LoadDisk(@)]
       \/ box' = [box EXCEPT ![s].load = "failed"]
       \/ shown.startCancelled /\ box' = [box EXCEPT ![s].load = "loaded"]
    /\ Post("loaded", s)
    /\ UNCHANGED <<shown, busy, bridge, file, sessions, writes>>

GiveUp ==
    /\ IsNext("loaded")
    /\ shown.startCancelled \/ box[Head(blocks).of].load = "failed"
    /\ shown' = [shown EXCEPT !.isStarting = FALSE, !.isRunning = FALSE]
    /\ blocks' = Tail(blocks)
    /\ UNCHANGED <<busy, box, bridge, file, sessions, writes>>

\* dosbox_init() refuses while DOSBox is still there, and may fail.
DosBoxInit(s) ==
    \/ ~bridge.running
       /\ bridge' = [bridge EXCEPT !.running = TRUE, !.atexit = TRUE]
       /\ box' = [box EXCEPT ![s].shouldRun = TRUE, ![s].thread = "shell"]
    \/ ~bridge.running
       /\ bridge' = [bridge EXCEPT !.atexit = TRUE] /\ UNCHANGED box
    \/ bridge.running /\ UNCHANGED <<bridge, box>>

\* The emulator is installed and started; the view model is not told how that
\* went.
InstallBox ==
    /\ IsNext("loaded")
    /\ LET s == Head(blocks).of IN
         /\ ~shown.startCancelled /\ box[s].load = "loaded"
         /\ shown' = [shown EXCEPT !.emulator = s, !.isStarting = FALSE]
         /\ DosBoxInit(s)
    /\ blocks' = Tail(blocks)
    /\ UNCHANGED <<busy, file, sessions, writes>>

Cancel ==
    /\ busy = Idle /\ shown.isStarting
    /\ shown' = [shown EXCEPT !.startCancelled = TRUE, !.isStarting = FALSE,
                              !.isRunning = FALSE]
    /\ UNCHANGED <<blocks, busy, box, bridge, file, sessions, writes>>

-----------------------------------------------------------------------------
(* Saving: by the timer, when the app leaves the foreground, before stop()  *)
(* ends the process, and when the session has ended.                        *)

BeginSave(after) == busy' = [pc |-> "save", then |-> after]

SaveNow ==
    /\ busy = Idle /\ shown.emulator # NoBox
    /\ BeginSave("return")
    /\ UNCHANGED <<shown, blocks, box, bridge, file, sessions, writes>>

Stop ==
    /\ busy = Idle /\ shown.isRunning /\ ~shown.isStarting
    /\ BeginSave("_exit")
    /\ UNCHANGED <<shown, blocks, box, bridge, file, sessions, writes>>

\* getDiskData reads the file again only while the emulator is to run.
DiskData(s) == IF box[s].shouldRun THEN file ELSE box[s].copy

ReadImage ==
    /\ busy.pc = "save"
    /\ busy' = IF shown.emulator # NoBox /\ box[shown.emulator].mounted
               THEN [pc |-> "write", data |-> DiskData(shown.emulator), then |-> busy.then]
               ELSE [pc |-> "saved", then |-> busy.then]
    /\ UNCHANGED <<shown, blocks, box, bridge, file, sessions, writes>>

WriteImage ==
    /\ busy.pc = "write"
    /\ file' = busy.data
    /\ busy' = [pc |-> "saved", then |-> busy.then]
    /\ UNCHANGED <<shown, blocks, box, bridge, sessions, writes>>

Saved ==
    /\ busy.pc = "saved"
    /\ busy' = IF busy.then = "_exit" THEN [pc |-> "gone"] ELSE Idle
    /\ shown' = IF busy.then = "ended" THEN [shown EXCEPT !.isRunning = FALSE] ELSE shown
    /\ UNCHANGED <<blocks, box, bridge, file, sessions, writes>>

-----------------------------------------------------------------------------
(* The emulator's queue: dosbox_run().                                      *)

GuestWrites(s) ==
    /\ box[s].thread = "shell" /\ box[s].mounted /\ writes < MaxWrites
    /\ writes' = writes + 1
    /\ file' = file \cup {writes'}
    /\ UNCHANGED <<shown, blocks, busy, box, bridge, sessions>>

Move(s, from, to) == box[s].thread = from /\ box' = [box EXCEPT ![s].thread = to]

\* The guest leaves the shell, or throws DOSBox out of it.
LeaveShell(s) ==
    /\ Move(s, "shell", "modules") \/ Move(s, "shell", "clearing")
    /\ UNCHANGED <<shown, blocks, busy, bridge, file, sessions, writes>>

ShutDown(s) ==
    /\ bridge.shutdown /\ Move(s, "shell", "modules")
    /\ UNCHANGED <<shown, blocks, busy, bridge, file, sessions, writes>>

\* Bug: DOSBox counts as ended when its modules are gone.
AskTeardownClearing(s) ==
    /\ Move(s, "modules", "window")
    /\ Post("teardown", s)
    /\ bridge' = [bridge EXCEPT !.running = FALSE]
    /\ UNCHANGED <<shown, busy, file, sessions, writes>>

\* The window has to be destroyed by the main thread.
AskTeardown(s) ==
    /\ Move(s, "modules", "window")
    /\ Post("teardown", s)
    /\ UNCHANGED <<shown, busy, bridge, file, sessions, writes>>

Teardown ==
    /\ IsNext("teardown")
    /\ Move(Head(blocks).of, "window", "clearing")
    /\ blocks' = Tail(blocks)
    /\ UNCHANGED <<shown, busy, bridge, file, sessions, writes>>

Clear(s) ==
    /\ Move(s, "clearing", "ending")
    /\ bridge' = [bridge EXCEPT !.running = FALSE]
    /\ UNCHANGED <<shown, blocks, busy, file, sessions, writes>>

EndRun(s) ==
    /\ box[s].thread = "ending"
    /\ box' = [box EXCEPT ![s].thread = "done", ![s].shouldRun = FALSE]
    /\ Post("didExit", s)
    /\ UNCHANGED <<shown, busy, bridge, file, sessions, writes>>

\* emulatorDidExit saves first; Saved does the rest.
EmulatorDidExit ==
    /\ IsNext("didExit")
    /\ blocks' = Tail(blocks)
    /\ BeginSave("ended")
    /\ UNCHANGED <<shown, box, bridge, file, sessions, writes>>

-----------------------------------------------------------------------------
(* The settings' Quit button: exit(0), with dosbox_atexit_cleanup() once   *)
(* dosbox_init() has registered it.                                        *)

Quit ==
    /\ busy = Idle /\ ~shown.isRunning
    /\ busy' = IF bridge.atexit /\ bridge.running THEN [pc |-> "exit", polls |-> 0]
               ELSE [pc |-> "gone"]
    /\ bridge' = [bridge EXCEPT !.shutdown = bridge.atexit /\ bridge.running]
    /\ UNCHANGED <<shown, blocks, box, file, sessions, writes>>

WaitForDosBox ==
    /\ busy.pc = "exit"
    /\ busy' = IF bridge.running /\ busy.polls < Patience
               THEN [busy EXCEPT !.polls = @ + 1] ELSE [pc |-> "gone"]
    /\ UNCHANGED <<shown, blocks, box, bridge, file, sessions, writes>>

-----------------------------------------------------------------------------
MainContinues == ReadImage \/ WriteImage \/ Saved \/ WaitForDosBox
MainBlocks == GiveUp \/ InstallBox \/ Teardown \/ EmulatorDidExit
RunThread(s) == ShutDown(s) \/ AskTeardown(s) \/ Clear(s) \/ EndRun(s)

\* When the process is gone nothing happens any more.
BoxNext ==
    /\ busy.pc # "gone"
    /\ \/ StartBox \/ Cancel \/ SaveNow \/ Stop \/ Quit \/ MainContinues \/ MainBlocks
       \/ \E s \in Boxes :
            LoadDisks(s) \/ GuestWrites(s) \/ LeaveShell(s) \/ RunThread(s)

\* The run loop of the main thread drains its queue between two events.
BoxFairness ==
    /\ WF_boxVars(busy.pc # "gone" /\ MainContinues)
    /\ SF_boxVars(busy.pc # "gone" /\ MainBlocks)
    /\ \A s \in Boxes : WF_boxVars(busy.pc # "gone" /\ (LoadDisks(s) \/ RunThread(s)))

BoxSpec == BoxInit /\ [][BoxNext]_boxVars /\ BoxFairness

-----------------------------------------------------------------------------
Alive(s) == box[s].thread \in {"shell", "modules", "window", "clearing"}

\* DOSBox is a set of globals: of all the emulators a user can start, cancel
\* and start again, one at most is between dosbox_init() and the end of its
\* cleanup, and while there is one, s_running holds newcomers off.
OneDosBox ==
    /\ Cardinality({s \in Boxes : Alive(s)}) <= 1
    /\ (\E s \in Boxes : Alive(s)) => bridge.running

\* What has begun to end ends: exit() ends the process although DOSBox may be
\* waiting for the very thread that waits for it, and a guest that has left the
\* shell has its window torn down and its session taken off the screen.
EndingsEnd ==
    /\ (busy.pc = "exit") ~> (busy.pc = "gone")
    /\ \A s \in Boxes :
         (box[s].thread = "modules") ~> (box[s].thread = "done" \/ busy.pc = "gone")

\* DOSEmulator.mm:179: "If disk is file-backed and DOSBox may have written to
\* it, re-read".  A save writes what the file held when it was asked for.
SavesAreFresh ==
    [][busy.pc = "save" /\ busy'.pc = "write" => busy'.data = file]_boxVars
=============================================================================
