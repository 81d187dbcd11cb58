----------------------------- MODULE MCSession -----------------------------
(***************************************************************************)
(* The sessions of the two backends, in one run: each behaviour is of the  *)
(* starts of one of them.  The user of emu88 who has cancelled a start     *)
(* waits for its disks to be loaded before the next; the user of DOSBox    *)
(* need not.                                                               *)
(***************************************************************************)
EXTENDS Session, DosBox

VARIABLE backend

MCInit == backend \in {"emu88", "dosbox"} /\ Init /\ BoxInit

MCNext ==
    \/ backend = "emu88" /\ Next /\ UNCHANGED <<backend, boxVars>>
    \/ backend = "dosbox" /\ BoxNext /\ UNCHANGED <<backend, vars>>

\* In its initial state, where the other backend's sessions stay, neither has
\* a fair step to take.
MCSpec == MCInit /\ [][MCNext]_<<backend, vars, boxVars>> /\ Fairness /\ BoxFairness

\* What has begun to end ends, in either backend; see Session and DosBox.
EveryEndingEnds == SessionsEnd /\ EndingsEnd
=============================================================================
