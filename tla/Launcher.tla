------------------------------ MODULE Launcher ------------------------------
(***************************************************************************)
(* src/src/Xentrace-analysis.c: starts xentrace, waits for Ctrl-C, stops   *)
(* xentrace and starts an analysis on its log.  Four actors interleave:    *)
(* the launcher, its two children, and the user, whose Ctrl-C is a SIGINT  *)
(* for every process of the foreground group.  A child starts with the     *)
(* signal mask of the launcher at the fork, and keeps it across exec.      *)
(***************************************************************************)
EXTENDS Naturals

CONSTANT MaxInterrupts   \* bound: the number of SIGINTs

ASSUME MaxInterruptsAssumption == MaxInterrupts \in Nat

VARIABLES pc,            \* what the launcher does next
          name,          \* of the log: the default, given with -f, or entered
          log,           \* the file of that name: none, old, or the trace
          blocked,       \* SIGINT is blocked in the launcher
          handled,       \* sigint_handler is installed
          pending,       \* a SIGINT waits for the launcher to unblock it
          xentrace,      \* the child that runs, or will run, xentrace
          told,          \* history: SIGTERM was sent to it
          analysis,      \* the child that runs, or will run, the analysis
          interrupts,    \* SIGINTs so far
          asked          \* history: one came since SIGINT was blocked

file == <<name, log>>
signals == <<blocked, handled, pending>>
user == <<interrupts, asked>>
vars == <<pc, file, signals, xentrace, told, analysis, user>>

(* The launcher ended: it returned from main, or exited on an error, after *)
(* a kill() that failed in the third case, or SIGINT or a fault killed it. *)
Gone == {"done", "exited", "killFailed", "killed"}

Init == /\ pc = "options"
        /\ name \in {"default", "given"}
        /\ log \in {"none", "old"}
        /\ blocked = FALSE /\ handled = FALSE /\ pending = FALSE
        /\ xentrace = "none" /\ told = FALSE /\ analysis = "none"
        /\ interrupts = 0 /\ asked = FALSE

-----------------------------------------------------------------------------
Goto(from, to) == pc = from /\ pc' = to

(* The launcher exits: on a bad command line, or when a call failed.       *)
Exit == /\ pc \in {"options", "check", "block", "handle", "forkXentrace", "unmask",
                   "forkAnalysis"}
        /\ pc = "check" => log = "old"      \* unlink failed
        /\ pc' = "exited"
        /\ UNCHANGED <<file, signals, xentrace, told, analysis, user>>

HandleOptions == /\ Goto("options", "check")
                 /\ UNCHANGED <<file, signals, xentrace, told, analysis, user>>

(* While the log exists, ask whether to delete it.  A new name is read     *)
(* into the old one's memory: argv[3], or a string literal, where writing  *)
(* faults.  It leaves its newline behind, which is the next answer.        *)
CheckLog ==
    /\ \/ Goto("check", "block") /\ log = "none" /\ UNCHANGED file
       \/ /\ pc = "check" /\ log = "old" /\ name # "entered"
          /\ log' = "none"
          /\ UNCHANGED <<pc, name>>
       \/ /\ pc = "check" /\ log = "old" /\ name # "default"
          /\ name' = "entered" /\ log' \in {"none", "old"}
          /\ UNCHANGED pc
       \/ Goto("check", "killed") /\ log = "old" /\ name = "default" /\ UNCHANGED file
    /\ UNCHANGED <<signals, xentrace, told, analysis, user>>

BlockSigint == /\ Goto("block", "handle")
               /\ blocked' = TRUE
               /\ UNCHANGED <<file, handled, pending, xentrace, told, analysis, user>>

(* mutant: the handler is not installed *)
NoSigaction == /\ Goto("handle", "forkXentrace")
               /\ UNCHANGED <<file, signals, xentrace, told, analysis, user>>

InstallHandler == /\ Goto("handle", "forkXentrace")
                  /\ handled' = TRUE
                  /\ UNCHANGED <<file, blocked, pending, xentrace, told, analysis, user>>

ForkXentrace == /\ Goto("forkXentrace", "suspend")
                /\ xentrace' = "child"
                /\ UNCHANGED <<file, signals, told, analysis, user>>

(* kill(xentracePid, SIGTERM): before exec it ends the child, afterwards   *)
(* xentrace closes its log first; one that ended is still a zombie.        *)
Terminate == /\ told' = TRUE
             /\ xentrace' = IF xentrace = "running" THEN "stopping" ELSE "dead"

(* mutant: unblock, then pause: what was pending is handled in between *)
UnblockThenPause == /\ Goto("suspend", "paused")
                    /\ blocked' = FALSE /\ pending' = FALSE
                    /\ UNCHANGED <<file, handled, xentrace, told, analysis, user>>

(* sigsuspend(&origMask) unblocks SIGINT and pauses in one step, and       *)
(* blocks it again once the handler ran.  If it fails, kill and exit,      *)
(* whether or not the signal could be sent.                                *)
Sigsuspend ==
    \/ /\ Goto("suspend", "kill") /\ pending
       /\ pending' = FALSE
       /\ UNCHANGED <<file, blocked, handled, xentrace, told, analysis, user>>
    \/ /\ Goto("suspend", "paused") /\ ~pending
       /\ blocked' = FALSE
       /\ UNCHANGED <<file, handled, pending, xentrace, told, analysis, user>>
    \/ /\ Goto("suspend", "exited")
       /\ Terminate
       /\ UNCHANGED <<file, signals, analysis, user>>
    \/ /\ Goto("suspend", "killFailed")
       /\ UNCHANGED <<file, signals, xentrace, told, analysis, user>>

(* mutant: that kill failed is not noticed *)
KillUnchecked ==
    \/ /\ Goto("kill", "unmask")
       /\ Terminate
       /\ UNCHANGED <<file, signals, analysis, user>>
    \/ /\ Goto("kill", "unmask")
       /\ UNCHANGED <<file, signals, xentrace, told, analysis, user>>

KillXentrace ==
    \/ /\ Goto("kill", "unmask")
       /\ Terminate
       /\ UNCHANGED <<file, signals, analysis, user>>
    \/ /\ Goto("kill", "killFailed")
       /\ UNCHANGED <<file, signals, xentrace, told, analysis, user>>

(* sigprocmask back to origMask; a pending SIGINT is handled, to no effect *)
Unmask == /\ Goto("unmask", "forkAnalysis")
          /\ blocked' = FALSE /\ pending' = FALSE
          /\ UNCHANGED <<file, handled, xentrace, told, analysis, user>>

ForkAnalysis == /\ Goto("forkAnalysis", "return")
                /\ analysis' = "child"
                /\ UNCHANGED <<file, signals, xentrace, told, user>>

Return == /\ Goto("return", "done")
          /\ UNCHANGED <<file, signals, xentrace, told, analysis, user>>

LauncherNext == \/ HandleOptions \/ CheckLog \/ BlockSigint \/ InstallHandler
                \/ ForkXentrace \/ Sigsuspend \/ KillXentrace \/ Unmask
                \/ ForkAnalysis \/ Return \/ Exit

-----------------------------------------------------------------------------
(* The child of the first fork: execvp succeeds, or fails and it exits.    *)
ExecXentrace ==
    /\ xentrace = "child"
    /\ \/ xentrace' = "running" /\ log' = "trace"
       \/ xentrace' = "dead" /\ UNCHANGED log
    /\ UNCHANGED <<pc, name, signals, told, analysis, user>>

(* xentrace (external) ends when it was told to, or on an error.           *)
XentraceEnds ==
    /\ xentrace \in {"running", "stopping"}
    /\ xentrace' = "dead"
    /\ UNCHANGED <<pc, file, signals, told, analysis, user>>

(* The child of the second fork: execl, and the analysis until it ends.    *)
RunAnalysis ==
    /\ \/ analysis = "child" /\ analysis' \in {"running", "dead"}
       \/ analysis = "running" /\ analysis' = "dead"
    /\ UNCHANGED <<pc, file, signals, xentrace, told, user>>

(* Ctrl-C.  xentrace was forked with SIGINT blocked; the analysis has the  *)
(* launcher's handler until exec, and the default action after it.         *)
Interrupt ==
    /\ pc \notin Gone
    /\ interrupts < MaxInterrupts
    /\ interrupts' = interrupts + 1
    /\ asked' = (asked \/ blocked \/ pc = "paused")
    /\ analysis' = IF analysis = "running" THEN "dead" ELSE analysis
    /\ \/ blocked /\ pending' = TRUE /\ UNCHANGED <<pc, blocked>>
       \/ ~blocked /\ ~handled /\ pc' = "killed" /\ UNCHANGED <<blocked, pending>>
       \/ /\ ~blocked /\ handled
          /\ IF pc = "paused" THEN pc' = "kill" /\ blocked' = TRUE
                              ELSE UNCHANGED <<pc, blocked>>
          /\ UNCHANGED pending
    /\ UNCHANGED <<file, handled, xentrace, told>>

Next == LauncherNext \/ ExecXentrace \/ XentraceEnds \/ RunAnalysis \/ Interrupt

(* The operating system runs the launcher as long as it can move; nothing  *)
(* is assumed of the user, of xentrace and of the analysis.                *)
Spec == Init /\ [][Next]_vars /\ WF_vars(LauncherNext)

-----------------------------------------------------------------------------
TypeOK ==
    /\ pc \in {"options", "check", "block", "handle", "forkXentrace", "suspend",
               "paused", "kill", "unmask", "forkAnalysis", "return"} \cup Gone
    /\ name \in {"default", "given", "entered"}
    /\ log \in {"none", "old", "trace"}
    /\ blocked \in BOOLEAN /\ handled \in BOOLEAN /\ pending \in BOOLEAN
    /\ xentrace \in {"none", "child", "running", "stopping", "dead"}
    /\ analysis \in {"none", "child", "running", "dead"}
    /\ interrupts \in 0 .. MaxInterrupts
    /\ told \in BOOLEAN /\ asked \in BOOLEAN

(* The launcher never leaves xentrace behind, tracing for ever: however    *)
(* it ends, xentrace was not started or was told to stop, unless kill()    *)
(* itself failed.                                                          *)
NoOrphan == pc \in Gone \ {"killFailed"} => xentrace = "none" \/ told

(* The analysis is never started on the log of an xentrace that goes on    *)
(* tracing.  (It may be started while xentrace, told to stop, is still     *)
(* writing: the launcher does not wait for it.)                            *)
AnalysisOnStoppedTrace == analysis # "none" => told /\ xentrace \in {"stopping", "dead"}

(* Between the moments SIGINT is blocked and xentrace is told to stop, a   *)
(* Ctrl-C is on record somewhere: the signal is pending, or sigsuspend     *)
(* returned on it.  Pausing with one forgotten would be a wait for ever.   *)
InterruptOnRecord == asked /\ ~told /\ pc \notin Gone => pending \/ pc = "kill"

(* A Ctrl-C is never lost: whenever it comes after SIGINT was blocked,     *)
(* xentrace is told to stop, or the launcher gave up for another reason.   *)
InterruptStopsTrace == asked ~> (told \/ pc \in {"exited", "killFailed"})
=============================================================================
