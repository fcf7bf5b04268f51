--------------------------- MODULE LauncherProofs ---------------------------
(***************************************************************************)
(* The launcher never orphans xentrace and never forgets a Ctrl-C, for any *)
(* number of them.                                                         *)
(***************************************************************************)
EXTENDS Launcher, TLAPS

Starting == {"options", "check", "block", "handle", "forkXentrace"}
Waiting == {"suspend", "paused", "kill"}
Finishing == {"unmask", "forkAnalysis", "return"}

(* What is known at each point of the launcher: nothing is forked before   *)
(* the handler is installed, xentrace is told to stop before anything      *)
(* else, and SIGINT is blocked whenever it could otherwise be missed.      *)
LauncherInv ==
    /\ TypeOK
    /\ pc \in Starting \cup {"killed"} => xentrace = "none"
    /\ pc \in {"forkXentrace"} \cup Waiting \cup Finishing => handled
    /\ pc \in {"handle", "forkXentrace", "suspend", "kill"} => blocked
    /\ pc \in {"options", "check", "block"} => ~blocked /\ ~handled /\ ~asked
    /\ pc = "paused" => ~blocked /\ ~asked
    /\ pc \in Starting \cup Waiting => ~told
    /\ pc \in Finishing \cup {"done"} => told
    /\ told => xentrace \in {"stopping", "dead"}
    /\ AnalysisOnStoppedTrace
    /\ pc = "exited" => xentrace = "none" \/ told
    /\ InterruptOnRecord

LEMMA LauncherInit == Init => LauncherInv
<1>1. Init => interrupts \in 0 .. MaxInterrupts
  BY MaxInterruptsAssumption DEF Init
<1>. QED
  BY <1>1, Zenon
  DEF Init, LauncherInv, TypeOK, Starting, Waiting, Finishing, Gone, InterruptOnRecord,
      AnalysisOnStoppedTrace

LEMMA LauncherStep == LauncherInv /\ [Next]_vars => LauncherInv'
<1>. SUFFICES ASSUME LauncherInv, [Next]_vars PROVE LauncherInv'
  OBVIOUS
<1>. USE DEF LauncherInv, TypeOK, Starting, Waiting, Finishing, Gone, InterruptOnRecord,
             AnalysisOnStoppedTrace, Goto, file, signals, user
<1>1. CASE HandleOptions
  BY <1>1 DEF HandleOptions
<1>2. CASE CheckLog
  BY <1>2 DEF CheckLog
<1>3. CASE BlockSigint
  BY <1>3 DEF BlockSigint
<1>4. CASE InstallHandler
  BY <1>4 DEF InstallHandler
<1>5. CASE ForkXentrace
  BY <1>5 DEF ForkXentrace
<1>6. CASE Sigsuspend
  <2>. pc = "suspend" /\ handled /\ blocked /\ ~told /\ (asked => pending)
    BY <1>6 DEF Sigsuspend
  <2>1. CASE pc' = "kill"
    <3>1. /\ pending' = FALSE
          /\ UNCHANGED <<file, blocked, handled, xentrace, told, analysis, user>>
      BY <1>6, <2>1 DEF Sigsuspend
    <3>. QED
      BY <2>1, <3>1, Zenon
  <2>2. CASE pc' = "paused"
    <3>1. /\ ~pending /\ ~asked /\ blocked' = FALSE
          /\ UNCHANGED <<file, handled, pending, xentrace, told, analysis, user>>
      BY <1>6, <2>2 DEF Sigsuspend
    <3>. QED
      BY <2>2, <3>1, Zenon
  <2>3. CASE pc' = "exited"
    BY <1>6, <2>3 DEF Sigsuspend, Terminate
  <2>4. CASE pc' = "killFailed"
    BY <1>6, <2>4 DEF Sigsuspend
  <2>. QED
    BY <1>6, <2>1, <2>2, <2>3, <2>4 DEF Sigsuspend, Goto
<1>7. CASE KillXentrace
  <2>1. CASE pc' = "unmask"
    BY <1>7, <2>1 DEF KillXentrace, Terminate
  <2>2. CASE pc' = "killFailed"
    BY <1>7, <2>2 DEF KillXentrace
  <2>. QED
    BY <1>7, <2>1, <2>2 DEF KillXentrace
<1>8. CASE Unmask
  BY <1>8 DEF Unmask
<1>9. CASE ForkAnalysis
  BY <1>9 DEF ForkAnalysis
<1>10. CASE Return
  BY <1>10 DEF Return
<1>11. CASE Exit
  BY <1>11 DEF Exit
<1>12. CASE ExecXentrace
  BY <1>12 DEF ExecXentrace
<1>13. CASE XentraceEnds
  BY <1>13 DEF XentraceEnds
<1>14. CASE RunAnalysis
  BY <1>14 DEF RunAnalysis
<1>15. CASE Interrupt
  <2>1. interrupts' \in 0 .. MaxInterrupts
    BY <1>15, MaxInterruptsAssumption DEF Interrupt
  <2>2. CASE blocked
    BY <1>15, <2>1, <2>2 DEF Interrupt
  <2>3. CASE ~blocked /\ ~handled
    BY <1>15, <2>1, <2>3 DEF Interrupt
  <2>4. CASE ~blocked /\ handled /\ pc = "paused"
    BY <1>15, <2>1, <2>4 DEF Interrupt
  <2>5. CASE ~blocked /\ handled /\ pc # "paused"
    BY <1>15, <2>1, <2>5 DEF Interrupt
  <2>. QED
    BY <2>2, <2>3, <2>4, <2>5
<1>16. CASE UNCHANGED vars
  BY <1>16 DEF vars
<1>. QED
  BY <1>1, <1>2, <1>3, <1>4, <1>5, <1>6, <1>7, <1>8, <1>9, <1>10, <1>11, <1>12, <1>13,
     <1>14, <1>15, <1>16 DEF Next, LauncherNext

(* However the launcher ends, xentrace was told to stop or never started.  *)
THEOREM LauncherNoOrphan == Spec => []NoOrphan
<1>1. LauncherInv => NoOrphan
  BY DEF LauncherInv, NoOrphan, Gone, Finishing, Starting, Waiting
<1>. QED
  BY <1>1, LauncherInit, LauncherStep, PTL DEF Spec

(* The analysis only ever runs on the log of an xentrace told to stop.     *)
THEOREM LauncherStopsFirst == Spec => []AnalysisOnStoppedTrace
<1>1. LauncherInv => AnalysisOnStoppedTrace
  BY DEF LauncherInv
<1>. QED
  BY <1>1, LauncherInit, LauncherStep, PTL DEF Spec

(* A Ctrl-C between blocking SIGINT and stopping xentrace is never         *)
(* forgotten: it is pending, or the launcher is about to act on it.        *)
THEOREM LauncherRemembers == Spec => []InterruptOnRecord
<1>1. LauncherInv => InterruptOnRecord
  BY DEF LauncherInv
<1>. QED
  BY <1>1, LauncherInit, LauncherStep, PTL DEF Spec
=============================================================================
