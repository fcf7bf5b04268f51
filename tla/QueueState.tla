----------------------------- MODULE QueueState -----------------------------
(***************************************************************************)
(* examples/blk_io_queues/Queue_state.c: how long a block I/O queue was    *)
(* blocked and unblocked, told from the messages Q_BLOCKED, Q_UNBLOCKED    *)
(* and LOST_REC.  The functions of the C file that update a QueueState are *)
(* operators that return the updated record; the time they return is what  *)
(* they add to totalTime.                                                  *)
(***************************************************************************)
EXTENDS UnsignedTime

CONSTANT NoCpu           \* cpus of a queue that got no message yet, -1

Messages == {"Q_BLOCKED", "Q_UNBLOCKED", "LOST_REC"}

(* mutant: cpus left as malloc returned it *)
CpuNotSet == [cpus |-> -2, state |-> "INIT", lastNs |-> 0,
              totalBlockedTime |-> 0, totalUnblockedTime |-> 0, totalTime |-> 0]

(* queue_init_state *)
InitState == [cpus |-> NoCpu, state |-> "INIT", lastNs |-> 0,
              totalBlockedTime |-> 0, totalUnblockedTime |-> 0, totalTime |-> 0]

StateAfter(msg) == CASE msg = "Q_BLOCKED" -> "BLOCKED"
                     [] msg = "Q_UNBLOCKED" -> "UNBLOCKED"
                     [] msg = "LOST_REC" -> "UNKNOWN"

(* mutant: totalTime not updated when the queue unblocks *)
EnterNoTotal(qst, state, ev, blocked, unblocked) ==
    [qst EXCEPT !.state = state, !.lastNs = ev.ns,
                !.totalBlockedTime = Plus(@, blocked),
                !.totalUnblockedTime = Plus(@, unblocked),
                !.totalTime = Plus(@, unblocked)]

(* Enter a state at the time of ev, after time spent blocked or not. *)
Enter(qst, state, ev, blocked, unblocked) ==
    [qst EXCEPT !.state = state, !.lastNs = ev.ns,
                !.totalBlockedTime = Plus(@, blocked),
                !.totalUnblockedTime = Plus(@, unblocked),
                !.totalTime = Plus(@, Plus(blocked, unblocked))]

(* queue_update_state_init; the CPU of a queue is that of the message that *)
(* takes it out of INIT, and none if that is a lost record.                *)
UpdateInit(qst, msg, ev) ==
    [qst EXCEPT !.state = StateAfter(msg), !.lastNs = ev.ns,
                !.cpus = IF msg = "LOST_REC" THEN @ ELSE ev.cpu]

(* mutant: a repeated message restarts the clock *)
RepeatRestarts(qst, msg, ev, before) ==
    IF StateAfter(msg) = qst.state THEN [qst EXCEPT !.lastNs = ev.ns]
    ELSE IF qst.state = "BLOCKED"
         THEN Enter(qst, StateAfter(msg), ev, Minus(ev.ns, qst.lastNs), 0)
         ELSE Enter(qst, StateAfter(msg), ev, 0, Minus(ev.ns, qst.lastNs))

(* queue_update_state_blocked and _unblocked.  Only a lost record of the   *)
(* queue's CPU counts; the time up to it is taken from before, the answer  *)
(* of get_ev_before_lost_records_ns, and is dropped if that is 0.          *)
UpdateKnown(qst, msg, ev, before) ==
    LET spent == IF msg # "LOST_REC" THEN Minus(ev.ns, qst.lastNs)
                 ELSE IF before # 0 THEN Minus(before, qst.lastNs) ELSE 0
    IN IF StateAfter(msg) = qst.state \/ (msg = "LOST_REC" /\ ev.cpu # qst.cpus)
       THEN qst
       ELSE IF qst.state = "BLOCKED" THEN Enter(qst, StateAfter(msg), ev, spent, 0)
                                     ELSE Enter(qst, StateAfter(msg), ev, 0, spent)

(* queue_update_state_unknown: the queue is taken to have been in the      *)
(* other state since the lost record.                                      *)
UpdateUnknown(qst, msg, ev) ==
    CASE msg = "Q_BLOCKED" -> Enter(qst, "BLOCKED", ev, 0, Minus(ev.ns, qst.lastNs))
      [] msg = "Q_UNBLOCKED" -> Enter(qst, "UNBLOCKED", ev, Minus(ev.ns, qst.lastNs), 0)
      [] msg = "LOST_REC" -> IF ev.cpu = qst.cpus THEN Enter(qst, "UNKNOWN", ev, 0, 0)
                                                  ELSE qst

(* queue_update_state of a queue that was not freed *)
UpdateState(qst, msg, ev, before) ==
    CASE qst.state = "INIT" -> UpdateInit(qst, msg, ev)
      [] qst.state \in {"BLOCKED", "UNBLOCKED"} -> UpdateKnown(qst, msg, ev, before)
      [] qst.state = "UNKNOWN" -> UpdateUnknown(qst, msg, ev)

(* The time queue_update_state returns *)
TimeReturned(qst, updated) == Minus(updated.totalTime, qst.totalTime)
=============================================================================
