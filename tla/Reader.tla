------------------------------- MODULE Reader -------------------------------
(***************************************************************************)
(* src/src/Reader.c with everything it drives: the event log (EventLog),   *)
(* the handler registry (EventHandler) and the per-CPU time windows        *)
(* (CpuList).  A run of an analysis program is                             *)
(*                                                                         *)
(*   reader_init           open -> register                                *)
(*   evh_register_handler  register, once per handler, in any order        *)
(*   reader_loop           init -> (fetch -> handle -> update)* -> fetch   *)
(*                         -> total -> finalize -> exit                    *)
(*   reader_exit           exit -> exited                                  *)
(*                                                                         *)
(* with one step per callback.  Handlers are opaque but for the one effect *)
(* a handler has on the library: those in LostRecHandlers are the          *)
(* lost_records_handler of examples/blk_io_queues, which raises the flag   *)
(* of CpuList after a long gap.                                            *)
(***************************************************************************)
EXTENDS CpuList, EventHandler, FiniteSets

CONSTANTS LostRecHandlers,   \* handlers that call set_last_record_flag
          LostRecMaxTime     \* LOST_REC_MAX_TIME

ASSUME LostRecAssumption == /\ LostRecHandlers \subseteq Handlers
                            /\ LostRecMaxTime \in Nat

VARIABLES pc,          \* where the program is
          cursor,      \* the next callback: position k of the list in slot
          order,       \* history: the handlers in registration order
          calls,       \* history: the callbacks made
          gaps         \* history: indices of the records at which a handler
                       \* raised the lost-record flag

readerVars == <<logVars, cplVars, handlerArray, pc, cursor, order, calls, gaps>>

Init == /\ LogInit
        /\ CplInit
        /\ EvhInit
        /\ pc = "open"
        /\ cursor = [slot |-> 0, k |-> 1]
        /\ order = << >>
        /\ calls = << >>
        /\ gaps = {}

Goto(place) == /\ pc' = place
               /\ cursor' = [slot |-> 0, k |-> 1]

Call(kind, h, index) ==
    /\ calls' = Append(calls, [kind |-> kind, handler |-> h, index |-> index])
    /\ cursor' = [cursor EXCEPT !.k = @ + 1]

-----------------------------------------------------------------------------
(* reader_init; handler_array and the CPU list are set up by Init. *)
OpenLog == /\ pc = "open"
           /\ SortEventsByNs
           /\ Goto("register")
           /\ UNCHANGED <<cplVars, handlerArray, order, calls, gaps>>

(* reader_init, fopen failed: exit(0) *)
OpenFails == /\ pc = "open"
             /\ Goto("stopped")
             /\ UNCHANGED <<logVars, cplVars, handlerArray, order, calls, gaps>>

Register(h) == /\ pc = "register"
               /\ h \notin Range(order)
               /\ EvhRegisterHandler(h)
               /\ order' = Append(order, h)
               /\ UNCHANGED <<logVars, cplVars, pc, cursor, calls, gaps>>

StartLoop == /\ pc = "register"
             /\ Goto("init")
             /\ UNCHANGED <<logVars, cplVars, handlerArray, order, calls, gaps>>

(* evh_call_initializers and evh_call_finalizers: every handler of every   *)
(* slot in use.                                                            *)
Walk(phase, next) ==
    /\ pc = phase
    /\ \/ /\ IsCallback(cursor.slot, cursor.k)
          /\ Call(phase, handlerArray[cursor.slot].handler_list[cursor.k], -1)
          /\ UNCHANGED pc
       \/ /\ InUse(cursor.slot)
          /\ ~IsCallback(cursor.slot, cursor.k)
          /\ cursor' = [slot |-> cursor.slot + 1, k |-> 1]
          /\ UNCHANGED <<pc, calls>>
       \/ /\ ~InUse(cursor.slot)
          /\ Goto(next)
          /\ UNCHANGED calls
    /\ UNCHANGED <<logVars, cplVars, handlerArray, order, gaps>>

CallInitializers == Walk("init", "fetch")

(* mutant: get_total_time moved behind the finalizers *)
FetchThenFinalize ==
    /\ pc = "fetch"
    /\ \/ ReturnNextEvent /\ Goto("handle")
       \/ ReturnNoEvent /\ Goto("finalize")
    /\ UNCHANGED <<cplVars, handlerArray, order, calls, gaps>>

(* The loop's condition !feof(fp) always holds: sort_events_by_ns rewinds  *)
(* the file and then reads no more than its size.                          *)
Fetch == /\ pc = "fetch"
         /\ \/ ReturnNextEvent /\ Goto("handle")
            \/ ReturnNoEvent /\ Goto("total")
         /\ UNCHANGED <<cplVars, handlerArray, order, calls, gaps>>

(* lost_records_handler, examples/blk_io_queues/Lost_records.c:51-67 *)
LongGap(ev) == ev.lastNs # 0 /\ Minus(ev.ns, ev.lastNs) > LostRecMaxTime

(* evh_call_handlers, one callback *)
CallHandler ==
    /\ pc = "handle"
    /\ cursor.k \in DOMAIN CalledFor(event.event_id)
    /\ LET h == CalledFor(event.event_id)[cursor.k]
       IN /\ Call("process", h, eventCount - 1)
          /\ IF h \in LostRecHandlers /\ LongGap(event)
             THEN /\ SetLastRecordFlag
                  /\ gaps' = gaps \cup {eventCount - 1}
             ELSE UNCHANGED <<lostRecFlagGlobal, gaps>>
    /\ UNCHANGED <<logVars, cpuList, avgTotalTime, maxCpuTotalTime,
                   handlerArray, pc, order>>

HandlersReturn == /\ pc = "handle"
                  /\ cursor.k \notin DOMAIN CalledFor(event.event_id)
                  /\ Goto("update")
                  /\ UNCHANGED <<logVars, cplVars, handlerArray, order, calls, gaps>>

Update == /\ pc = "update"
          /\ UpdateCpulist(event)
          /\ Goto("fetch")
          /\ UNCHANGED <<logVars, handlerArray, order, calls, gaps>>

Total == /\ pc = "total"
         /\ GetTotalTime
         /\ Goto("finalize")
         /\ UNCHANGED <<logVars, handlerArray, order, calls, gaps>>

(* get_total_time of an empty log: CpuList.c:89 divides by zero *)
DivideByZero == /\ pc = "total"
                /\ cpuList = << >>
                /\ Goto("crashed")
                /\ UNCHANGED <<logVars, cplVars, handlerArray, order, calls, gaps>>

CallFinalizers == Walk("finalize", "exit")

(* reader_exit frees what nobody uses any more. *)
ReaderExit == /\ pc = "exit"
              /\ Goto("exited")
              /\ UNCHANGED <<logVars, cplVars, handlerArray, order, calls, gaps>>

Terminated == pc \in {"exited", "crashed", "stopped"} /\ UNCHANGED readerVars

Next == \/ OpenLog \/ OpenFails
        \/ \E h \in Handlers : Register(h)
        \/ StartLoop \/ CallInitializers
        \/ Fetch \/ CallHandler \/ HandlersReturn \/ Update
        \/ Total \/ DivideByZero \/ CallFinalizers
        \/ ReaderExit
        \/ Terminated

(* One thread runs the program to its end. *)
Spec == Init /\ [][Next]_readerVars /\ WF_readerVars(Next)
=============================================================================
