----------------------------- MODULE WaitQueues -----------------------------
(***************************************************************************)
(* The wait times of examples/blk_io_queues: how long a request or a       *)
(* response interrupt that was sent waits until it is received.  The send  *)
(* and receive handlers of a channel share one WaitData (Wait_state.c).    *)
(* MSG_UNKNOWN and its state are never used: a lost record changes nothing *)
(* here.                                                                   *)
(***************************************************************************)
EXTENDS EventFeed, UnsignedTime, Sequences, FiniteSetsExt

CONSTANT Channels        \* BackRQWait, BackRespWait

IsInterrupt(id) == id \in Channels \X {"SENT", "RECEIVED"}

VARIABLES wdat,          \* the WaitData of each channel
          ended,         \* the log ended
          freed,         \* channels whose finalizer ran
          dat,           \* the .dat file of each channel: its samples
          heard          \* history: the interrupts of each channel

wqVars == <<feedVars, wdat, ended, freed, dat, heard>>

Init == /\ FeedInit
        /\ wdat = [ch \in Channels |-> [state |-> "INIT", lastNs |-> 0, totalWaitTime |-> 0]]
        /\ ended = FALSE
        /\ freed = {}
        /\ dat = [ch \in Channels |-> << >>]
        /\ heard = [ch \in Channels |-> << >>]

-----------------------------------------------------------------------------
(* mutant: a repeated interrupt restarts the clock *)
RepeatRestarts(w, msg, ev) ==
    [state |-> msg, lastNs |-> ev.ns,
     totalWaitTime |-> IF w.state = "SENT" /\ msg = "RECEIVED"
                       THEN Plus(w.totalWaitTime, Minus(ev.ns, w.lastNs))
                       ELSE w.totalWaitTime]

(* mutant: the end of a wait does not move the stamp on *)
KeepsLastNs(w, msg, ev) ==
    IF w.state = msg THEN w
    ELSE [state |-> msg, lastNs |-> IF w.state = "SENT" THEN w.lastNs ELSE ev.ns,
          totalWaitTime |-> IF w.state = "SENT"
                            THEN Plus(w.totalWaitTime, Minus(ev.ns, w.lastNs))
                            ELSE w.totalWaitTime]

(* wait_update_state: the first interrupt and every change of direction    *)
(* count, and a change from sent to received ends a wait.                  *)
WaitUpdateState(w, msg, ev) ==
    IF w.state = msg THEN w
    ELSE [state |-> msg, lastNs |-> ev.ns,
          totalWaitTime |-> IF w.state = "SENT"
                            THEN Plus(w.totalWaitTime, Minus(ev.ns, w.lastNs))
                            ELSE w.totalWaitTime]

Update(ch, msg) ==
    /\ wdat' = [wdat EXCEPT ![ch] = WaitUpdateState(@, msg, event')]
    /\ heard' = [heard EXCEPT ![ch] = Append(@, [msg |-> msg, ns |-> event'.ns])]

SentHandler(ch) == Update(ch, "SENT") /\ UNCHANGED dat

(* mutant: a sample is written for the first wait only *)
WritesFirst(ch) ==
    /\ Update(ch, "RECEIVED")
    /\ LET wTime == Minus(wdat'[ch].totalWaitTime, wdat[ch].totalWaitTime)
       IN dat' = IF wTime = 0 \/ dat[ch] # << >> THEN dat
                 ELSE [dat EXCEPT ![ch] = Append(@, wTime)]

(* Only received interrupts write the time wait_update_state returns. *)
ReceivedHandler(ch) ==
    /\ Update(ch, "RECEIVED")
    /\ LET wTime == Minus(wdat'[ch].totalWaitTime, wdat[ch].totalWaitTime)
       IN dat' = IF wTime = 0 THEN dat ELSE [dat EXCEPT ![ch] = Append(@, wTime)]

Record(cpu, id, ns) ==
    /\ ~ended
    /\ Feed(cpu, id, ns)
    /\ \/ \E ch \in Channels : id = <<ch, "SENT">> /\ SentHandler(ch)
       \/ \E ch \in Channels : id = <<ch, "RECEIVED">> /\ ReceivedHandler(ch)
       \/ ~IsInterrupt(id) /\ UNCHANGED <<wdat, dat, heard>>
    /\ UNCHANGED <<ended, freed>>

EndOfLog == /\ ~ended
            /\ ended' = TRUE
            /\ UNCHANGED <<feedVars, wdat, freed, dat, heard>>

(* The finalizer of the received interrupts prints and frees. *)
Finalize(ch) == /\ ended /\ ch \notin freed
                /\ freed' = freed \cup {ch}
                /\ UNCHANGED <<feedVars, wdat, ended, dat, heard>>

Next == \/ \E cpu \in Cpus, id \in EventIds, ns \in 1 .. MaxNs : Record(cpu, id, ns)
        \/ EndOfLog
        \/ \E ch \in Channels : Finalize(ch)

Spec == Init /\ [][Next]_wqVars

-----------------------------------------------------------------------------
TypeOK ==
    /\ FeedTypeOK
    /\ wdat \in [Channels -> [state : {"INIT", "SENT", "RECEIVED"}, lastNs : 0 .. MaxNs,
                              totalWaitTime : Times]]
    /\ ended \in BOOLEAN
    /\ freed \subseteq Channels
    /\ dat \in [Channels -> Seq(Times)]

(* An interrupt is outstanding at unit [u, u+1) if one was sent by then    *)
(* and the next one received came later.                                   *)
Outstanding(ch, u) ==
    \E i, j \in DOMAIN heard[ch] :
      /\ i < j /\ heard[ch][i].ns <= u /\ u < heard[ch][j].ns
      /\ heard[ch][i].msg = "SENT" /\ heard[ch][j].msg = "RECEIVED"
      /\ \A k \in i+1 .. j-1 : heard[ch][k].msg = "SENT"

(* The printed wait time is the time during which an interrupt that was    *)
(* answered was outstanding: however interrupts repeat or are missing from *)
(* the log, no moment counts twice and none is left out.                   *)
WaitsExact ==
    \A ch \in Channels :
      wdat[ch].totalWaitTime = Cardinality({u \in 1 .. MaxNs : Outstanding(ch, u)})

(* The .dat file, from which histograms are drawn, has all the time that   *)
(* is printed.                                                             *)
SamplesAgree ==
    \A ch \in Channels : wdat[ch].totalWaitTime = SumFunction(dat[ch]) % NsModulus

(* A wait is counted once: interrupts that repeat or are missing do not    *)
(* make a moment of a channel count twice.                                 *)
Ledger == INSTANCE TimeLedger
            WITH Meters <- Channels,
                 now <- IF event = NoEvent THEN 0 ELSE event.ns,
                 ledger <- [ch \in {c \in Channels : heard[c] # << >>} |->
                              [since |-> heard[ch][1].ns,
                               upto |-> wdat[ch].lastNs,
                               counted |-> wdat[ch].totalWaitTime]]

ImplementsLedger == Ledger!Spec
=============================================================================
