---------------------------- MODULE EventStream ----------------------------
(***************************************************************************)
(* What the event reader promises its callers: every record of the log is  *)
(* handed out exactly once, an earlier record (by its nanosecond stamp)    *)
(* before a later one, and only then does the reader report the end.       *)
(* EventLog, the translation of src/src/Event.c, is checked and proved to  *)
(* implement this specification.                                           *)
(***************************************************************************)
EXTENDS Naturals

CONSTANTS Records,     \* every record a log can hold; each has a field ns
          NoRecord     \* nothing was handed out yet

VARIABLES todo,        \* the records of the log not handed out yet
          given,       \* the record handed out last
          over         \* the end of the log has been reported

streamVars == <<todo, given, over>>

StreamInit == /\ todo \in SUBSET Records
              /\ given = NoRecord
              /\ over = FALSE

(* Records with the same stamp may come in either order. *)
Give == /\ \E r \in todo :
             /\ \A s \in todo : r.ns <= s.ns
             /\ todo' = todo \ {r}
             /\ given' = r
        /\ UNCHANGED over

Finish == /\ todo = {}
          /\ over' = TRUE
          /\ UNCHANGED <<todo, given>>

StreamNext == Give \/ Finish

Stream == StreamInit /\ [][StreamNext]_streamVars
=============================================================================
