---------------------------- MODULE MCXenDomTime ----------------------------
(* Values for the constants of XenDomTime: see MCXenDomTime.cfg. *)
EXTENDS XenDomTime, TLC

CONSTANTS c1, c2

MCEventIds == {ExitToXen(dom) : dom \in Doms} \cup {ExitToGuest(dom) : dom \in Doms}
                \cup {LostRecords, Other}

(* Only differences of stamps matter: the first record has the first one.  *)
(* CPUs have no data in common: a fifth record is an exit in a log with    *)
(* exits of its CPU only.                                                  *)
MCNext == /\ Next
          /\ index' = 1 => event'.ns = 1
          /\ index' = 5 => /\ event'.event_id \notin {LostRecords, Other}
                           /\ \A c \in Cpus \ {event'.cpu} : seen[c] = << >>
MCSpec == Init /\ [][MCNext]_timeVars

MCSymmetry == Permutations({c1, c2})
=============================================================================
