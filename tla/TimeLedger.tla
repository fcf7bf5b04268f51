----------------------------- MODULE TimeLedger -----------------------------
(***************************************************************************)
(* What the time analyses promise of the time they print: a moment of a    *)
(* CPU, or of an interrupt channel, is counted at most once.  Each CPU or  *)
(* channel is a meter.  It opens with the first record about it, and from  *)
(* then on settles its time piece by piece, in order: a piece is counted   *)
(* or skipped, and never looked at again.  Records may be missing, double  *)
(* or contradictory; what of it is counted, this specification leaves open *)
(* and the analyses decide.                                                *)
(***************************************************************************)
EXTENDS Integers

CONSTANT Meters

VARIABLES now,           \* the stamp of the last record
          ledger         \* per open meter: open since when, settled up to
                         \* when, and the time counted so far

ledgerVars == <<now, ledger>>

Init == now = 0 /\ ledger = << >>

Open(m) ==
    /\ m \notin DOMAIN ledger
    /\ ledger' = [x \in DOMAIN ledger \cup {m} |->
                    IF x = m THEN [since |-> now', upto |-> now', counted |-> 0]
                             ELSE ledger[x]]

(* Count the time from some moment not settled yet to a later one. *)
Count(m) ==
    /\ m \in DOMAIN ledger
    /\ \E from \in ledger[m].upto .. now' : \E to \in from .. now' :
         ledger' = [ledger EXCEPT ![m] = [since |-> @.since, upto |-> to,
                                          counted |-> @.counted + (to - from)]]

(* The data collected is thrown away. *)
Reset == ledger' = << >>

Next == /\ now' \in Nat /\ now' >= now
        /\ \/ \E m \in Meters : Open(m) \/ Count(m)
           \/ Reset
           \/ UNCHANGED ledger

Spec == Init /\ [][Next]_ledgerVars

-----------------------------------------------------------------------------
(* No moment is counted twice, and none before the first record or after   *)
(* the last: the time counted fits in the time observed.                   *)
CountedOnce ==
    \A m \in DOMAIN ledger :
      /\ ledger[m].counted >= 0
      /\ ledger[m].counted <= ledger[m].upto - ledger[m].since
      /\ ledger[m].upto <= now
=============================================================================
