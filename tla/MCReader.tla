------------------------------ MODULE MCReader ------------------------------
(* Values for the constants of ReaderProperties: see MCReader*.cfg. *)
EXTENDS ReaderProperties, TLC

CONSTANTS c1, c2, h1, h2, h3, h4

MCCpus == {c1, c2}
MCSymmetry == Permutations(MCCpus)

(* Four handlers for three event ids, more ids than slots. *)
MCManyHandlers == h1 :> 1 @@ h2 :> 2 @@ h3 :> 1 @@ h4 :> 3

(* Only the lost-record handler, for records with id 2. *)
MCLostRecOnly == h1 :> 2

(* Logs whose records are in time order but for ties: sorting is checked   *)
(* by itself with EventLog.                                                *)
MCSortedInit == Init /\ \A i, j \in DOMAIN file : i < j => file[i].ns <= file[j].ns

MCSortedSpec == MCSortedInit /\ [][Next]_readerVars
=============================================================================
