----------------------------- MODULE KeyedList -----------------------------
(***************************************************************************)
(* The linked lists in which the analyses keep an entry per CPU, domain or *)
(* VCPU: a handler walks the list to the entry with the key it looks for,  *)
(* and appends an entry if there is none.  No two entries have one key and *)
(* the order says nothing, so a list is a function from keys to entries;   *)
(* so is the std::map of the histogram.                                    *)
(***************************************************************************)

(* The list with this entry for the key, changed or, with list_add_tail,   *)
(* new                                                                     *)
Put(list, key, entry) ==
    [k \in DOMAIN list \cup {key} |-> IF k = key THEN entry ELSE list[k]]
=============================================================================
