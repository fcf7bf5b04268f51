---------------------------- MODULE UnsignedTime ----------------------------
(***************************************************************************)
(* Nanosecond arithmetic of the C code: stamps, durations and their sums   *)
(* are unsigned long long, so they wrap at NsModulus, 2^64.                *)
(***************************************************************************)
EXTENDS Integers

CONSTANT NsModulus       \* 2^64; a small value above the largest stamp for TLC

ASSUME NsModulusAssumption == NsModulus \in Nat \ {0}

Times == 0 .. NsModulus - 1

Plus(a, b) == (a + b) % NsModulus
Minus(a, b) == (a - b) % NsModulus
=============================================================================
