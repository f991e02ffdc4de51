---------------------------- MODULE SerialNumbers ----------------------------
(***************************************************************************)
(* The 16 bit sequence numbers of the intercom protocol and the two        *)
(* comparisons of src/src/bluetooth.c, for any even modulus (2^16 there,   *)
(* where the comparisons test the difference against 0x8000).              *)
(***************************************************************************)
EXTENDS Naturals

CONSTANT Half     \* 0x8000, half of the numbers there are

ASSUME HalfAssumption == Half \in Nat \ {0}

Modulus == 2 * Half
Sequences == 0 .. (Modulus - 1)

\* (uint16_t)(a - b)
Delta(a, b) == IF a >= b THEN a - b ELSE a + Modulus - b

IsNewer(sequence, previous) ==
  Delta(sequence, previous) # 0 /\ Delta(sequence, previous) < Half

IsStale(sequence, previous) ==
  Delta(previous, sequence) # 0 /\ Delta(previous, sequence) < Half

\* The number k steps after a, for k up to the modulus.
After(a, k) == IF a + k < Modulus THEN a + k ELSE a + k - Modulus
=============================================================================
