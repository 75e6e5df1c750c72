-------------------------- MODULE MachineIntegers --------------------------
(***************************************************************************)
(* The integer widths the stack computes with and the two-argument minimum *)
(* and maximum it uses everywhere.  Widths are parameters: TLC runs with   *)
(* small ones, so that wrap-around happens within a few steps, and the     *)
(* proofs hold for all of them.                                            *)
(***************************************************************************)
EXTENDS Integers

CONSTANTS
    Mod32,      \* 2^32, the number of values of a Wrap32 (uint32_t)
    Mod64       \* 2^64, the number of values of an absolute number (uint64_t)

ASSUME WidthAssumption ==
    /\ Mod32 \in Nat /\ Mod32 >= 2 /\ Mod32 % 2 = 0
    /\ Mod64 \in Nat /\ Mod64 >= 2 * Mod32 /\ Mod64 % Mod32 = 0

UINT64_MAX == Mod64 - 1

Lesser(a, b)  == IF a <= b THEN a ELSE b        \* std::min
Greater(a, b) == IF a >= b THEN a ELSE b        \* std::max

(***************************************************************************)
(* An empty std::optional (an ISN not yet known, an absent ackno).         *)
(***************************************************************************)
None == -1
=============================================================================
