-------------------------- MODULE WrappingIntegers -------------------------
(***************************************************************************)
(* Wrap32 (src/src/wrapping_integers): 32-bit sequence numbers that start  *)
(* at an arbitrary zero point, and their translation to and from 64-bit    *)
(* absolute sequence numbers.  Every use keeps the machine width.          *)
(***************************************************************************)
EXTENDS MachineIntegers

Wrap32 == 0 .. Mod32 - 1

(***************************************************************************)
(* Definitions named Bug... are plausible mistakes in the code.  Nothing   *)
(* uses them: each shows, put in place of the definition that follows it,  *)
(* that a property really depends on that definition.                      *)
(***************************************************************************)
BugWrapSaturates(n, zero_point) == Lesser(zero_point + n, Mod32 - 1)

(***************************************************************************)
(* Wrap32::wrap: the addition is on uint32_t.                              *)
(***************************************************************************)
Wrap(n, zero_point) == (zero_point + n) % Mod32

(***************************************************************************)
(* int32_t offset: the distance from the wrapped checkpoint to the number, *)
(* computed on uint32_t and read back as a signed value.                   *)
(***************************************************************************)
Offset(raw, zero_point, checkpoint) ==
    LET distance == (raw - Wrap(checkpoint, zero_point)) % Mod32
    IN  IF distance < Mod32 \div 2 THEN distance ELSE distance - Mod32

BugUnwrapAbove(raw, zero_point, checkpoint) ==
    (checkpoint + ((raw - Wrap(checkpoint, zero_point)) % Mod32)) % Mod64

AsInt64(n) == IF n < Mod64 \div 2 THEN n ELSE n - Mod64

(***************************************************************************)
(* Wrap32::unwrap: checkpoint + offset on uint64_t, stored as an int64_t,  *)
(* and moved up by 2^32 when that is negative.                             *)
(***************************************************************************)
Unwrap(raw, zero_point, checkpoint) ==
    LET absseq == AsInt64((checkpoint + Offset(raw, zero_point, checkpoint)) % Mod64)
    IN  IF absseq < 0 THEN (absseq + Mod32) % Mod64 ELSE absseq
=============================================================================
