-------------------------------- MODULE Abi --------------------------------
(***************************************************************************)
(* Component A: the build (host) and target word sizes and byte orders the *)
(* boot image writer is compiled for, and the arithmetic helpers it uses   *)
(* everywhere: ceiling, the "while (x % n) ++x" alignment loops, and the   *)
(* byte encodings that the TARGET_V* swaps translate between.             *)
(***************************************************************************)
EXTENDS Integers, Sequences

CONSTANTS
  BytesPerWord,        \* host word size in bytes (4 or 8)
  TargetBytesPerWord,  \* target word size in bytes (4 or 8)
  HostLittleEndian,    \* byte order of the build host
  TargetLittleEndian   \* byte order of the target

ASSUME BytesPerWord \in {4, 8}
ASSUME TargetBytesPerWord \in {4, 8}
ASSUME HostLittleEndian \in BOOLEAN /\ TargetLittleEndian \in BOOLEAN

TargetBitsPerWord == TargetBytesPerWord * 8

(* ceiling(n, d) of common.h: the number of d-sized units that hold n.     *)
ceiling(n, d) == (n + d - 1) \div d

(* The loop "while (x % n) ++x": x rounded up to a multiple of n.          *)
AlignUp(x, n) == IF x % n = 0 THEN x ELSE x + (n - (x % n))

(* x | y on naturals, one bit at a time from the low end.                  *)
RECURSIVE BitOr(_, _)
BitOr(x, y) ==
  IF x = 0 THEN y
  ELSE IF y = 0 THEN x
  ELSE 2 * BitOr(x \div 2, y \div 2) + (IF x % 2 = 1 \/ y % 2 = 1 THEN 1 ELSE 0)

(* The n bytes of the natural v in memory, lowest address first.           *)
Encode(v, n, little) ==
  [i \in 1..n |-> (v \div 2^(8 * (IF little THEN i - 1 ELSE n - i))) % 256]

(* The natural held by the byte sequence b read in the given byte order.   *)
Decode(b, little) ==
  LET n == Len(b)
      RECURSIVE Acc(_)
      Acc(i) == IF i = 0 THEN 0
                ELSE Acc(i - 1) + b[i] * 2^(8 * (IF little THEN i - 1 ELSE n - i))
  IN Acc(n)

(* TARGET_V2/V4/V8: the host value of n bytes re-encoded in target order. *)
TargetV(hostBytes) == Encode(Decode(hostBytes, HostLittleEndian),
                             Len(hostBytes), TargetLittleEndian)
=============================================================================
