------------------------------ MODULE MachineInts ------------------------------
(* Go's int and time.Duration: two's complement integers of a fixed width. *)
EXTENDS Integers

CONSTANT MaxInt     \* math.MaxInt64, and math.MaxInt

ASSUME MaxIntAssumption == MaxInt \in Nat \ {0}

MinInt == -MaxInt - 1

\* What the machine keeps of an exact sum or product.
Wrap(x) == ((x - MinInt) % (2 * (MaxInt + 1))) + MinInt
================================================================================
