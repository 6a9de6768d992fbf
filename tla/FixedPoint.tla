----------------------------- MODULE FixedPoint -----------------------------
(***************************************************************************)
(* The I80F48 arithmetic of the program, on integers.                      *)
(*                                                                         *)
(* A fixed-point number is the integer number of its smallest units: ONE   *)
(* units make 1.0 (2^48 in the build, a small number in the models, every  *)
(* positive number in the proofs).  Multiplication and division drop the   *)
(* fraction of a unit, which is where every rounding artifact of the       *)
(* accounting comes from.  The 80 integer bits are never exhausted by the  *)
(* amounts considered, so overflow is not modelled.                        *)
(***************************************************************************)
EXTENDS Integers

CONSTANTS ONE,                   \* units in 1.0
          ZERO_AMOUNT_THRESHOLD  \* 0.0001 in the build, in units

ASSUME OneAssumption == ONE \in Nat \ {0}
ASSUME ThresholdAssumption == /\ ZERO_AMOUNT_THRESHOLD \in Nat \ {0}
                              /\ ZERO_AMOUNT_THRESHOLD <= ONE

\* checked_mul and checked_div.  A caller divides by a positive number only;
\* where the code can divide by zero the action has the guard that it does not.
Mul(x, y) == (x * y) \div ONE
Div(x, y) == (x * ONE) \div y

\* The whole tokens in an amount: checked_floor / int, and checked_ceil.
FloorTokens(x) == x \div ONE
CeilTokens(x) == (x + ONE - 1) \div ONE

Least(x, y) == IF x <= y THEN x ELSE y
Greatest(x, y) == IF x >= y THEN x ELSE y

\* A balance of fewer shares than this counts as none.
EMPTY_BALANCE_THRESHOLD == ONE

IsZeroWithTolerance(x) == -ZERO_AMOUNT_THRESHOLD < x /\ x < ZERO_AMOUNT_THRESHOLD
IsPositiveWithTolerance(x) == x > ZERO_AMOUNT_THRESHOLD
=============================================================================
