-------------------------------- MODULE Amm --------------------------------
(***************************************************************************)
(* simulation/src/amm.rs: what a pool gives for an amount.  The code works *)
(* in f64; here amounts are whole numbers of a small unit, and a quotient  *)
(* is rounded down.                                                        *)
(***************************************************************************)
EXTENDS Integers

CONSTANTS
  FeeUnit,       \* fee units in one; 10,000 basis points in the code
  NewtonSteps,   \* bound on the iterations for D and y; 256 in the code
  Precision      \* of which one part is close enough; 10^8 in the code

ASSUME AmmAssumption ==
  FeeUnit \in Nat \ {0} /\ NewtonSteps \in Nat \ {0} /\ Precision \in Nat \ {0}

(* AmmPool; n_tokens is 2 wherever one is built. *)
AmmPool == [in : Nat, out : Nat, fee : 0 .. FeeUnit, amp : Nat]

(* What f64 division makes of 0/0.  Every comparison with it is false. *)
NaN == -999999999
AtMost(p, q) == p # NaN /\ p <= q
Above(p, q) == p # NaN /\ p > q
Below(p, q) == p # NaN /\ q # NaN /\ p < q

Idle(pool, x) == AtMost(x, 0) \/ pool.in <= 0 \/ pool.out <= 0

(* Variant for mutation: the fee is missing above the fraction. *)
GetOutputFeeBelow(pool, x) ==
  IF Idle(pool, x) THEN 0
  ELSE (pool.out * x) \div (pool.in + x - (x * pool.fee) \div FeeUnit)

(* Constant product, the fee taken from what goes in. *)
GetOutput(pool, x) ==
  IF Idle(pool, x) THEN 0
  ELSE LET effective == x * (FeeUnit - pool.fee)
       IN (pool.out * effective) \div (pool.in * FeeUnit + effective)

-----------------------------------------------------------------------------
(* StableSwap, by Newton's method: an iterate and whether it has settled,  *)
(* which is relative to its size.  A whole number may also become 0, where *)
(* an f64 is small, and stays there.                                       *)
Close(a, b) == a = 0 \/ a - b \in -(a \div Precision) .. a \div Precision

NewtonD(ann, sum, a, b, d) ==
  LET prod == (((d * d) \div (2 * a)) * d) \div (2 * b)
  IN ((ann * sum + 2 * prod) * d) \div ((ann - 1) * d + 3 * prod)

ComputeD(amp, a, b) ==
  LET at[k \in 0 .. NewtonSteps] ==
        IF k = 0 THEN [value |-> a + b, settled |-> FALSE]
        ELSE LET last == at[k - 1]
                 next == NewtonD(4 * amp, a + b, a, b, last.value)
             IN IF last.settled THEN last
                ELSE [value |-> next, settled |-> Close(next, last.value)]
  IN at[NewtonSteps].value

(* d * q / m rounded down once, by way of numbers TLC can hold. *)
Share(d, q, m) == d * (q \div m) + (d * (q % m)) \div m

(* c is d^3 / (4 newIn ann): what is rounded is the last quotient. *)
ComputeY(amp, newIn, d) ==
  LET ann == 4 * amp
      b == newIn + d \div ann
      c == Share(d, d * d, 4 * newIn) \div ann
      at[k \in 0 .. NewtonSteps] ==
        IF k = 0 THEN [value |-> d, settled |-> FALSE]
        ELSE LET last == at[k - 1]
                 next == (last.value * last.value + c) \div (2 * last.value + b - d)
             IN IF last.settled THEN last
                ELSE [value |-> next, settled |-> Close(next, last.value)]
  IN at[NewtonSteps].value

(* Variant for mutation: without the unit. *)
GetOutputStableWhole(pool, x) ==
  IF Idle(pool, x) THEN 0
  ELSE IF pool.amp = 0 \/ x = NaN THEN NaN
  ELSE LET raw == pool.out - ComputeY(pool.amp, pool.in + x, ComputeD(pool.amp, pool.in, pool.out))
       IN IF raw <= 0 THEN 0 ELSE raw - (raw * pool.fee) \div FeeUnit

(* The fee is taken from what comes out, less one unit.  Without an        *)
(* amplification coefficient b and c are infinite, and y is not a number.  *)
GetOutputStable(pool, x) ==
  IF Idle(pool, x) THEN 0
  ELSE IF pool.amp = 0 \/ x = NaN THEN NaN
  ELSE LET raw == pool.out - ComputeY(pool.amp, pool.in + x, ComputeD(pool.amp, pool.in, pool.out)) - 1
       IN IF raw <= 0 THEN 0 ELSE raw - (raw * pool.fee) \div FeeUnit

-----------------------------------------------------------------------------
(* The pool after a swap of x for y, seen from the other side.             *)
Reversed(pool, x, y) == [pool EXCEPT !.in = pool.out - y, !.out = pool.in + x]
=============================================================================
