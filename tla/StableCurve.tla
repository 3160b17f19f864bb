---------------------------- MODULE StableCurve ----------------------------
(***************************************************************************)
(* The curve solver of the stableswap pools (stableswap/curve.rs): decimal *)
(* scaling, and the two Newton iterations get_d and get_y.                 *)
(*                                                                         *)
(* An iteration is a function of the number of the pass and the iterate;   *)
(* where the code leaves the loop with the iterate it has, the step        *)
(* returns that iterate, which ends the iteration for any threshold.       *)
(***************************************************************************)
EXTENDS Integers

CONSTANTS
    MaxWord,            \* the largest u128
    NewtonMaxIters      \* NEWTON_MAX_ITERS

ASSUME CurveAssumption == MaxWord \in Nat \ {0} /\ NewtonMaxIters \in Nat \ {0}

N_TOKENS == 2

(* saturating_add, saturating_mul, saturating_sub and abs_diff.            *)
Plus(m, n) == IF m > MaxWord - n THEN MaxWord ELSE m + n
Times(m, n) == IF n # 0 /\ m > MaxWord \div n THEN MaxWord ELSE m * n
Minus(m, n) == IF n \in 0 .. m THEN m - n ELSE 0
Distance(m, n) == IF m > n THEN m - n ELSE n - m

(* One amount of scale_up and of scale_down: an amount of `own` decimals,  *)
(* the other token having `other`, to the larger of the two and back.      *)
ScaledUp(n, own, other) == Times(n, 10 ^ Minus(other, own))
ScaledDown(n, own, other) == n \div (10 ^ Minus(other, own))

Newton(Step(_), start, threshold) ==
    LET pass[k \in 1 .. NewtonMaxIters, v \in Nat] ==
            LET w == Step(v)
            IN  IF k = NewtonMaxIters \/ Distance(w, v) <= threshold THEN w ELSE pass[k + 1, w]
    IN  pass[1, start]

get_d(x_bal, y_bal, amp, threshold) ==
    LET an == Times(amp, N_TOKENS)
        s == Plus(x_bal, y_bal)
        Step(d) ==
            LET d_part_x == Times(d, d) \div Times(N_TOKENS, x_bal)
                d_part == Times(d, d_part_x) \div Times(N_TOKENS, y_bal)
                numer == Times(Plus(Times(an, s), Times(N_TOKENS, d_part)), d)
                denom == Plus(Times(an - 1, d), Times(N_TOKENS + 1, d_part))
            IN  IF denom = 0 THEN d ELSE numer \div denom
    IN  IF 0 \in {x_bal, y_bal, amp} THEN 0 ELSE Newton(Step, s, threshold)

get_y(x_amount, x_bal, y_bal, amp, threshold) ==
    LET an == Times(amp, N_TOKENS)
        updated_x == Plus(x_bal, x_amount)
        d == get_d(x_bal, y_bal, amp, threshold)
        c == Times(Times(d, d) \div Times(N_TOKENS, updated_x), d) \div Times(an, N_TOKENS)
        b == Plus(updated_x, d \div an)
        Step(y) ==
            LET y_den == Plus(Times(N_TOKENS, y), b) - d
            IN  IF y_den <= 0 THEN y ELSE Plus(Times(y, y), c) \div y_den
    IN  IF 0 \in {x_bal, y_bal, amp} THEN 0 ELSE Newton(Step, d, threshold)

-----------------------------------------------------------------------------
(* The curve without an iteration: a whole d is held by the reserves x, y  *)
(* when amp * 2 * (x + y) + d >= amp * 2 * d + d^3 / (4xy), which is what  *)
(* the code solves for (its A n for the A n^n of curve.rs:9); Level is the *)
(* largest such d, found by halving.                                       *)
Holds(x, y, amp, d) ==
    d * d * d + 4 * x * y * ((2 * amp - 1) * d - 2 * amp * (x + y)) <= 0

Level(x, y, amp) ==
    LET root[lo \in Nat, hi \in Nat] ==
            LET mid == (lo + hi) \div 2
            IN  IF hi - lo <= 1 THEN lo
                ELSE IF Holds(x, y, amp, mid) THEN root[mid, hi] ELSE root[lo, mid]
    IN  IF x = 0 \/ y = 0 THEN 0 ELSE root[0, x + y + 1]
=============================================================================
