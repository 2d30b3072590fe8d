------------------------------- MODULE KxoFixed -------------------------------
(***************************************************************************)
(* The fixed-point arithmetic of the MCTS agent (src/mcts.c), for words of *)
(* 2 * FIXED_SCALE_BITS bits (32 in the program), and the score by which   *)
(* it chooses where to go on: uct_score, of a child visited n_visits times *)
(* below a node visited n_total times.                                     *)
(***************************************************************************)
EXTENDS Integers

CONSTANT FIXED_SCALE_BITS         (* 16 in the program                     *)

ASSUME FixedAssumption == FIXED_SCALE_BITS \in Nat \ {0}

ONE == 2 ^ FIXED_SCALE_BITS
SIGN == 2 ^ (2 * FIXED_SCALE_BITS - 1)
FIXED_MAX == 2 * SIGN - 1
Word(x) == x % (2 * SIGN)                 (* a fixed_point_t               *)
Down(x) == x \div ONE                     (* x >> FIXED_SCALE_BITS         *)
TopBit(x) == CHOOSE i \in 0 .. 2 * FIXED_SCALE_BITS : 2 ^ i <= x /\ x < 2 ^ (i + 1)

(* Bit by bit from the highest bit of x, of which there are Bits(x).       *)
Bits(x) == TopBit(x) + 1
fixed_sqrt(x) ==
  LET s[k \in Nat] ==                     \* after the bits down to the k-th
        IF k = Bits(x) THEN 0
        ELSE LET above == s[k + 1]
             IN  IF Down((above + 2 ^ k) ^ 2) <= x THEN above + 2 ^ k ELSE above
  IN  IF x \in {0, ONE} THEN x ELSE s[0]

(* Twice the first ten terms of the series of artanh at y, y ^ i / i with  *)
(* every product cut.  The sign bit of the difference is taken for a minus *)
(* and set in the answer.                                                  *)
fixed_log(v) ==
  LET less == Word(v - ONE) >= SIGN
      numerator == IF less THEN SIGN - (Word(v - ONE) - SIGN) ELSE v - ONE
      y == Word((numerator * ONE) \div (v + ONE))
      power[i \in Nat] == IF i = 0 THEN ONE ELSE Word(Down(power[i - 1] * y))
      sum[k \in Nat] == IF k = 0 THEN 0 ELSE Word(sum[k - 1] + power[2 * k - 1] \div (2 * k - 1))
      twice == Word(2 * sum[10])
  IN  IF v \in {0, ONE} THEN 0
      ELSE IF less /\ twice < SIGN THEN twice + SIGN ELSE twice

EXPLORATION_FACTOR == fixed_sqrt(2 * ONE)

LogOf(n_total) == fixed_log(IF n_total < ONE THEN Word(n_total * ONE) ELSE FIXED_MAX)

uct_score(n_total, n_visits, score) ==
  IF n_visits = 0 THEN FIXED_MAX
  ELSE Word(Word(score \div n_visits) +
              Word(Down(EXPLORATION_FACTOR * fixed_sqrt(LogOf(n_total) \div n_visits))))
=============================================================================
