--------------------------- MODULE BreakerPolicy ---------------------------
(***************************************************************************)
(* The arithmetic of refract-store's circuit breaker, free of state: the   *)
(* policy record, the exponential cooldown and the deadline one failure    *)
(* asks for.  Durations are seconds.                                       *)
(***************************************************************************)
EXTENDS Integers, Sequences

NoHold == -1    \* a failure whose response had no Retry-After header

\* What BreakerPolicy::validate lets through: a threshold of 0 turns the
\* breaker off, cooldowns are positive and ordered.
ValidPolicy(p) ==
  /\ p \in [threshold : Nat, base : Nat, max : Nat]
  /\ p.base >= 1
  /\ p.max >= p.base

Smaller(a, b) == IF a < b THEN a ELSE b
Larger(a, b)  == IF a > b THEN a ELSE b

PowersOfTwo == <<1, 2, 4, 8, 16, 32, 64, 128, 256, 512, 1024, 2048, 4096,
                 8192, 16384, 32768, 65536>>

\* 1_u64 << over.min(16)
Backoff(over) == PowersOfTwo[Smaller(over, 16) + 1]

\* Mutant: cooldown_for without its ceiling.
CooldownUncapped(p, n) ==
  IF p.threshold = 0 \/ n < p.threshold
  THEN 0
  ELSE p.base * Backoff(n - p.threshold)

\* cooldown_for: nothing below the threshold, then a doubling back-off.
CooldownFor(p, n) ==
  IF p.threshold = 0 \/ n < p.threshold
  THEN 0
  ELSE Smaller(p.base * Backoff(n - p.threshold), p.max)

\* The deadline the n-th consecutive failure asks for at instant t: the
\* later of the breaker's and the upstream's, 0 when neither wants one.
Deadline(p, n, hold, t) ==
  LET cooldown == CooldownFor(p, n)
      breaker  == IF cooldown > 0 THEN t + cooldown ELSE 0
      upstream == IF hold = NoHold THEN 0 ELSE t + hold
  IN  Larger(breaker, upstream)
=============================================================================
