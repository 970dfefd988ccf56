------------------------------- MODULE Backoff -------------------------------
(***************************************************************************)
(* How long a failed worker waits (supervisor/src/pool.rs,                 *)
(* calculate_restart_delay_static): restart_delay doubled with every       *)
(* failure after the first, in milliseconds of 64 bits, at most            *)
(* max_restart_delay.                                                      *)
(***************************************************************************)
EXTENDS Integers

MaxU64 == 4294967296 * 4294967296 - 1

U64 == 0..MaxU64

Pow2[n \in Nat] == IF n = 0 THEN 1 ELSE 2 * Pow2[n - 1]

\* failures.saturating_sub(1)
Doublings(fails) == IF fails = 0 THEN 0 ELSE fails - 1

\* A checked operation that does not fit in 64 bits gives None, hence max.
RestartDelay(base, max, fails) ==
  LET multiplier == Pow2[Doublings(fails)]
      delay == IF multiplier \in U64 /\ base * multiplier \in U64
               THEN base * multiplier
               ELSE max
  IN  IF delay <= max THEN delay ELSE max
=============================================================================
