--------------------------- MODULE MonotonicClock ---------------------------
(***************************************************************************)
(* The worker's clock, src/utils/clock.ts: every event of the worker takes *)
(* its timestamp from one counter that follows Date.now() and never        *)
(* returns the same value twice, whatever the system clock does.           *)
(***************************************************************************)
EXTENDS Integers

CONSTANT Times  \* bound: readings of the system clock

ASSUME ClockAssumption == Times \subseteq Nat

VARIABLES
  wall,  \* Date.now(): the system clock, set forward and back at will
  last   \* lastTimestamp

clockVars == <<wall, last>>

ClockInit == wall \in Times /\ last = 0

\* Mutant: a system clock that stands still is taken for one that moved.
NowUnlessBehind == IF wall < last THEN last + 1 ELSE wall

\* now(), and what it leaves in lastTimestamp.
Now == IF wall <= last THEN last + 1 ELSE wall

Stamp == last' = Now

=============================================================================
