----------------------- MODULE MCSupervisorLifecycle ------------------------
(***************************************************************************)
(* Instances of SupervisorLifecycle for TLC: up to three processes, of     *)
(* which start() spawns one, two or all, against channels so small that    *)
(* they fill up.                                                           *)
(***************************************************************************)
EXTENDS SupervisorLifecycle

CONSTANTS a, b, c

One == {a}
Two == {a, b}
Three == {a, b, c}

=============================================================================
