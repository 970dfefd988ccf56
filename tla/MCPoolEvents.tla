---------------------------- MODULE MCPoolEvents ----------------------------
(***************************************************************************)
(* Instances of PoolEvents for TLC: one worker, its process and one more.  *)
(***************************************************************************)
EXTENDS PoolEvents, TLC

CONSTANTS w1, p1, p2

MCWorkerId == {w1}
MCPid == {p1, p2}
MCStartPort == w1 :> 1
MCStartPid == w1 :> p1
=============================================================================
