-------------------------- MODULE MCSupervisorPool --------------------------
(***************************************************************************)
(* Instances of SupervisorPool for TLC.                                    *)
(***************************************************************************)
EXTENDS SupervisorPool, TLC

CONSTANTS w1, w2, p1, p2, p3

TwoIds == {w1, w2}
TwoPids == {p1, p2}
ThreePids == {p1, p2, p3}
OneStarted == {w1}
BothStarted == {w1, w2}
Ports == (w1 :> 1) @@ (w2 :> 2)
SamePort == (w1 :> 1) @@ (w2 :> 1)
Pids == (w1 :> p1) @@ (w2 :> p2)

(***************************************************************************)
(* The view of the safety runs: process slots have no names, and what is   *)
(* left in the fields of an absent id or of a slot not in use is ignored.  *)
(* No action tells apart two states with the same view.                    *)
(***************************************************************************)
Process(p) == <<owner[p], listen[p], os[p], lines[p]>>
Entry(w) ==
  IF Present(w)
  THEN <<wstate[w], portOf[w], failures[w], unhealthy[w], Process(pidOf[w])>>
  ELSE <<>>
Loose ==
  {p \in Pid \ FreePids : \A w \in WorkerId : Present(w) => pidOf[w] # p}
View ==
  <<[w \in WorkerId |-> Entry(w)],
    [x \in {Process(p) : p \in Loose} |->
       Cardinality({p \in Loose : Process(p) = x})],
    due, exits, lock>>

=============================================================================
