------------------------------- MODULE RunView -------------------------------
(***************************************************************************)
(* What a worker instance may rely on while an order runs, and what        *)
(* L0Worker does rely on: an order consumed token by token reports its     *)
(* first token at most once and before it ends; a race reports it together *)
(* with its end, if at all; a fanout never does; an order ends once.       *)
(*                                                                         *)
(* OrderExecution implements this specification.                           *)
(***************************************************************************)

VARIABLES
  kind,    \* how the order is executed: OrderKind of L0Worker
  first,   \* onFirstToken has been called
  status   \* "running", "completed" or "failed"

vars == <<kind, first, status>>

Init ==
  /\ kind \in {"stream", "race", "fanout"}
  /\ first = FALSE
  /\ status = "running"

FirstToken ==
  /\ status = "running"
  /\ kind = "stream"
  /\ ~first
  /\ first' = TRUE
  /\ UNCHANGED <<kind, status>>

Complete ==
  /\ status = "running"
  /\ status' = "completed"
  /\ first' \in IF kind = "race" THEN {FALSE, TRUE} ELSE {first}
  /\ UNCHANGED kind

Fail ==
  /\ status = "running"
  /\ status' = "failed"
  /\ UNCHANGED <<kind, first>>

Next == FirstToken \/ Complete \/ Fail

Spec == Init /\ [][Next]_vars
=============================================================================
