------------------------------ MODULE PoolEvents ------------------------------
(***************************************************************************)
(* What the worker pool tells its listeners (PoolEvent, sent by            *)
(* supervisor/src/pool.rs to main.rs, which logs it and serves it as SSE), *)
(* and whether a listener can rely on it: the events told about a worker   *)
(* are set against the budget of restarts the pool is configured with.     *)
(*                                                                         *)
(* Every operation of SupervisorPool is kept as it is, joined with what it *)
(* tells.  The API's drain and kill tell nothing, and neither does a spawn *)
(* that fails.  Events that are not about one worker are left out.         *)
(***************************************************************************)
EXTENDS SupervisorPool

VARIABLE spent  \* restarts told about a worker since it was last healthy; a
                \* worker told to have failed has no restart left

eventVars == <<vars, spent>>

\* Events that say how a worker fares.
Fate == {"spawned_new", "respawned", "healthy", "unhealthy", "restarting",
         "failed", "draining", "drained"}

Spent(n, told) ==
  CASE told \intersect {"spawned_new", "healthy"} # {} -> 0
    [] "failed" \in told -> MaxFailures
    [] "respawned" \in told -> n + 1
    [] OTHER -> n

\* The events `told' are sent about worker w.
Tell(w, told) ==
  /\ told \subseteq Fate
  /\ spent' = [spent EXCEPT ![w] = Spent(@, told)]

TellNothing == UNCHANGED spent

EventInit == Init /\ spent = [w \in WorkerId |-> 0]

\* Sent for any worker the line names, be there an entry for it or not.
LineEvent(line) ==
  CASE line = "worker.ready" -> "healthy"
    [] line = "worker.draining" -> "draining"
    [] OTHER -> "drained"

LineIsTold(p) ==
  HandleLine(p) /\ Tell(owner[p], {LineEvent(Head(lines[p]))})

\* Unhealthy first, then whether the pool will try again.
Verdict(w) ==
  {"unhealthy",
   IF Increment(failures[w]) <= MaxFailures THEN "restarting" ELSE "failed"}

\* An exit that is expected, or known already, is not told.
ExitIsTold(e) ==
  /\ HandleExited(e)
  /\ IF wstate[e.id] # "failed" /\ wstate'[e.id] = "failed"
     THEN Tell(e.id, Verdict(e.id))
     ELSE TellNothing

HealthIsTold(w) ==
  /\ HealthOne(w)
  /\ CASE wstate[w] = "starting" /\ wstate'[w] = "healthy" -> Tell(w, {"healthy"})
       [] wstate'[w] \in {"failed", "stopped"} -> Tell(w, Verdict(w))
       [] OTHER -> TellNothing

RestartIsTold(w) ==
  /\ RestartOne(w)
  /\ IF wstate'[w] = "starting" THEN Tell(w, {"respawned"}) ELSE TellNothing

SpawnIsTold(w) == SpawnNewWorker(w) /\ Tell(w, {"spawned_new"})

\* Only the new worker is told of; its predecessor just goes.
ReplacementIsTold(old) ==
  /\ RestartWorker(old)
  /\ LET new == {w \in WorkerId : ~Present(w) /\ wstate'[w] = "starting"}
     IN  IF new = {} THEN TellNothing
         ELSE \E w \in new : Tell(w, {"spawned_new"})

Silent ==
  /\ \/ ProcessStep
     \/ \E w \in WorkerId :
          \/ TimePasses(w)
          \/ DrainWorker(w) \/ DrainAbandoned(w)
          \/ KillWorker(w)
     \/ HealthBegin
     \/ HealthEnd
     \/ RestartsDone
  /\ TellNothing

EventNext ==
  \/ Silent
  \/ \E p \in Pid : LineIsTold(p)
  \/ \E e \in exits : ExitIsTold(e)
  \/ \E w \in WorkerId : \/ HealthIsTold(w)
                         \/ RestartIsTold(w)
                         \/ SpawnIsTold(w)
                         \/ ReplacementIsTold(w)

EventSpec == EventInit /\ [][EventNext]_eventVars
FairEventSpec == EventSpec /\ Fairness

-----------------------------------------------------------------------------
(* Properties                                                              *)

\* To a listener a worker is restarted at most MaxFailures times in a row,
\* and not at all after it was told to have failed, until it is healthy again
\* (max_consecutive_failures): with lines, exits and missed checks counted in
\* whatever order they are noticed, and restarts by the API that fail.
RestartBudgetKept == \A w \in WorkerId : spent[w] <= MaxFailures

=============================================================================
