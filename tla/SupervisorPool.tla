--------------------------- MODULE SupervisorPool ---------------------------
(***************************************************************************)
(* The supervisor's worker pool: the table of supervisor/src/pool.rs, the  *)
(* processes it spawns through worker.rs, the lines they print, and the    *)
(* operations that run under the pool's write lock: one worker event, one  *)
(* round of health checks and restarts, one API call.                      *)
(*                                                                         *)
(* The lock is held across every await of an operation, so operations do   *)
(* not interleave; processes do.  A health round asks one worker after the *)
(* other over HTTP and is therefore split into steps, between which        *)
(* processes move and no other operation starts.                           *)
(*                                                                         *)
(* Processes and worker ids are drawn from finite sets.  A process slot    *)
(* or an id (a UUID in the code) is used again once nothing refers to the  *)
(* previous one: no table entry, no process, no line, no queued event.     *)
(*                                                                         *)
(* Operators marked "Mutant" are used by no action: each is a plausible    *)
(* mistake in the definition after it, kept to show that a property would  *)
(* catch it.                                                               *)
(***************************************************************************)
EXTENDS Naturals, Sequences, FiniteSets

CONSTANTS
  WorkerId,      \* ids the pool hands out
  Pid,           \* process slots
  BasePort,      \* config.base_port
  MaxPort,       \* config.max_port
  Started,       \* ids of the workers start() has spawned
  StartPort,     \* their ports, as start() numbers them
  StartPid,      \* their processes
  MaxFailures,   \* config.max_consecutive_failures
  MaxUnhealthy,  \* config.max_unhealthy_checks
  MaxLines,      \* bound: lines of one process waiting to be handled
  SpawnMayFail   \* Command::spawn may return an error

Port == BasePort..MaxPort

ASSUME PoolAssumption ==
  /\ BasePort \in Nat /\ MaxPort \in Nat
  /\ MaxFailures \in Nat
  /\ MaxUnhealthy \in Nat \ {0}
  /\ MaxLines \in Nat
  /\ SpawnMayFail \in BOOLEAN
  /\ IsFiniteSet(WorkerId) /\ WorkerId # {}
  /\ Started \subseteq WorkerId
  /\ StartPort \in [WorkerId -> Port]
  /\ StartPid \in [WorkerId -> Pid]
  /\ \A v, w \in WorkerId : v # w => StartPid[v] # StartPid[w]
  /\ \A v, w \in Started : v # w => StartPort[v] # StartPort[w]

VARIABLES
  \* self.workers; "absent" ids have no entry
  wstate,     \* ManagedWorker.state
  pidOf,      \* ManagedWorker.worker.child
  portOf,     \* ManagedWorker.worker.config.port
  failures,   \* consecutive_failures
  unhealthy,  \* consecutive_unhealthy
  due,        \* failed workers whose restart_at has passed
  \* processes
  os,         \* what each process is doing
  owner,      \* the worker id it was given
  listen,     \* the port it was given
  lines,      \* structured lines printed and not handled yet
  exits,      \* Exited events sent and not handled yet
  \* do_health_check
  round,      \* how far it is
  todo        \* ids it still has to look at

table == <<wstate, pidOf, portOf, failures, unhealthy, due>>
procs == <<os, owner, listen, lines>>
lock == <<round, todo>>
vars == <<table, procs, exits, lock>>

-----------------------------------------------------------------------------
(* Data *)

States == {"absent", "starting", "healthy", "draining", "failed", "stopped"}
Activities == {"dead", "booting", "serving", "hung", "draining"}
Printed == {"worker.ready", "worker.draining", "worker.drained"}

\* Beyond MaxFailures the code only asks whether the count is beyond it.
Count == 0..(MaxFailures + 1)
Increment(n) == IF n < MaxFailures + 1 THEN n + 1 ELSE n

TypeOK ==
  /\ wstate \in [WorkerId -> States]
  /\ pidOf \in [WorkerId -> Pid]
  /\ portOf \in [WorkerId -> Port]
  /\ failures \in [WorkerId -> Count]
  /\ unhealthy \in [WorkerId -> 0..(MaxUnhealthy - 1)]
  /\ due \subseteq {w \in WorkerId : wstate[w] = "failed"}
  /\ os \in [Pid -> Activities]
  /\ owner \in [Pid -> WorkerId]
  /\ listen \in [Pid -> Port]
  /\ lines \in [Pid -> Seq(Printed)]
  /\ exits \subseteq [id : WorkerId, clean : BOOLEAN]
  /\ round \in {"idle", "checking", "restarting"}
  /\ todo \subseteq WorkerId

Present(w) == wstate[w] # "absent"
Alive(p) == os[p] # "dead"
IsRunning(w) == Alive(pidOf[w])
Answers(port) ==
  \E p \in Pid : os[p] \in {"serving", "draining"} /\ listen[p] = port

\* The bound on processes: a slot free for a new one.
FreePids ==
  {p \in Pid : /\ ~Alive(p)
               /\ lines[p] = <<>>
               /\ \A w \in WorkerId : Present(w) => pidOf[w] # p}

\* Slots are kept for the restarts already due, so that the bound never
\* stands in the way of one.
CanSpawn == Cardinality(FreePids) > Cardinality(due)

\* A fresh UUID: nothing left of an earlier worker can be taken for this one.
FreshId(w) ==
  /\ ~Present(w)
  /\ \A p \in Pid : owner[p] = w => ~Alive(p) /\ lines[p] = <<>>
  /\ \A e \in exits : e.id # w

\* Mutant: ports of workers without a process count as free.
UsedPortsOfRunning == {portOf[w] : w \in {v \in WorkerId : Present(v) /\ IsRunning(v)}}

UsedPorts == {portOf[w] : w \in {v \in WorkerId : Present(v)}}

Prints(p, line) == lines' = [lines EXCEPT ![p] = Append(@, line)]

\* The worker a process slot starts with; any will do for a slot not in use.
StarterOf(p) ==
  CHOOSE w \in WorkerId :
    p \in {StartPid[v] : v \in WorkerId} => StartPid[w] = p

\* After WorkerPool::start.
Init ==
  /\ wstate = [w \in WorkerId |->
                 IF w \in Started THEN "starting" ELSE "absent"]
  /\ pidOf = StartPid
  /\ portOf = StartPort
  /\ failures = [w \in WorkerId |-> 0]
  /\ unhealthy = [w \in WorkerId |-> 0]
  /\ due = {}
  /\ os = [p \in Pid |-> IF p \in {StartPid[w] : w \in Started}
                         THEN "booting" ELSE "dead"]
  /\ owner = [p \in Pid |-> StarterOf(p)]
  /\ listen = [p \in Pid |-> StartPort[StarterOf(p)]]
  /\ lines = [p \in Pid |-> <<>>]
  /\ exits = {}
  /\ round = "idle"
  /\ todo = {}

-----------------------------------------------------------------------------
(* Worker processes: server.ts as the supervisor sees it.                  *)

\* Bun.serve binds the port and the ready signal is printed.  A port that is
\* taken makes it throw, which is Crash.
ProcReady(p) ==
  /\ os[p] = "booting"
  /\ \A q \in Pid \ {p} : Alive(q) /\ listen[q] = listen[p] => os[q] = "booting"
  /\ os' = [os EXCEPT ![p] = "serving"]
  /\ Prints(p, "worker.ready")
  /\ UNCHANGED <<table, owner, listen, exits, lock>>

\* The event loop stops turning, or turns again.
ProcHangs(p) ==
  /\ os[p] = "serving"
  /\ os' = [os EXCEPT ![p] = "hung"]
  /\ UNCHANGED <<table, owner, listen, lines, exits, lock>>

ProcRecovers(p) ==
  /\ os[p] = "hung"
  /\ os' = [os EXCEPT ![p] = "serving"]
  /\ UNCHANGED <<table, owner, listen, lines, exits, lock>>

\* SIGTERM, SIGINT or POST /api/drain reaches a worker, from the supervisor
\* or from elsewhere: each one prints the line.
ProcDrains(p) ==
  /\ os[p] \in {"serving", "hung", "draining"}
  /\ Len(lines[p]) < MaxLines
  /\ os' = [os EXCEPT ![p] = "draining"]
  /\ Prints(p, "worker.draining")
  /\ UNCHANGED <<table, owner, listen, exits, lock>>

\* waitForDrained() has ended: the last line, then process.exit(0).
ProcDrained(p) ==
  /\ os[p] = "draining"
  /\ os' = [os EXCEPT ![p] = "dead"]
  /\ Prints(p, "worker.drained")
  /\ UNCHANGED <<table, owner, listen, exits, lock>>

ProcCrashes(p) ==
  /\ Alive(p)
  /\ os' = [os EXCEPT ![p] = "dead"]
  /\ UNCHANGED <<table, owner, listen, lines, exits, lock>>

-----------------------------------------------------------------------------
(* handle_worker_event                                                     *)

HandleReady(w) ==
  /\ wstate' = [wstate EXCEPT ![w] = IF Present(w) THEN "healthy" ELSE @]
  /\ failures' = [failures EXCEPT ![w] = 0]
  /\ due' = due \ {w}
  /\ UNCHANGED <<pidOf, portOf, unhealthy>>

HandleDraining(w) ==
  /\ wstate' = [wstate EXCEPT ![w] = IF Present(w) THEN "draining" ELSE @]
  /\ due' = due \ {w}
  /\ UNCHANGED <<pidOf, portOf, failures, unhealthy>>

\* Only forwarded to the pool's listeners.
HandleDrained(w) == UNCHANGED table

\* One line of a process, in the order it printed them.
HandleLine(p) ==
  /\ round = "idle"
  /\ lines[p] # <<>>
  /\ lines' = [lines EXCEPT ![p] = Tail(@)]
  /\ \/ Head(lines[p]) = "worker.ready" /\ HandleReady(owner[p])
     \/ Head(lines[p]) = "worker.draining" /\ HandleDraining(owner[p])
     \/ Head(lines[p]) = "worker.drained" /\ HandleDrained(owner[p])
  /\ UNCHANGED <<os, owner, listen, exits, lock>>

\* An Exited event: expected after a drain or with code 0, a crash otherwise.
\* Unlike the health check, this handler calls the worker failed even when its
\* budget of restarts is spent.
HandleExited(e) ==
  /\ round = "idle"
  /\ exits' = exits \ {e}
  /\ \/ /\ wstate[e.id] \in {"absent", "failed", "stopped"}
        /\ UNCHANGED table
     \/ /\ wstate[e.id] \in {"starting", "healthy", "draining"}
        /\ e.clean \/ wstate[e.id] = "draining"
        /\ wstate' = [wstate EXCEPT ![e.id] = "stopped"]
        /\ UNCHANGED <<pidOf, portOf, failures, unhealthy, due>>
     \/ /\ wstate[e.id] \in {"starting", "healthy"}
        /\ ~e.clean
        /\ wstate' = [wstate EXCEPT ![e.id] = "failed"]
        /\ failures' = [failures EXCEPT ![e.id] = Increment(@)]
        /\ UNCHANGED <<pidOf, portOf, unhealthy, due>>
  /\ UNCHANGED <<procs, lock>>

-----------------------------------------------------------------------------
(* do_health_check: check_all_health, then process_restarts.               *)

\* restart_at passes.
TimePasses(w) ==
  /\ wstate[w] = "failed"
  /\ w \notin due
  /\ CanSpawn
  /\ due' = due \union {w}
  /\ UNCHANGED <<wstate, pidOf, portOf, failures, unhealthy,
                 procs, exits, lock>>

HealthBegin ==
  /\ round = "idle"
  /\ round' = "checking"
  /\ todo' = {w \in WorkerId : wstate[w] \in {"starting", "healthy"}}
  /\ UNCHANGED <<table, procs, exits>>

ScheduleRestart(w) ==
  /\ failures' = [failures EXCEPT ![w] = Increment(@)]
  /\ unhealthy' = [unhealthy EXCEPT ![w] = 0]
  /\ wstate' = [wstate EXCEPT ![w] =
                  IF Increment(failures[w]) <= MaxFailures
                  THEN "failed" ELSE "stopped"]

\* Any server on the worker's port counts: the answer's worker_id is only
\* logged.
HealthAnswered(w) ==
  /\ Answers(portOf[w])
  /\ unhealthy' = [unhealthy EXCEPT ![w] = 0]
  /\ wstate' = [wstate EXCEPT ![w] = "healthy"]
  /\ UNCHANGED <<failures, os>>

\* Mutant: only a worker that has been healthy is found dead.
HealthFoundDeadIfHealthy(w) ==
  /\ ~Answers(portOf[w])
  /\ ~IsRunning(w)
  /\ IF wstate[w] = "healthy"
     THEN ScheduleRestart(w)
     ELSE UNCHANGED <<wstate, failures, unhealthy>>
  /\ UNCHANGED os

HealthFoundDead(w) ==
  /\ ~Answers(portOf[w])
  /\ ~IsRunning(w)
  /\ ScheduleRestart(w)
  /\ UNCHANGED os

\* Mutant: the missed check is counted without a look at the limit.
HealthMissedUnlimited(w) ==
  /\ ~Answers(portOf[w])
  /\ IsRunning(w)
  /\ wstate[w] = "healthy"
  /\ unhealthy' = [unhealthy EXCEPT ![w] = @ + 1]
  /\ UNCHANGED <<wstate, failures, os>>

\* Mutant: a missed check does not add to the ones before it.
HealthMissedForgotten(w) ==
  /\ ~Answers(portOf[w])
  /\ IsRunning(w)
  /\ wstate[w] = "healthy"
  /\ unhealthy[w] + 1 < MaxUnhealthy
  /\ UNCHANGED <<wstate, failures, unhealthy, os>>

HealthMissed(w) ==
  /\ ~Answers(portOf[w])
  /\ IsRunning(w)
  /\ wstate[w] = "healthy"
  /\ unhealthy[w] + 1 < MaxUnhealthy
  /\ unhealthy' = [unhealthy EXCEPT ![w] = @ + 1]
  /\ UNCHANGED <<wstate, failures, os>>

\* Mutant: the restart is scheduled and the process left running.
HealthGaveUpWithoutKill(w) ==
  /\ ~Answers(portOf[w])
  /\ IsRunning(w)
  /\ wstate[w] = "healthy"
  /\ unhealthy[w] + 1 >= MaxUnhealthy
  /\ ScheduleRestart(w)
  /\ UNCHANGED os

HealthGaveUp(w) ==
  /\ ~Answers(portOf[w])
  /\ IsRunning(w)
  /\ wstate[w] = "healthy"
  /\ unhealthy[w] + 1 >= MaxUnhealthy
  /\ os' = [os EXCEPT ![pidOf[w]] = "dead"]
  /\ ScheduleRestart(w)

StillStarting(w) ==
  /\ ~Answers(portOf[w])
  /\ IsRunning(w)
  /\ wstate[w] = "starting"
  /\ UNCHANGED <<wstate, failures, unhealthy, os>>

\* One worker's check; nothing else touches the table meanwhile.
HealthOne(w) ==
  /\ round = "checking"
  /\ w \in todo
  /\ todo' = todo \ {w}
  /\ \/ HealthAnswered(w)
     \/ HealthFoundDead(w)
     \/ HealthMissed(w)
     \/ HealthGaveUp(w)
     \/ StillStarting(w)
  /\ UNCHANGED <<pidOf, portOf, due, owner, listen, lines, exits, round>>

\* Mutant: the last restart of the budget is not granted.
HealthEndBelowBudget ==
  /\ round = "checking"
  /\ todo = {}
  /\ round' = "restarting"
  /\ todo' = {w \in due : failures[w] < MaxFailures}
  /\ UNCHANGED <<table, procs, exits>>

HealthEnd ==
  /\ round = "checking"
  /\ todo = {}
  /\ round' = "restarting"
  /\ todo' = {w \in due : failures[w] <= MaxFailures}
  /\ UNCHANGED <<table, procs, exits>>

\* Mutant: the count of failures is not carried over to the new entry.
RestartOneForgetting(w) ==
  /\ round = "restarting"
  /\ w \in todo
  /\ todo' = todo \ {w}
  /\ due' = due \ {w}
  /\ unhealthy' = [unhealthy EXCEPT ![w] = 0]
  /\ \/ LET p == CHOOSE q \in FreePids : TRUE
        IN  /\ FreePids # {}
            /\ pidOf' = [pidOf EXCEPT ![w] = p]
            /\ wstate' = [wstate EXCEPT ![w] = "starting"]
            /\ os' = [os EXCEPT ![p] = "booting"]
            /\ owner' = [owner EXCEPT ![p] = w]
            /\ listen' = [listen EXCEPT ![p] = portOf[w]]
            /\ failures' = [failures EXCEPT ![w] = 0]
     \/ /\ SpawnMayFail
        /\ wstate' = [wstate EXCEPT ![w] = "absent"]
        /\ failures' = [failures EXCEPT ![w] = 0]
        /\ UNCHANGED <<pidOf, os, owner, listen>>
  /\ UNCHANGED <<portOf, lines, exits, round>>

\* The entry is removed first and inserted again by spawn_worker.
RestartOne(w) ==
  /\ round = "restarting"
  /\ w \in todo
  /\ todo' = todo \ {w}
  /\ due' = due \ {w}
  /\ unhealthy' = [unhealthy EXCEPT ![w] = 0]
  /\ \/ LET p == CHOOSE q \in FreePids : TRUE
        IN  /\ FreePids # {}
            /\ pidOf' = [pidOf EXCEPT ![w] = p]
            /\ wstate' = [wstate EXCEPT ![w] = "starting"]
            /\ os' = [os EXCEPT ![p] = "booting"]
            /\ owner' = [owner EXCEPT ![p] = w]
            /\ listen' = [listen EXCEPT ![p] = portOf[w]]
            /\ UNCHANGED failures
     \/ /\ SpawnMayFail
        /\ wstate' = [wstate EXCEPT ![w] = "absent"]
        /\ failures' = [failures EXCEPT ![w] = 0]
        /\ UNCHANGED <<pidOf, os, owner, listen>>
  /\ UNCHANGED <<portOf, lines, exits, round>>

RestartsDone ==
  /\ round = "restarting"
  /\ todo = {}
  /\ round' = "idle"
  /\ UNCHANGED <<table, procs, exits, todo>>

-----------------------------------------------------------------------------
(* The API's operations, each under the write lock from end to end.        *)

\* next_available_port: the lowest port no entry names, stopped ones included.
NextPort == CHOOSE n \in Port \ UsedPorts :
              \A m \in Port \ UsedPorts : n <= m

\* spawn_worker for an id that had no entry, after the changes a restart
\* makes to the table and to the processes.
SpawnWorker(w, port, states, activities) ==
  LET p == CHOOSE q \in FreePids : TRUE
  IN  /\ FreshId(w)
      /\ CanSpawn
      /\ wstate' = [states EXCEPT ![w] = "starting"]
      /\ pidOf' = [pidOf EXCEPT ![w] = p]
      /\ portOf' = [portOf EXCEPT ![w] = port]
      /\ failures' = [failures EXCEPT ![w] = 0]
      /\ unhealthy' = [unhealthy EXCEPT ![w] = 0]
      /\ os' = [activities EXCEPT ![p] = "booting"]
      /\ owner' = [owner EXCEPT ![p] = w]
      /\ listen' = [listen EXCEPT ![p] = port]

\* A spawn that fails changes nothing.
SpawnNewWorker(w) ==
  /\ round = "idle"
  /\ UsedPorts # Port
  /\ SpawnWorker(w, NextPort, wstate, os)
  /\ UNCHANGED <<due, lines, exits, lock>>

\* Mutant: a drain that has been asked for is taken for done.
DrainWorkerAsStopped(w) ==
  LET p == pidOf[w] IN
  /\ round = "idle"
  /\ Present(w)
  /\ wstate' = [wstate EXCEPT ![w] = "stopped"]
  /\ due' = due \ {w}
  /\ os' = [os EXCEPT ![p] = IF @ = "serving" THEN "draining" ELSE @]
  /\ UNCHANGED <<pidOf, portOf, failures, unhealthy,
                 owner, listen, lines, exits, lock>>

\* A process with no server yet has no SIGTERM handler either and dies of the
\* signal; one that hangs finds the signal when it turns again (ProcDrains).
DrainWorker(w) ==
  LET p == pidOf[w] IN
  /\ round = "idle"
  /\ Present(w)
  /\ wstate' = [wstate EXCEPT ![w] =
                  IF IsRunning(w) THEN "draining" ELSE "stopped"]
  /\ due' = due \ {w}
  /\ os' = [os EXCEPT ![p] = CASE @ = "booting" -> "dead"
                               [] @ = "serving" -> "draining"
                               [] OTHER -> @]
  /\ IF os[p] = "serving"
     THEN Prints(p, "worker.draining")
     ELSE UNCHANGED lines
  /\ UNCHANGED <<pidOf, portOf, failures, unhealthy,
                 owner, listen, exits, lock>>

\* The client leaves while terminate() waits for an answer: the handler is
\* dropped there, with the entry written and no signal sent.  (A kill or a
\* restart dropped before its end leaves the table alone and the process
\* drained, drained and gone, or dead, as ProcDrains and the like do.)
DrainAbandoned(w) ==
  /\ round = "idle"
  /\ Present(w)
  /\ IsRunning(w)
  /\ wstate' = [wstate EXCEPT ![w] = "draining"]
  /\ due' = due \ {w}
  /\ UNCHANGED <<pidOf, portOf, failures, unhealthy, procs, exits, lock>>

KillWorker(w) ==
  /\ round = "idle"
  /\ Present(w)
  /\ wstate' = [wstate EXCEPT ![w] = "stopped"]
  /\ os' = [os EXCEPT ![pidOf[w]] = "dead"]
  /\ due' = due \ {w}
  /\ UNCHANGED <<pidOf, portOf, failures, unhealthy,
                 owner, listen, lines, exits, lock>>

\* What terminate(), 100 ms, kill() and wait() make a process print.
LastWords(p) ==
  CASE os[p] = "serving" -> {<<>>, <<"worker.draining">>,
                             <<"worker.draining", "worker.drained">>}
    [] os[p] = "draining" -> {<<>>, <<"worker.drained">>}
    [] OTHER -> {<<>>}

\* Mutant: the replacement is spawned without waiting for the process to go.
ReplacedAtOnce(old, new) ==
  /\ SpawnWorker(new, portOf[old], [wstate EXCEPT ![old] = "absent"], os)
  /\ due' = due \ {old}

\* The outcome of the spawn decides what happens to the old entry.
Replaced(old, new) ==
  /\ SpawnWorker(new, portOf[old], [wstate EXCEPT ![old] = "absent"],
                 [os EXCEPT ![pidOf[old]] = "dead"])
  /\ due' = due \ {old}

NotReplaced(old) ==
  /\ SpawnMayFail
  /\ wstate' = [wstate EXCEPT ![old] = "failed"]
  /\ failures' = [failures EXCEPT ![old] = Increment(@)]
  /\ due' = due \ {old}
  /\ os' = [os EXCEPT ![pidOf[old]] = "dead"]
  /\ UNCHANGED <<pidOf, portOf, unhealthy, owner, listen>>

\* wait() sends Exited, with code 0 when the drain had ended by itself.
RestartWorker(old) ==
  LET p == pidOf[old] IN
  /\ round = "idle"
  /\ Present(old)
  /\ \/ /\ ~IsRunning(old)
        /\ UNCHANGED <<lines, exits>>
     \/ /\ IsRunning(old)
        /\ \E words \in LastWords(p) :
             /\ lines' = [lines EXCEPT ![p] = @ \o words]
             /\ exits' = exits \union
                  {[id |-> old,
                    clean |-> words # <<>> /\ words[Len(words)] = "worker.drained"]}
  /\ \/ \E new \in WorkerId : Replaced(old, new)
     \/ NotReplaced(old)
  /\ UNCHANGED lock

-----------------------------------------------------------------------------

ProcessStep ==
  \E p \in Pid :
    \/ ProcReady(p)
    \/ ProcHangs(p)
    \/ ProcRecovers(p)
    \/ ProcDrains(p)
    \/ ProcDrained(p)
    \/ ProcCrashes(p)

LoopStep ==
  \/ \E p \in Pid : HandleLine(p)
  \/ \E e \in exits : HandleExited(e)
  \/ \E w \in WorkerId : TimePasses(w)
  \/ HealthBegin
  \/ \E w \in WorkerId : HealthOne(w)
  \/ HealthEnd
  \/ \E w \in WorkerId : RestartOne(w)
  \/ RestartsDone

ApiStep ==
  \E w \in WorkerId :
    \/ SpawnNewWorker(w)
    \/ DrainWorker(w)
    \/ DrainAbandoned(w)
    \/ KillWorker(w)
    \/ RestartWorker(w)

Next == ProcessStep \/ LoopStep \/ ApiStep

\* The main loop ticks, polls, and awaits every check under its timeout; time
\* passes.  Nothing is assumed of the processes or of the API's clients.
Fairness ==
  /\ WF_vars(HealthBegin)
  /\ WF_vars(HealthEnd)
  /\ WF_vars(RestartsDone)
  /\ \A w \in WorkerId : /\ WF_vars(HealthOne(w))
                         /\ WF_vars(RestartOne(w))
                         /\ SF_vars(TimePasses(w))
  /\ \A p \in Pid : SF_vars(HandleLine(p))

Spec == Init /\ [][Next]_vars
FairSpec == Spec /\ Fairness

-----------------------------------------------------------------------------
(* Properties                                                              *)

\* No two entries of the table name the same port, however workers were
\* started, restarted, replaced or stopped.
PortsUnique ==
  \A v, w \in WorkerId : Present(v) /\ Present(w) /\ v # w
                           => portOf[v] # portOf[w]

\* A port is given to one process at a time: an entry's process is replaced
\* (process_restarts, restart_worker) only once it is gone.
OneProcessPerPort ==
  \A p, q \in Pid : Alive(p) /\ Alive(q) /\ p # q => listen[p] # listen[q]

\* Every live process is the one its worker's entry holds, so that a drain,
\* a kill or the shutdown reaches it.
NoOrphans ==
  \A p \in Pid : Alive(p) => /\ Present(owner[p])
                             /\ pidOf[owner[p]] = p
                             /\ portOf[owner[p]] = listen[p]

\* An entry the pool calls failed or stopped has no live process, so a
\* restart never doubles one.
DownMeansDead ==
  \A w \in WorkerId : wstate[w] \in {"failed", "stopped"} => ~IsRunning(w)

\* As long as every live process is its worker's, a crashed worker the pool
\* takes for starting or healthy is found out.  (A process no entry holds
\* answers the health checks of the worker whose port it has.)
CrashIsNoticed ==
  []NoOrphans =>
    \A w \in WorkerId :
      wstate[w] \in {"starting", "healthy"} /\ ~IsRunning(w)
        ~> ~(wstate[w] \in {"starting", "healthy"} /\ ~IsRunning(w))

\* The budget allows w another restart.
Restartable(w) == wstate[w] = "failed" /\ failures[w] <= MaxFailures

\* It has a process again, or somebody stopped it or had it replaced.
Attended(w) == IsRunning(w) \/ wstate[w] \in {"stopped", "absent"}

\* A line of a process that is gone will make w pass for draining.
StaleDraining(w) ==
  /\ Present(w) /\ ~IsRunning(w)
  /\ \E p \in Pid : owner[p] = w
                    /\ \E i \in DOMAIN lines[p] : lines[p][i] = "worker.draining"

\* No restart whose spawn fails takes w off the table (RestartsLoseNobody):
\* nothing else does while process_restarts is at work.
StaysInTable(w) == round = "restarting" => Present(w)

\* A failed worker within its budget of restarts gets a process again, unless
\* the API's clients stop or replace it, or use up the budget with restarts that
\* fail.  Two things must not come in between: a scheduled restart whose spawn
\* fails, which loses the entry, and a line that comes late (CrashIsRepaired).
\* (A process no entry holds would keep one of the bounded slots.)
FailedIsRestarted ==
  \A w \in WorkerId :
    [](NoOrphans /\ StaysInTable(w) /\ ~StaleDraining(w)) =>
      (Restartable(w) ~> Attended(w) \/ failures[w] > MaxFailures)

\* A worker that hangs for good does not stay healthy in the table.
HungIsReplaced ==
  []NoOrphans =>
    \A w \in WorkerId :
      []<>~(wstate[w] = "healthy" /\ os[pidOf[w]] = "hung")

-----------------------------------------------------------------------------
(* What the documents and the tests say and the code does not do           *)

\* WHITEPAPER, "Crash recovery": "Exponential backoff restart on failure".  A
\* worker.draining line handled after the crash was found makes the entry pass
\* for draining, whose process no health check looks at.
CrashIsRepaired == \A w \in WorkerId : Restartable(w) ~> Attended(w)

\* The same promise: a restart takes nobody off the table.  process_restarts
\* removes the entry before it spawns, and does not put it back when that fails.
RestartsLoseNobody ==
  [][round = "restarting" =>
       \A w \in WorkerId : Present(w) => Present(w)']_vars

\* tests/integration.rs: "A draining worker that exits is drained, not failed".
\* A health check that comes before the line has been handled thinks otherwise.
DrainedIsNotFailed ==
  [][\A w \in WorkerId :
       wstate[w] # "failed" /\ wstate'[w] = "failed" =>
         \A i \in DOMAIN lines[pidOf[w]] :
           lines[pidOf[w]][i] # "worker.drained"]_vars

=============================================================================
