------------------------- MODULE SupervisorLifecycle ------------------------
(***************************************************************************)
(* The supervisor from its start to its exit: main() of                    *)
(* supervisor/src/main.rs with WorkerPool::start, WorkerPool::shutdown and *)
(* the two bounded channels they send on.                                  *)
(*                                                                         *)
(* The pool channel takes PoolEvents from whoever holds the pool's lock to *)
(* a task that main() spawns after start() has returned.  The event        *)
(* channel takes WorkerEvents from the readers of the workers' stdout, and *)
(* from Worker::wait, to the main loop, which is dropped on a signal.  A   *)
(* send on a full channel waits.  Every line a worker prints, on stdout or *)
(* stderr, is a message of the event channel, whether the pool acts on it  *)
(* or only logs it; of the messages only the Exited are told apart.        *)
(*                                                                         *)
(* A member of Worker is one process.  The pool terminates, waits for and  *)
(* reaps the processes its table has an entry for, which need not be all.  *)
(*                                                                         *)
(* Operators marked "Mutant" are used by no action: each is a plausible    *)
(* mistake in the definition after it.                                     *)
(***************************************************************************)
EXTENDS Naturals, Sequences, FiniteSets

CONSTANTS
  Worker,    \* the processes the pool may come to spawn
  Boot,      \* workers start() spawns: config.worker_count of them
  PoolCap,   \* capacity of the pool channel (32)
  EventCap,  \* capacity of the event channel (100)
  MaxTalk,   \* bound: lines a process prints that nothing here asks it for
  Faults     \* what may go wrong: the spawn of a process, the bind of the API's
             \* port, a client that leaves while its restart waits for room

ASSUME LifecycleAssumption ==
  /\ Boot \subseteq Worker
  /\ IsFiniteSet(Worker)
  /\ PoolCap \in Nat \ {0}
  /\ EventCap \in Nat \ {0}
  /\ MaxTalk \in Nat
  /\ Faults \subseteq {"spawn", "bind", "leave"}

VARIABLES
  phase,     \* where main() is
  proc,      \* how far each process has come
  known,     \* processes the pool's table has an entry for
  failed,    \* those of them it takes for failed, and will restart
  talk,      \* lines a process may still print of its own accord
  unsent,    \* lines a process has printed and its readers have not sent
  events,    \* messages in the event channel: a line is {}, an Exited the
             \* process it is about
  owed,      \* PoolEvents the holder of the lock has yet to send
  pool,      \* messages in the pool channel
  todo       \* workers the shutdown has yet to terminate, or to reap

vars == <<phase, proc, known, failed, talk, unsent, events, owed, pool, todo>>

Phases == {"starting", "binding", "running", "terminating", "waiting",
           "reaping", "leaving", "exited", "aborted"}
Activities == {"none", "booting", "serving", "draining", "dead"}

TypeOK ==
  /\ phase \in Phases
  /\ proc \in [Worker -> Activities]
  /\ known \subseteq Worker
  /\ failed \subseteq known
  /\ talk \in [Worker -> 0..MaxTalk]
  /\ unsent \in [Worker -> Nat]
  /\ events \in Seq(SUBSET Worker)
  /\ Len(events) <= EventCap
  /\ owed \in 0..3
  /\ pool \in 0..PoolCap
  /\ todo \subseteq Worker

Present(w) == proc[w] # "none"
Running(w) == proc[w] \in {"booting", "serving", "draining"}
Over == phase \in {"exited", "aborted"}

Init ==
  /\ phase = "starting"
  /\ proc = [w \in Worker |-> "none"]
  /\ known = {}
  /\ failed = {}
  /\ talk = [w \in Worker |-> MaxTalk]
  /\ unsent = [w \in Worker |-> 0]
  /\ events = <<>>
  /\ owed = 0
  /\ pool = 0
  /\ todo = {}

-----------------------------------------------------------------------------
(* The channels                                                            *)

\* Mutant: a send does not wait for room.
PoolSendUnbounded ==
  /\ owed > 0
  /\ owed' = owed - 1
  /\ pool' = pool + 1
  /\ UNCHANGED <<phase, proc, known, failed, talk, unsent, events, todo>>

PoolSend ==
  /\ ~Over
  /\ owed > 0
  /\ pool < PoolCap
  /\ owed' = owed - 1
  /\ pool' = pool + 1
  /\ UNCHANGED <<phase, proc, known, failed, talk, unsent, events, todo>>

\* The task that logs and broadcasts; it exists once start() has returned.
PoolReceive ==
  /\ phase # "starting" /\ ~Over
  /\ pool > 0
  /\ pool' = pool - 1
  /\ UNCHANGED <<phase, proc, known, failed, talk, unsent, events, owed, todo>>

\* A reader of stdout or stderr sends a line, of whatever kind.
ReaderSend(w) ==
  /\ ~Over
  /\ unsent[w] > 0
  /\ Len(events) < EventCap
  /\ unsent' = [unsent EXCEPT ![w] = @ - 1]
  /\ events' = Append(events, {})
  /\ UNCHANGED <<phase, proc, known, failed, talk, owed, pool, todo>>

-----------------------------------------------------------------------------
(* Worker processes                                                        *)

ProcReady(w) ==
  /\ proc[w] = "booting"
  /\ proc' = [proc EXCEPT ![w] = "serving"]
  /\ unsent' = [unsent EXCEPT ![w] = @ + 1]
  /\ UNCHANGED <<phase, known, failed, talk, events, owed, pool, todo>>

\* A line that asks nothing of the pool: the mode at boot, what a library or
\* the runtime prints on stdout or stderr.
ProcPrints(w) ==
  /\ Running(w)
  /\ talk[w] > 0
  /\ talk' = [talk EXCEPT ![w] = @ - 1]
  /\ unsent' = [unsent EXCEPT ![w] = @ + 1]
  /\ UNCHANGED <<phase, proc, known, failed, events, owed, pool, todo>>

\* A signal, or a POST /api/drain, that is not shutdown()'s: an operator's, or
\* the SIGINT a terminal sends the whole process group.
ProcAsked(w) ==
  /\ proc[w] \in {"serving", "draining"}
  /\ talk[w] > 0
  /\ talk' = [talk EXCEPT ![w] = @ - 1]
  /\ proc' = [proc EXCEPT ![w] = "draining"]
  /\ unsent' = [unsent EXCEPT ![w] = @ + 1]
  /\ UNCHANGED <<phase, known, failed, events, owed, pool, todo>>

ProcDrained(w) ==
  /\ proc[w] = "draining"
  /\ proc' = [proc EXCEPT ![w] = "dead"]
  /\ unsent' = [unsent EXCEPT ![w] = @ + 1]
  /\ UNCHANGED <<phase, known, failed, talk, events, owed, pool, todo>>

\* It dies, or the pool's health check or its API kills it.
ProcCrashes(w) ==
  /\ Running(w)
  /\ proc' = [proc EXCEPT ![w] = "dead"]
  /\ UNCHANGED <<phase, known, failed, talk, unsent, events, owed, pool, todo>>

-----------------------------------------------------------------------------
(* start()                                                                 *)

\* Mutant: start() also reports on the worker's health.
StartWorkerWithHealth(w) ==
  /\ phase = "starting"
  /\ owed = 0
  /\ w \in Boot
  /\ ~Present(w)
  /\ proc' = [proc EXCEPT ![w] = "booting"]
  /\ known' = known \union {w}
  /\ owed' = 2
  /\ UNCHANGED <<phase, failed, talk, unsent, events, pool, todo>>

\* One turn of start(): spawn, insert, then send WorkerSpawned.
StartWorker(w) ==
  /\ phase = "starting"
  /\ owed = 0
  /\ w \in Boot
  /\ ~Present(w)
  /\ proc' = [proc EXCEPT ![w] = "booting"]
  /\ known' = known \union {w}
  /\ owed' = 1
  /\ UNCHANGED <<phase, failed, talk, unsent, events, pool, todo>>

\* start() returns; the pool channel's reader is spawned, and the API's server.
Started ==
  /\ phase = "starting"
  /\ owed = 0
  /\ \A w \in Boot : Present(w)
  /\ phase' = "binding"
  /\ UNCHANGED <<proc, known, failed, talk, unsent, events, owed, pool, todo>>

ApiUp ==
  /\ phase = "binding"
  /\ phase' = "running"
  /\ UNCHANGED <<proc, known, failed, talk, unsent, events, owed, pool, todo>>

\* A worker cannot be spawned, or the API cannot bind its port: exit(1), and
\* the workers that were spawned are left as they are.
BootFails ==
  /\ \/ /\ phase = "starting"
        /\ owed = 0
        /\ \E w \in Boot : ~Present(w)
        /\ "spawn" \in Faults
     \/ /\ phase = "binding"
        /\ "bind" \in Faults
  /\ phase' = "aborted"
  /\ UNCHANGED <<proc, known, failed, talk, unsent, events, owed, pool, todo>>

\* SIGTERM or SIGINT before main() listens for them: the process ends.
SignalAtBoot ==
  /\ phase \in {"starting", "binding"}
  /\ phase' = "aborted"
  /\ UNCHANGED <<proc, known, failed, talk, unsent, events, owed, pool, todo>>

-----------------------------------------------------------------------------
(* The main loop                                                           *)

\* try_recv_event: a ready or draining line takes a worker out of failure, an
\* Exited may put one into it, under whose id it comes.
HandleEvent ==
  /\ phase = "running"
  /\ owed = 0
  /\ events # <<>>
  /\ events' = Tail(events)
  /\ IF Head(events) = {}
       THEN \E w \in Worker : failed' \in {failed, failed \ {w}}
       ELSE failed' \in {failed, failed \union (Head(events) \intersect known)}
  /\ owed' \in 0..2
  /\ UNCHANGED <<phase, proc, known, talk, unsent, pool, todo>>

\* check_all_health: what answers on the worker's port makes it healthy; it is
\* found dead; or it is killed for the checks it missed.
HealthCheck(w) ==
  /\ phase = "running"
  /\ owed = 0
  /\ w \in known
  /\ \/ /\ failed' = failed \ {w}
        /\ owed' = 1
        /\ UNCHANGED proc
     \/ /\ ~Running(w)
        /\ failed' \in {failed, failed \union {w}}
        /\ owed' = 2
        /\ UNCHANGED proc
     \/ /\ Running(w)
        /\ proc' = [proc EXCEPT ![w] = "dead"]
        /\ failed' \in {failed, failed \union {w}}
        /\ owed' = 2
  /\ UNCHANGED <<phase, known, talk, unsent, events, pool, todo>>

\* process_restarts takes the entry of w off the table and spawns v under its
\* id: what is said under that id is then about v.
Restart(w, v) ==
  /\ phase = "running"
  /\ owed = 0
  /\ w \in failed
  /\ ~Present(v)
  /\ proc' = [proc EXCEPT ![v] = "booting"]
  /\ known' = (known \ {w}) \union {v}
  /\ failed' = failed \ {w}
  /\ events' = [i \in DOMAIN events |->
                 IF events[i] = {w} THEN {v} ELSE events[i]]
  /\ owed' = 1
  /\ UNCHANGED <<phase, talk, unsent, pool, todo>>

\* The same, and the spawn fails.
RestartFails(w) ==
  /\ phase = "running"
  /\ owed = 0
  /\ w \in failed
  /\ "spawn" \in Faults
  /\ known' = known \ {w}
  /\ failed' = failed \ {w}
  /\ UNCHANGED <<phase, proc, talk, unsent, events, owed, pool, todo>>

-----------------------------------------------------------------------------
(* The API.  A handler holds the lock, or gets it when the shutdown has    *)
(* returned and the process has not ended yet.                             *)

\* Mutant: the API's handler does not wait for the lock.
ApiSpawnUnlocked(w) ==
  /\ phase \notin {"starting", "binding"} /\ ~Over
  /\ ~Present(w)
  /\ proc' = [proc EXCEPT ![w] = "booting"]
  /\ known' = known \union {w}
  /\ UNCHANGED <<phase, failed, talk, unsent, events, owed, pool, todo>>

\* POST /workers/spawn
ApiSpawn(w) ==
  /\ phase \in {"running", "leaving"}
  /\ owed = 0
  /\ ~Present(w)
  /\ proc' = [proc EXCEPT ![w] = "booting"]
  /\ known' = known \union {w}
  /\ owed' = IF phase = "running" THEN 1 ELSE 0
  /\ UNCHANGED <<phase, failed, talk, unsent, events, pool, todo>>

\* The lines w prints when it is asked to stop: one for the request, one for
\* the signal, if it is there to take them.
LastLines(w) == IF proc[w] \in {"serving", "draining"} THEN 0..2 ELSE {0}

\* POST /workers/:id/drain and /kill: a process that runs is asked to drain (the
\* lines that brings are ProcAsked's) or killed.
ApiStops(w) ==
  /\ phase \in {"running", "leaving"}
  /\ owed = 0
  /\ w \in known
  /\ failed' = failed \ {w}
  /\ \/ UNCHANGED proc
     \/ Running(w) /\ proc' = [proc EXCEPT ![w] = "dead"]
  /\ UNCHANGED <<phase, known, talk, unsent, events, owed, pool, todo>>

\* POST /workers/:id/restart: w is stopped and reaped (its Exited is given up
\* after a while without room), v spawned, and the entry of w removed.
ApiRestart(w, v) ==
  /\ phase \in {"running", "leaving"}
  /\ owed = 0
  /\ w \in known
  /\ ~Present(v)
  /\ \E n \in LastLines(w) : unsent' = [unsent EXCEPT ![w] = @ + n]
  /\ events' = IF Running(w) /\ Len(events) < EventCap
                 THEN Append(events, {w}) ELSE events
  /\ LET stopped == [proc EXCEPT ![w] = "dead"] IN
     \/ /\ proc' = [stopped EXCEPT ![v] = "booting"]
        /\ known' = (known \ {w}) \union {v}
        /\ failed' = failed \ {w}
        /\ owed' = IF phase = "running" THEN 1 ELSE 0
     \/ /\ "leave" \in Faults
        /\ pool = PoolCap
        /\ proc' = [stopped EXCEPT ![v] = "booting"]
        /\ known' = known \union {v}
        /\ UNCHANGED <<failed, owed>>
     \/ /\ "spawn" \in Faults
        /\ proc' = stopped
        /\ failed' = failed \union {w}
        /\ UNCHANGED <<known, owed>>
  /\ UNCHANGED <<phase, talk, pool, todo>>

-----------------------------------------------------------------------------
(* shutdown()                                                              *)

\* SIGTERM or SIGINT: the main loop is dropped, with what it was sending; an
\* API handler sends its own first.
Signal ==
  /\ phase = "running"
  /\ phase' = "terminating"
  /\ owed' \in {1, owed + 1}
  /\ todo' = known
  /\ UNCHANGED <<proc, known, failed, talk, unsent, events, pool>>

\* terminate(): POST /api/drain and SIGTERM, a line for each that arrives.
Terminate(w) ==
  /\ phase = "terminating"
  /\ owed = 0
  /\ w \in todo
  /\ todo' = todo \ {w}
  /\ proc' = [proc EXCEPT ![w] = CASE @ = "booting" -> "dead"
                                   [] @ = "serving" -> "draining"
                                   [] OTHER -> @]
  /\ \E n \in LastLines(w) : unsent' = [unsent EXCEPT ![w] = @ + n]
  /\ UNCHANGED <<phase, known, failed, talk, events, owed, pool>>

Terminated ==
  /\ phase = "terminating"
  /\ owed = 0
  /\ todo = {}
  /\ phase' = "waiting"
  /\ UNCHANGED <<proc, known, failed, talk, unsent, events, owed, pool, todo>>

\* Mutant: the wait for the workers has no deadline.
StopWaitingWhenStopped ==
  /\ phase = "waiting"
  /\ \A w \in known : ~Running(w)
  /\ phase' = "reaping"
  /\ todo' = known
  /\ UNCHANGED <<proc, known, failed, talk, unsent, events, owed, pool>>

\* All have stopped, or the deadline has passed and the rest are killed.
StopWaiting ==
  /\ phase = "waiting"
  /\ phase' = "reaping"
  /\ proc' = [w \in Worker |->
               IF w \in known /\ Running(w) THEN "dead" ELSE proc[w]]
  /\ todo' = known
  /\ UNCHANGED <<known, failed, talk, unsent, events, owed, pool>>

\* Worker::wait sends Exited, on a channel nobody receives from any more.
Reap(w) ==
  /\ phase = "reaping"
  /\ w \in todo
  /\ Len(events) < EventCap
  /\ events' = Append(events, {w})
  /\ todo' = todo \ {w}
  /\ UNCHANGED <<phase, proc, known, failed, talk, unsent, owed, pool>>

\* shutdown() returns and releases the lock.
ShutdownReturns ==
  /\ phase = "reaping"
  /\ todo = {}
  /\ phase' = "leaving"
  /\ UNCHANGED <<proc, known, failed, talk, unsent, events, owed, pool, todo>>

Exit ==
  /\ phase = "leaving"
  /\ phase' = "exited"
  /\ UNCHANGED <<proc, known, failed, talk, unsent, events, owed, pool, todo>>

-----------------------------------------------------------------------------

Next ==
  \/ PoolSend
  \/ PoolReceive
  \/ Started
  \/ ApiUp
  \/ BootFails
  \/ SignalAtBoot
  \/ HandleEvent
  \/ Signal
  \/ Terminated
  \/ StopWaiting
  \/ ShutdownReturns
  \/ Exit
  \/ \E w \in Worker :
       \/ ReaderSend(w)
       \/ ProcReady(w)
       \/ ProcPrints(w)
       \/ ProcAsked(w)
       \/ ProcDrained(w)
       \/ ProcCrashes(w)
       \/ StartWorker(w)
       \/ HealthCheck(w)
       \/ RestartFails(w)
       \/ ApiSpawn(w)
       \/ ApiStops(w)
       \/ Terminate(w)
       \/ Reap(w)
       \/ \E v \in Worker :
            \/ Restart(w, v)
            \/ ApiRestart(w, v)

\* The supervisor's own steps; terminate() has timeouts and the wait a
\* deadline.  Nothing is assumed of the workers, the clients or the signal.
Fairness ==
  /\ WF_vars(PoolSend)
  /\ WF_vars(PoolReceive)
  /\ WF_vars(Started)
  /\ WF_vars(ApiUp)
  /\ WF_vars(Terminated)
  /\ WF_vars(StopWaiting)
  /\ WF_vars(ShutdownReturns)
  /\ WF_vars(Exit)
  /\ \A w \in Worker : /\ WF_vars(ReaderSend(w))
                       /\ WF_vars(StartWorker(w))
                       /\ WF_vars(Terminate(w))
                       /\ WF_vars(Reap(w))

Spec == Init /\ [][Next]_vars
FairSpec == Spec /\ Fairness

-----------------------------------------------------------------------------
(* Properties                                                              *)

\* Starting comes to an end: the supervisor comes up, or it gives up with an
\* error or is killed.  It needs a pool channel with room for one event per
\* worker.
BootEnds == <>(phase \notin {"starting", "binding"})

\* A shutdown that has begun ends, whatever the workers do, as long as there
\* is room on the event channel for the Exited of each worker it reaps.
RoomToReap == phase = "reaping" /\ todo # {} => Len(events) < EventCap

ShutdownEnds == []RoomToReap => (phase = "terminating" ~> phase = "exited")

\* A shutdown that has begun ends, however much the workers print ("graceful
\* shutdown timeout in milliseconds").
ShutdownAlwaysEnds == phase = "terminating" ~> phase = "exited"

\* When shutdown() returns none of the pool's own workers is running, and
\* that although the workers and the API's clients go on meanwhile.
ShutdownStopsItsWorkers ==
  [][phase = "reaping" /\ phase' = "leaving"
       => \A w \in known : ~Running(w)]_vars

\* When shutdown() returns no worker is running ("coordinated drain across
\* all workers").
ShutdownStopsAll ==
  [][phase = "reaping" /\ phase' = "leaving"
       => \A w \in Worker : ~Running(w)]_vars

\* No worker outlives the supervisor ("coordinated drain across all workers
\* on SIGTERM/SIGINT").
NoWorkerOutlivesSupervisor ==
  phase = "exited" => \A w \in Worker : ~Running(w)

=============================================================================
