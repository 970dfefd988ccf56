--------------------- MODULE SupervisorLifecycle_proofs ---------------------
(***************************************************************************)
(* What TLAPS proves of SupervisorLifecycle: its type correctness, and     *)
(* what shutdown() leaves behind when it returns.                          *)
(*                                                                         *)
(* Neither is inductive.  What the holder of the lock owes depends on      *)
(* whether a signal has come; between the wait and the return of           *)
(* shutdown() nobody can spawn or touch the table, for shutdown() holds    *)
(* the lock.  That no process is left over at all needs more: that the     *)
(* table holds every process that runs, which fails as soon as a process   *)
(* is taken for failed while it runs.  An Exited that comes late, after    *)
(* its id has been given to another process, is how that happens, and it   *)
(* takes a restart that did not go through.                                *)
(***************************************************************************)
EXTENDS SupervisorLifecycle, TLAPS

LifecycleInv ==
  /\ TypeOK
  /\ phase \in {"starting", "binding", "running"} => owed \in 0..2
  /\ phase = "reaping" => \A w \in known : ~Running(w)

LEMMA InitInv == Init => LifecycleInv
BY LifecycleAssumption DEF Init, LifecycleInv, TypeOK, Phases, Activities

\* The channels' steps move messages within the channels' capacities.
LEMMA ChannelStep ==
  ASSUME LifecycleInv,
         \/ PoolSend
         \/ PoolReceive
         \/ \E w \in Worker : ReaderSend(w)
  PROVE  LifecycleInv'
<1> USE LifecycleAssumption DEF LifecycleInv, TypeOK, Running
<1>1. CASE PoolSend
  BY <1>1 DEF PoolSend, Phases
<1>2. CASE PoolReceive
  BY <1>2 DEF PoolReceive
<1>3. ASSUME NEW w \in Worker, ReaderSend(w) PROVE LifecycleInv'
  <2>1. unsent' \in [Worker -> Nat]
    BY <1>3 DEF ReaderSend
  <2>2. events' \in Seq(SUBSET Worker) /\ Len(events') <= EventCap
    BY <1>3 DEF ReaderSend
  <2> QED
    BY <1>3, <2>1, <2>2 DEF ReaderSend
<1> QED
  BY <1>1, <1>2, <1>3

\* A process moves on by itself: none starts to run that did not.
LEMMA ProcessesMove ==
  ASSUME LifecycleInv, NEW w \in Worker,
         \/ ProcReady(w)
         \/ ProcPrints(w)
         \/ ProcAsked(w)
         \/ ProcDrained(w)
         \/ ProcCrashes(w)
  PROVE  LifecycleInv'
<1> USE LifecycleAssumption DEF LifecycleInv, TypeOK, Activities, Running
<1>1. CASE ProcReady(w)
  BY <1>1 DEF ProcReady
<1>2. CASE ProcPrints(w)
  BY <1>2 DEF ProcPrints
<1>3. CASE ProcAsked(w)
  BY <1>3 DEF ProcAsked
<1>4. CASE ProcDrained(w)
  BY <1>4 DEF ProcDrained
<1>5. CASE ProcCrashes(w)
  BY <1>5 DEF ProcCrashes
<1> QED
  BY <1>1, <1>2, <1>3, <1>4, <1>5

\* start() and what follows it, up to the main loop.
LEMMA Boots ==
  ASSUME LifecycleInv,
         \/ Started
         \/ ApiUp
         \/ BootFails
         \/ SignalAtBoot
         \/ \E w \in Worker : StartWorker(w)
  PROVE  LifecycleInv'
<1> USE LifecycleAssumption
<1> USE DEF LifecycleInv, TypeOK, Phases, Activities, Running
<1>1. CASE Started
  BY <1>1 DEF Started
<1>2. CASE ApiUp
  BY <1>2 DEF ApiUp
<1>3. CASE BootFails
  BY <1>3 DEF BootFails
<1>4. CASE SignalAtBoot
  BY <1>4 DEF SignalAtBoot
<1>5. ASSUME NEW w \in Worker, StartWorker(w) PROVE LifecycleInv'
  BY <1>5 DEF StartWorker
<1> QED
  BY <1>1, <1>2, <1>3, <1>4, <1>5

\* What is under way under the id of w, once v has it.
Renamed(w, v) ==
  [i \in DOMAIN events |-> IF events[i] = {w} THEN {v} ELSE events[i]]

LEMMA RenamedEvents ==
  ASSUME events \in Seq(SUBSET Worker), NEW w \in Worker, NEW v \in Worker
  PROVE  /\ Renamed(w, v) \in Seq(SUBSET Worker)
         /\ Len(Renamed(w, v)) = Len(events)
<1>1. /\ DOMAIN events = 1..Len(events) /\ Len(events) \in Nat
      /\ \A i \in 1..Len(events) : events[i] \in SUBSET Worker
  OBVIOUS
<1>2. Renamed(w, v) \in [1..Len(events) -> SUBSET Worker]
  BY <1>1 DEF Renamed
<1> QED
  BY <1>1, <1>2

\* The main loop and the API act while nobody shuts down, or after.
LEMMA LoopMoves ==
  ASSUME LifecycleInv,
         \/ HandleEvent
         \/ \E w \in Worker : HealthCheck(w) \/ RestartFails(w)
         \/ \E w, v \in Worker : Restart(w, v)
  PROVE  LifecycleInv'
<1> USE LifecycleAssumption DEF LifecycleInv, TypeOK, Activities, Running
<1>1. CASE HandleEvent
  <2>1. events' \in Seq(SUBSET Worker) /\ Len(events') <= EventCap
    BY <1>1 DEF HandleEvent
  <2>2. failed' \subseteq known'
    BY <1>1 DEF HandleEvent
  <2> QED
    BY <1>1, <2>1, <2>2 DEF HandleEvent
<1>2. ASSUME NEW w \in Worker, HealthCheck(w) PROVE LifecycleInv'
  <2>1. proc' \in [Worker -> Activities] /\ owed' \in 1..2
    BY <1>2 DEF HealthCheck
  <2>2. failed' \subseteq known'
    BY <1>2 DEF HealthCheck
  <2> QED
    BY <1>2, <2>1, <2>2 DEF HealthCheck
<1>3. ASSUME NEW w \in Worker, RestartFails(w) PROVE LifecycleInv'
  BY <1>3 DEF RestartFails
<1>4. ASSUME NEW w \in Worker, NEW v \in Worker, Restart(w, v)
      PROVE LifecycleInv'
  <2>1. events' \in Seq(SUBSET Worker) /\ Len(events') = Len(events)
    <3>1. events' = Renamed(w, v)
      BY <1>4 DEF Restart, Renamed
    <3> QED
      BY <3>1, RenamedEvents
  <2> QED
    BY <1>4, <2>1 DEF Restart
<1> QED
  BY <1>1, <1>2, <1>3, <1>4

LEMMA ApiMoves ==
  ASSUME LifecycleInv,
         \/ \E w \in Worker : ApiSpawn(w) \/ ApiStops(w)
         \/ \E w, v \in Worker : ApiRestart(w, v)
  PROVE  LifecycleInv'
<1> USE LifecycleAssumption DEF LifecycleInv, TypeOK, Activities, Running
<1>1. ASSUME NEW w \in Worker, ApiSpawn(w) PROVE LifecycleInv'
  BY <1>1 DEF ApiSpawn
<1>2. ASSUME NEW w \in Worker, ApiStops(w) PROVE LifecycleInv'
  BY <1>2 DEF ApiStops
<1>3. ASSUME NEW w \in Worker, NEW v \in Worker, ApiRestart(w, v)
      PROVE LifecycleInv'
  <2>1. phase # "reaping" /\ phase' = phase
    BY <1>3 DEF ApiRestart
  <2>2. unsent' \in [Worker -> Nat]
    BY <1>3 DEF ApiRestart, LastLines
  <2>3. events' \in Seq(SUBSET Worker) /\ Len(events') <= EventCap
    BY <1>3 DEF ApiRestart
  <2>4. proc' \in [Worker -> Activities]
    BY <1>3 DEF ApiRestart
  <2>5. failed' \subseteq known' /\ known' \subseteq Worker /\ owed' \in 0..1
    BY <1>3 DEF ApiRestart
  <2> QED
    BY <1>3, <2>1, <2>2, <2>3, <2>4, <2>5 DEF ApiRestart
<1> QED
  BY <1>1, <1>2, <1>3

\* shutdown(): at the deadline whoever the pool knows and still runs is killed.
LEMMA ShutdownMoves ==
  ASSUME LifecycleInv,
         \/ Signal
         \/ Terminated
         \/ StopWaiting
         \/ ShutdownReturns
         \/ Exit
         \/ \E w \in Worker : Terminate(w) \/ Reap(w)
  PROVE  LifecycleInv'
<1> USE LifecycleAssumption
<1> USE DEF LifecycleInv, TypeOK, Phases, Activities, Running
<1>1. CASE Signal
  BY <1>1 DEF Signal
<1>2. CASE Terminated
  BY <1>2 DEF Terminated
<1>3. CASE StopWaiting
  BY <1>3 DEF StopWaiting
<1>4. CASE ShutdownReturns
  BY <1>4 DEF ShutdownReturns
<1>5. CASE Exit
  BY <1>5 DEF Exit
<1>6. ASSUME NEW w \in Worker, Terminate(w) PROVE LifecycleInv'
  <2>1. unsent' \in [Worker -> Nat]
    BY <1>6 DEF Terminate, LastLines
  <2>2. proc' \in [Worker -> Activities]
    BY <1>6 DEF Terminate
  <2> QED
    BY <1>6, <2>1, <2>2 DEF Terminate
<1>7. ASSUME NEW w \in Worker, Reap(w) PROVE LifecycleInv'
  <2>1. events' \in Seq(SUBSET Worker) /\ Len(events') <= EventCap
    BY <1>7 DEF Reap
  <2> QED
    BY <1>7, <2>1 DEF Reap
<1> QED
  BY <1>1, <1>2, <1>3, <1>4, <1>5, <1>6, <1>7

LEMMA NextKeeps == LifecycleInv /\ [Next]_vars => LifecycleInv'
<1> SUFFICES ASSUME LifecycleInv, [Next]_vars
             PROVE  LifecycleInv'
  OBVIOUS
<1>1. CASE UNCHANGED vars
  BY <1>1 DEF vars, LifecycleInv, TypeOK, Running
<1>2. CASE Next
  BY <1>2, ChannelStep, ProcessesMove, Boots, LoopMoves, ApiMoves, ShutdownMoves
     DEF Next
<1> QED
  BY <1>1, <1>2

LEMMA LifecycleAlways == Spec => []LifecycleInv
BY InitInv, NextKeeps, PTL DEF Spec

-----------------------------------------------------------------------------

\* Every reachable state is well typed, for any number of workers, any
\* capacities, any faults and however much the workers print: no channel holds
\* more than it has room for, only entries of the table are taken for failed,
\* and no more than three of the pool's events wait to be sent at a time.
THEOREM TypeCorrect == Spec => []TypeOK
BY LifecycleAlways, PTL DEF LifecycleInv

\* shutdown() returns with none of the workers of its table running, whatever
\* the workers do: nothing can be spawned between the deadline and the return.
THEOREM ShutdownAlwaysStopsItsWorkers == Spec => ShutdownStopsItsWorkers
<1>1. LifecycleInv /\ [Next]_vars =>
        [phase = "reaping" /\ phase' = "leaving"
           => \A w \in known : ~Running(w)]_vars
  BY DEF LifecycleInv
<1> QED
  BY <1>1, LifecycleAlways, PTL DEF Spec, ShutdownStopsItsWorkers


-----------------------------------------------------------------------------

NothingLost == "spawn" \notin Faults /\ "leave" \notin Faults

\* The table holds every process that runs.  Until a signal comes, no process
\* that runs is taken for failed, nor is one in the table said to have exited:
\* restart_worker removes the entry its Exited is about.
TableInv ==
  /\ \A w \in Worker : Running(w) => w \in known
  /\ \A w \in known : Present(w)
  /\ phase \in {"starting", "binding", "running"} =>
       /\ \A w \in failed : ~Running(w)
       /\ \A i \in 1..Len(events) : \A w \in events[i] :
            Present(w) /\ w \notin known

\* A message more, and one less.
LEMMA MoreEvents ==
  ASSUME events \in Seq(SUBSET Worker), NEW e \in SUBSET Worker,
         NEW i \in 1..Len(Append(events, e))
  PROVE  \/ Append(events, e)[i] = e
         \/ i \in 1..Len(events) /\ Append(events, e)[i] = events[i]
OBVIOUS

LEMMA FewerEvents ==
  ASSUME events \in Seq(SUBSET Worker), events # <<>>,
         NEW i \in 1..Len(Tail(events))
  PROVE  /\ 1 \in 1..Len(events) /\ Head(events) = events[1]
         /\ i + 1 \in 1..Len(events) /\ Tail(events)[i] = events[i + 1]
OBVIOUS

LEMMA InitTable == Init => TableInv
BY DEF Init, TableInv, Running, Present

LEMMA TableStep ==
  ASSUME NothingLost, TypeOK, TableInv, [Next]_vars
  PROVE  TableInv'
<1> USE DEF TypeOK, TableInv, Running, Present
<1>1. CASE UNCHANGED vars
  BY <1>1 DEF vars
<1>2. CASE PoolSend
  BY <1>2 DEF PoolSend
<1>3. CASE PoolReceive
  BY <1>3 DEF PoolReceive
<1>4. ASSUME NEW w \in Worker, ReaderSend(w) PROVE TableInv'
  BY <1>4, MoreEvents DEF ReaderSend
<1>5. ASSUME NEW w \in Worker, ProcReady(w) PROVE TableInv'
  BY <1>5 DEF ProcReady
<1>6. ASSUME NEW w \in Worker, ProcPrints(w) PROVE TableInv'
  BY <1>6 DEF ProcPrints
<1>7. ASSUME NEW w \in Worker, ProcAsked(w) PROVE TableInv'
  BY <1>7 DEF ProcAsked
<1>8. ASSUME NEW w \in Worker, ProcDrained(w) PROVE TableInv'
  BY <1>8 DEF ProcDrained
<1>9. ASSUME NEW w \in Worker, ProcCrashes(w) PROVE TableInv'
  BY <1>9 DEF ProcCrashes
<1>10. ASSUME NEW w \in Worker, StartWorker(w) PROVE TableInv'
  BY <1>10 DEF StartWorker
<1>11. CASE Started \/ ApiUp \/ BootFails \/ SignalAtBoot
  BY <1>11 DEF Started, ApiUp, BootFails, SignalAtBoot
<1>12. CASE HandleEvent
  <2>1. failed' \subseteq failed
    BY <1>12 DEF HandleEvent
  <2>2. \A i \in 1..Len(events') :
          events'[i] \in {events[j] : j \in 1..Len(events)}
    BY <1>12, FewerEvents DEF HandleEvent
  <2> QED
    BY <1>12, <2>1, <2>2 DEF HandleEvent
<1>13. ASSUME NEW w \in Worker, HealthCheck(w) PROVE TableInv'
  BY <1>13 DEF HealthCheck
<1>14. ASSUME NEW w \in Worker, NEW v \in Worker, Restart(w, v) PROVE TableInv'
  <2>1. phase = "running" /\ w \in known /\ w \in failed
    BY <1>14 DEF Restart
  <2>2. \A i \in 1..Len(events) : events[i] # {w}
    BY <2>1
  <2>3. events' = events
    BY <1>14, <2>2 DEF Restart
  <2> QED
    BY <1>14, <2>1, <2>3 DEF Restart
<1>15. ASSUME NEW w \in Worker, RestartFails(w) PROVE TableInv'
  BY <1>15 DEF RestartFails, NothingLost
<1>16. ASSUME NEW w \in Worker, ApiSpawn(w) PROVE TableInv'
  BY <1>16 DEF ApiSpawn
<1>17. ASSUME NEW w \in Worker, ApiStops(w) PROVE TableInv'
  BY <1>17 DEF ApiStops
<1>18. ASSUME NEW w \in Worker, NEW v \in Worker, ApiRestart(w, v)
       PROVE  TableInv'
  <2>1. /\ w \in known /\ ~Present(v) /\ phase' = phase
        /\ proc' = [[proc EXCEPT ![w] = "dead"] EXCEPT ![v] = "booting"]
        /\ known' = (known \ {w}) \union {v}
        /\ failed' = failed \ {w}
        /\ events' \in {events, Append(events, {w})}
    BY <1>18 DEF ApiRestart, NothingLost
  <2>2. \A i \in 1..Len(events') :
          \/ events'[i] = {w}
          \/ i \in 1..Len(events) /\ events'[i] = events[i]
    BY <2>1, MoreEvents
  <2>3. w # v /\ Present(w) /\ Present(w)' /\ w \notin known'
    BY <2>1
  <2>4. \A u \in Worker : (Running(u) => u \in known)'
    BY <2>1, <2>3
  <2>5. \A u \in known' : Present(u)'
    BY <2>1, <2>3
  <2>6. \A u \in Worker : Present(u) => Present(u)' /\ u # v
    BY <2>1
  <2>7. \A u \in Worker : u \notin known /\ u # v => u \notin known'
    BY <2>1
  <2>8. ASSUME phase' \in {"starting", "binding", "running"}
        PROVE  /\ \A u \in failed' : ~Running(u)'
               /\ \A i \in 1..Len(events') : \A u \in events'[i] :
                    Present(u)' /\ u \notin known'
    <3>1. \A u \in failed' : ~Running(u)'
      BY <2>1, <2>3, <2>8
    <3>2. ASSUME NEW i \in 1..Len(events'), NEW u \in events'[i]
          PROVE  Present(u)' /\ u \notin known'
      <4>1. CASE events'[i] = {w}
        BY <3>2, <4>1, <2>3
      <4>2. CASE i \in 1..Len(events) /\ events'[i] = events[i]
        <5>1. u \in Worker /\ Present(u) /\ u \notin known
          BY <2>1, <2>8, <3>2, <4>2
        <5> QED
          BY <5>1, <2>6, <2>7
      <4> QED
        BY <2>2, <3>2, <4>1, <4>2
    <3> QED
      BY <3>1, <3>2
  <2> QED
    BY <2>4, <2>5, <2>8
<1>19. CASE Signal \/ Terminated \/ ShutdownReturns \/ Exit
  BY <1>19 DEF Signal, Terminated, ShutdownReturns, Exit
<1>20. ASSUME NEW w \in Worker, Terminate(w) PROVE TableInv'
  BY <1>20 DEF Terminate
<1>21. CASE StopWaiting
  BY <1>21 DEF StopWaiting
<1>22. ASSUME NEW w \in Worker, Reap(w) PROVE TableInv'
  BY <1>22 DEF Reap
<1> QED
  BY <1>1, <1>2, <1>3, <1>4, <1>5, <1>6, <1>7, <1>8, <1>9, <1>10, <1>11, <1>12,
     <1>13, <1>14, <1>15, <1>16, <1>17, <1>18, <1>19, <1>20, <1>21, <1>22
     DEF Next

\* As long as every spawn succeeds and no client leaves in the middle of a
\* restart, shutdown() returns with no worker process running at all: every
\* process that runs has an entry, for nothing takes one for failed before it
\* has exited.
THEOREM UndisturbedShutdownStopsAll ==
  ASSUME NothingLost
  PROVE  Spec => ShutdownStopsAll
<1>1. LifecycleInv /\ TableInv /\ [Next]_vars => TableInv'
  BY TableStep DEF LifecycleInv
<1>2. LifecycleInv /\ TableInv =>
        [phase = "reaping" /\ phase' = "leaving"
           => \A w \in Worker : ~Running(w)]_vars
  BY DEF LifecycleInv, TableInv
<1> QED
  BY <1>1, <1>2, InitTable, LifecycleAlways, PTL DEF Spec, ShutdownStopsAll

=============================================================================
