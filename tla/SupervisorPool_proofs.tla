------------------------ MODULE SupervisorPool_proofs ------------------------
(***************************************************************************)
(* Proofs about SupervisorPool, for every value of the constants that      *)
(* PoolAssumption allows.                                                  *)
(*                                                                         *)
(* Types and ports hold whether or not spawns fail.  That the table knows  *)
(* every process holds while spawns succeed (~SpawnMayFail): after a       *)
(* failed one the code goes wrong, see the run pool_orphan.                *)
(***************************************************************************)
EXTENDS SupervisorPool, PortRange, Backoff, FiniteSetTheorems,
        WellFoundedInduction, NaturalsInduction, TLAPS

\* What a health round still has to look at fits what it is doing: while the
\* lock is held nothing else changes the state of those workers.
TodoFits ==
  /\ round = "checking" => \A w \in todo : wstate[w] \in {"starting", "healthy"}
  /\ round = "restarting" => \A w \in todo : wstate[w] = "failed"

Base == TypeOK /\ TodoFits

-----------------------------------------------------------------------------
(* Data *)

\* A free port has a lowest one below it: the search of next_available_port
\* ends at a port of the range that no entry names.
LEMMA LowestPort ==
  ASSUME UsedPorts \subseteq Port, UsedPorts # Port
  PROVE  NextPort \in Port \ UsedPorts
<1> DEFINE less == {ss \in Nat \X Nat : ss[1] < ss[2]}
           free == Port \ UsedPorts
<1>1. IsWellFoundedOn(less, Nat)
  BY NatLessThanWellFounded DEF OpToRel
<1>2. free \subseteq Nat /\ free # {}
  <2>1. free # {}
    OBVIOUS
  <2>2. Port \subseteq Nat
    BY PoolAssumption DEF Port
  <2> QED
    BY <2>1, <2>2
<1>3. PICK n \in free : \A m \in free : ~(<<m, n>> \in less)
  BY <1>1, <1>2, WFMin
<1>4. ASSUME NEW m \in free
      PROVE  n <= m
  <2>1. n \in Nat /\ m \in Nat
    BY <1>2
  <2>2. ~(m < n)
    BY <1>3, <2>1
  <2> QED
    BY <2>1, <2>2
<1> QED
  BY <1>3, <1>4 DEF NextPort

LEMMA IncrementCounts ==
  ASSUME NEW n \in Count
  PROVE  Increment(n) \in Count
BY PoolAssumption DEF Count, Increment

LEMMA ZeroCounts == 0 \in Count /\ 0 \in 0..(MaxUnhealthy - 1)
BY PoolAssumption DEF Count

LEMMA PrintsType ==
  ASSUME TypeOK, NEW p \in Pid, NEW line \in Printed, Prints(p, line)
  PROVE  lines' \in [Pid -> Seq(Printed)]
<1>1. lines[p] \in Seq(Printed)
  BY DEF TypeOK
<1>2. Append(lines[p], line) \in Seq(Printed)
  BY <1>1
<1> QED
  BY <1>2 DEF TypeOK, Prints

LEMMA FreePidExists ==
  ASSUME TypeOK, CanSpawn
  PROVE  FreePids # {}
<1>1. IsFiniteSet(due)
  BY PoolAssumption, FS_Subset DEF TypeOK
<1>2. Cardinality(due) \in Nat
  BY <1>1, FS_CardinalityType
<1> QED
  BY <1>2, FS_EmptySet DEF CanSpawn

-----------------------------------------------------------------------------
(* Types *)

LEMMA InitBase == Init => Base
<1> SUFFICES ASSUME Init PROVE Base
  OBVIOUS
<1>1. \A p \in Pid : StarterOf(p) \in WorkerId
  <2> SUFFICES ASSUME NEW p \in Pid PROVE StarterOf(p) \in WorkerId
    OBVIOUS
  <2>1. \E w \in WorkerId : p \in {StartPid[v] : v \in WorkerId} => StartPid[w] = p
    BY PoolAssumption
  <2> QED
    BY <2>1 DEF StarterOf
<1>2. 0 \in Count /\ 0 \in 0..(MaxUnhealthy - 1)
  BY PoolAssumption DEF Count
<1>3. lines \in [Pid -> Seq(Printed)]
  BY DEF Init
<1> QED
  BY <1>1, <1>2, <1>3, PoolAssumption DEF Init, Base, TypeOK, TodoFits, States, Activities

LEMMA ProcessBase ==
  ASSUME Base, ProcessStep
  PROVE  Base'
<1> USE DEF Base, TypeOK, TodoFits, Activities, table, lock
<1>1. ASSUME NEW p \in Pid, ProcReady(p) PROVE Base'
  <2>1. lines' \in [Pid -> Seq(Printed)]
    BY <1>1, PrintsType DEF ProcReady, Printed
  <2> QED
    BY <1>1, <2>1 DEF ProcReady
<1>2. ASSUME NEW p \in Pid, ProcHangs(p) PROVE Base'
  BY <1>2 DEF ProcHangs
<1>3. ASSUME NEW p \in Pid, ProcRecovers(p) PROVE Base'
  BY <1>3 DEF ProcRecovers
<1>4. ASSUME NEW p \in Pid, ProcDrains(p) PROVE Base'
  <2>1. lines' \in [Pid -> Seq(Printed)]
    BY <1>4, PrintsType DEF ProcDrains, Printed
  <2> QED
    BY <1>4, <2>1 DEF ProcDrains
<1>5. ASSUME NEW p \in Pid, ProcDrained(p) PROVE Base'
  <2>1. lines' \in [Pid -> Seq(Printed)]
    BY <1>5, PrintsType DEF ProcDrained, Printed
  <2> QED
    BY <1>5, <2>1 DEF ProcDrained
<1>6. ASSUME NEW p \in Pid, ProcCrashes(p) PROVE Base'
  BY <1>6 DEF ProcCrashes
<1> QED
  BY <1>1, <1>2, <1>3, <1>4, <1>5, <1>6 DEF ProcessStep

LEMMA LoopBase ==
  ASSUME Base, LoopStep
  PROVE  Base'
<1> USE DEF Base, TypeOK, TodoFits, Activities, table, procs, lock
<1>1. ASSUME NEW p \in Pid, HandleLine(p) PROVE Base'
  <2>1. lines' \in [Pid -> Seq(Printed)]
    BY <1>1 DEF HandleLine
  <2>2. owner[p] \in WorkerId
    OBVIOUS
  <2>3. 0 \in Count
    BY PoolAssumption DEF Count
  <2>4. CASE HandleReady(owner[p])
    BY <1>1, <2>1, <2>2, <2>3, <2>4 DEF HandleLine, HandleReady, States, Present
  <2>5. CASE HandleDraining(owner[p])
    BY <1>1, <2>1, <2>2, <2>5 DEF HandleLine, HandleDraining, States, Present
  <2>6. CASE HandleDrained(owner[p])
    BY <1>1, <2>1, <2>6 DEF HandleLine, HandleDrained
  <2> QED
    BY <1>1, <2>4, <2>5, <2>6 DEF HandleLine
<1>2. ASSUME NEW e \in exits, HandleExited(e) PROVE Base'
  <2>1. e.id \in WorkerId
    BY <1>2
  <2>2. Increment(failures[e.id]) \in Count
    BY <2>1, IncrementCounts
  <2> QED
    <3>1. CASE UNCHANGED table
      BY <1>2, <3>1 DEF HandleExited
    <3>2. CASE /\ wstate' = [wstate EXCEPT ![e.id] = "stopped"]
               /\ wstate[e.id] # "failed"
               /\ UNCHANGED <<pidOf, portOf, failures, unhealthy, due>>
      <4>1. due' \subseteq {v \in WorkerId : wstate'[v] = "failed"}
        BY <2>1, <3>2
      <4> QED
        BY <1>2, <2>1, <3>2, <4>1 DEF HandleExited, States
    <3>3. CASE /\ wstate' = [wstate EXCEPT ![e.id] = "failed"]
               /\ failures' = [failures EXCEPT ![e.id] = Increment(@)]
               /\ UNCHANGED <<pidOf, portOf, unhealthy, due>>
      <4>1. due' \subseteq {v \in WorkerId : wstate'[v] = "failed"}
        BY <2>1, <3>3
      <4>2. failures' \in [WorkerId -> Count]
        BY <2>1, <2>2, <3>3
      <4> QED
        BY <1>2, <2>1, <3>3, <4>1, <4>2 DEF HandleExited, States
    <3> QED
      BY <1>2, <3>1, <3>2, <3>3 DEF HandleExited
<1>3. ASSUME NEW w \in WorkerId, TimePasses(w) PROVE Base'
  BY <1>3 DEF TimePasses
<1>4. ASSUME HealthBegin PROVE Base'
  BY <1>4 DEF HealthBegin
<1>5. ASSUME NEW w \in WorkerId, HealthOne(w) PROVE Base'
  <2>1. /\ wstate' \in [WorkerId -> States]
        /\ unhealthy' \in [WorkerId -> 0..(MaxUnhealthy - 1)]
        /\ failures' \in [WorkerId -> Count]
        /\ os' \in [Pid -> Activities]
        /\ \A v \in WorkerId \ {w} : wstate'[v] = wstate[v]
    <3> USE DEF States
    <3>0. ScheduleRestart(w) =>
            /\ wstate' \in [WorkerId -> States]
            /\ unhealthy' \in [WorkerId -> 0..(MaxUnhealthy - 1)]
            /\ failures' \in [WorkerId -> Count]
            /\ \A v \in WorkerId \ {w} : wstate'[v] = wstate[v]
      <4>1. Increment(failures[w]) \in Count
        BY IncrementCounts
      <4> QED
        BY <4>1, ZeroCounts DEF ScheduleRestart
    <3>1. CASE HealthAnswered(w)
      BY <3>1, ZeroCounts DEF HealthAnswered
    <3>2. CASE HealthFoundDead(w)
      BY <3>0, <3>2 DEF HealthFoundDead
    <3>3. CASE HealthMissed(w)
      <4>1. unhealthy[w] + 1 \in 0..(MaxUnhealthy - 1)
        <5>1. unhealthy[w] \in 0..(MaxUnhealthy - 1)
          OBVIOUS
        <5>2. unhealthy[w] + 1 < MaxUnhealthy
          BY <3>3 DEF HealthMissed
        <5> QED
          <6>1. MaxUnhealthy \in Nat
            BY PoolAssumption
          <6>2. unhealthy[w] \in Nat
            BY <5>1, <6>1
          <6> HIDE DEF Base, TypeOK, TodoFits
          <6> QED
            BY <5>2, <6>1, <6>2
      <4> QED
        BY <4>1, <3>3 DEF HealthMissed
    <3>4. CASE HealthGaveUp(w)
      BY <3>0, <3>4 DEF HealthGaveUp
    <3>5. CASE StillStarting(w)
      BY <3>5 DEF StillStarting
    <3> QED
      BY <1>5, <3>1, <3>2, <3>3, <3>4, <3>5 DEF HealthOne
  <2>2. w \notin due
    BY <1>5 DEF HealthOne
  <2> QED
    BY <1>5, <2>1, <2>2 DEF HealthOne
<1>6. ASSUME HealthEnd PROVE Base'
  BY <1>6 DEF HealthEnd
<1>7. ASSUME NEW w \in WorkerId, RestartOne(w) PROVE Base'
  <2> DEFINE p == CHOOSE q \in FreePids : TRUE
  <2>1. 0 \in Count /\ 0 \in 0..(MaxUnhealthy - 1)
    BY PoolAssumption DEF Count
  <2>2. FreePids # {} => p \in Pid
    BY DEF FreePids
  <2> HIDE DEF p
  <2>3. CASE /\ FreePids # {}
             /\ pidOf' = [pidOf EXCEPT ![w] = p]
             /\ wstate' = [wstate EXCEPT ![w] = "starting"]
             /\ os' = [os EXCEPT ![p] = "booting"]
             /\ owner' = [owner EXCEPT ![p] = w]
             /\ listen' = [listen EXCEPT ![p] = portOf[w]]
             /\ UNCHANGED failures
    BY <1>7, <2>1, <2>2, <2>3 DEF RestartOne, States
  <2>4. CASE /\ wstate' = [wstate EXCEPT ![w] = "absent"]
             /\ failures' = [failures EXCEPT ![w] = 0]
             /\ UNCHANGED <<pidOf, os, owner, listen>>
    BY <1>7, <2>1, <2>4 DEF RestartOne, States
  <2> QED
    BY <1>7, <2>3, <2>4 DEF RestartOne, p
<1>8. ASSUME RestartsDone PROVE Base'
  BY <1>8 DEF RestartsDone
<1> QED
  BY <1>1, <1>2, <1>3, <1>4, <1>5, <1>6, <1>7, <1>8 DEF LoopStep

\* What the two ways of spawning a worker with a fresh id have in common.
LEMMA SpawnType ==
  ASSUME TypeOK, NEW w \in WorkerId, NEW port \in Port,
         NEW states \in [WorkerId -> States],
         NEW activities \in [Pid -> Activities],
         SpawnWorker(w, port, states, activities)
  PROVE  /\ ~Present(w)
         /\ \E p \in FreePids :
              /\ wstate' = [states EXCEPT ![w] = "starting"]
              /\ pidOf' = [pidOf EXCEPT ![w] = p]
              /\ portOf' = [portOf EXCEPT ![w] = port]
              /\ os' = [activities EXCEPT ![p] = "booting"]
              /\ owner' = [owner EXCEPT ![p] = w]
              /\ listen' = [listen EXCEPT ![p] = port]
         /\ wstate' \in [WorkerId -> States]
         /\ pidOf' \in [WorkerId -> Pid]
         /\ portOf' \in [WorkerId -> Port]
         /\ failures' \in [WorkerId -> Count]
         /\ unhealthy' \in [WorkerId -> 0..(MaxUnhealthy - 1)]
         /\ os' \in [Pid -> Activities]
         /\ owner' \in [Pid -> WorkerId]
         /\ listen' \in [Pid -> Port]
<1> DEFINE p == CHOOSE q \in FreePids : TRUE
<1>1. 0 \in Count /\ 0 \in 0..(MaxUnhealthy - 1)
  BY PoolAssumption DEF Count
<1>2. p \in FreePids /\ p \in Pid
  BY FreePidExists DEF SpawnWorker, FreePids
<1> HIDE DEF p
<1>3. /\ wstate' = [states EXCEPT ![w] = "starting"]
      /\ pidOf' = [pidOf EXCEPT ![w] = p]
      /\ portOf' = [portOf EXCEPT ![w] = port]
      /\ failures' = [failures EXCEPT ![w] = 0]
      /\ unhealthy' = [unhealthy EXCEPT ![w] = 0]
      /\ os' = [activities EXCEPT ![p] = "booting"]
      /\ owner' = [owner EXCEPT ![p] = w]
      /\ listen' = [listen EXCEPT ![p] = port]
  BY DEF SpawnWorker, p
<1>4. ~Present(w)
  BY DEF SpawnWorker, FreshId
<1>5. /\ wstate' \in [WorkerId -> States]
      /\ pidOf' \in [WorkerId -> Pid]
      /\ portOf' \in [WorkerId -> Port]
      /\ failures' \in [WorkerId -> Count]
      /\ unhealthy' \in [WorkerId -> 0..(MaxUnhealthy - 1)]
      /\ os' \in [Pid -> Activities]
      /\ owner' \in [Pid -> WorkerId]
      /\ listen' \in [Pid -> Port]
  BY <1>1, <1>2, <1>3 DEF TypeOK, States, Activities
<1> QED
  BY <1>2, <1>3, <1>4, <1>5

LEMMA SpawnNewPort ==
  ASSUME TypeOK, NEW w \in WorkerId, SpawnNewWorker(w)
  PROVE  NextPort \in Port \ UsedPorts
<1>1. UsedPorts \subseteq Port /\ UsedPorts # Port
  BY DEF TypeOK, UsedPorts, SpawnNewWorker
<1> QED
  BY <1>1, LowestPort

\* The states and activities a restart hands to the spawn.
LEMMA ReplacedType ==
  ASSUME TypeOK, NEW old \in WorkerId
  PROVE  /\ [wstate EXCEPT ![old] = "absent"] \in [WorkerId -> States]
         /\ [os EXCEPT ![pidOf[old]] = "dead"] \in [Pid -> Activities]
BY DEF TypeOK, States, Activities

LEMMA ApiBase ==
  ASSUME Base, ApiStep
  PROVE  Base'
<1> USE DEF Base, TodoFits, lock
<1>1. ASSUME NEW w \in WorkerId, SpawnNewWorker(w) PROVE Base'
  <2>1. SpawnWorker(w, NextPort, wstate, os) /\ NextPort \in Port
    BY <1>1, SpawnNewPort DEF SpawnNewWorker
  <2>2. wstate \in [WorkerId -> States] /\ os \in [Pid -> Activities]
    BY DEF TypeOK
  <2>3. w \notin due
    BY <2>1 DEF TypeOK, SpawnWorker, FreshId, Present
  <2>4. \A v \in WorkerId \ {w} : wstate'[v] = wstate[v]
    BY <2>1, <2>2, SpawnType
  <2>5. TypeOK'
    BY <1>1, <2>1, <2>2, <2>3, <2>4, SpawnType DEF SpawnNewWorker, TypeOK
  <2> QED
    BY <1>1, <2>5 DEF SpawnNewWorker
<1>2. ASSUME NEW w \in WorkerId, DrainWorker(w) PROVE Base'
  <2>1. lines' \in [Pid -> Seq(Printed)]
    <3>1. pidOf[w] \in Pid
      BY DEF TypeOK
    <3>2. CASE os[pidOf[w]] = "serving"
      BY <1>2, <3>1, <3>2, PrintsType DEF DrainWorker, Printed
    <3>3. CASE os[pidOf[w]] # "serving"
      BY <1>2, <3>3 DEF DrainWorker, TypeOK
    <3> QED
      BY <3>2, <3>3
  <2>2. /\ wstate' \in [WorkerId -> States]
        /\ os' \in [Pid -> Activities]
        /\ due' \subseteq {v \in WorkerId : wstate'[v] = "failed"}
    BY <1>2 DEF DrainWorker, TypeOK, States, Activities
  <2> QED
    BY <1>2, <2>1, <2>2 DEF DrainWorker, TypeOK
<1>3. ASSUME NEW w \in WorkerId, KillWorker(w) \/ DrainAbandoned(w) PROVE Base'
  BY <1>3 DEF KillWorker, DrainAbandoned, procs, lock, TypeOK, States, Activities
<1>4. ASSUME NEW old \in WorkerId, RestartWorker(old) PROVE Base'
  <2>1. /\ lines' \in [Pid -> Seq(Printed)]
        /\ exits' \subseteq [id : WorkerId, clean : BOOLEAN]
    <3>1. CASE IsRunning(old)
      <4>1. PICK words \in LastWords(pidOf[old]) :
              /\ lines' = [lines EXCEPT ![pidOf[old]] = @ \o words]
              /\ exits' = exits \union
                   {[id |-> old,
                     clean |-> words # <<>> /\ words[Len(words)] = "worker.drained"]}
        BY <1>4, <3>1 DEF RestartWorker
      <4>2. words \in Seq(Printed)
        <5>1. /\ "worker.draining" \in Printed
              /\ "worker.drained" \in Printed
          BY DEF Printed
        <5>2. /\ <<>> \in Seq(Printed)
              /\ <<"worker.draining">> \in Seq(Printed)
              /\ <<"worker.drained">> \in Seq(Printed)
              /\ <<"worker.draining", "worker.drained">> \in Seq(Printed)
          BY <5>1
        <5> QED
          BY <5>2 DEF LastWords
      <4>3. lines' \in [Pid -> Seq(Printed)]
        <5>1. lines[pidOf[old]] \in Seq(Printed)
          BY DEF TypeOK
        <5>2. lines[pidOf[old]] \o words \in Seq(Printed)
          BY <4>2, <5>1
        <5> QED
          BY <4>1, <5>2 DEF TypeOK
      <4>4. exits' \subseteq [id : WorkerId, clean : BOOLEAN]
        <5> DEFINE clean == words # <<>> /\ words[Len(words)] = "worker.drained"
        <5>1. clean \in BOOLEAN
          OBVIOUS
        <5> HIDE DEF clean
        <5>2. [id |-> old, clean |-> clean] \in [id : WorkerId, clean : BOOLEAN]
          BY <5>1
        <5> QED
          BY <4>1, <5>2 DEF TypeOK, clean
      <4> QED
        BY <4>3, <4>4
    <3>2. CASE ~IsRunning(old)
      BY <1>4, <3>2 DEF RestartWorker, TypeOK
    <3> QED
      BY <3>1, <3>2
  <2>2. CASE \E new \in WorkerId : Replaced(old, new)
    <3>1. PICK new \in WorkerId : Replaced(old, new)
      BY <2>2
    <3> DEFINE states == [wstate EXCEPT ![old] = "absent"]
               activities == [os EXCEPT ![pidOf[old]] = "dead"]
    <3>2. SpawnWorker(new, portOf[old], states, activities)
      BY <3>1 DEF Replaced
    <3>3. /\ states \in [WorkerId -> States]
          /\ activities \in [Pid -> Activities]
          /\ portOf[old] \in Port
      BY ReplacedType DEF TypeOK
    <3>4. due' \subseteq {v \in WorkerId : wstate'[v] = "failed"}
      <4>1. new \notin due /\ due' = due \ {old}
        BY <3>1, <3>2 DEF TypeOK, SpawnWorker, FreshId, Present, Replaced
      <4>2. wstate' = [states EXCEPT ![new] = "starting"]
        BY <3>2 DEF SpawnWorker
      <4> QED
        BY <4>1, <4>2 DEF TypeOK
    <3> HIDE DEF states, activities
    <3>5. TypeOK'
      BY <1>4, <2>1, <3>2, <3>3, <3>4, SpawnType DEF RestartWorker, TypeOK
    <3> QED
      BY <1>4, <3>5 DEF RestartWorker
  <2>3. CASE NotReplaced(old)
    BY <1>4, <2>1, <2>3, IncrementCounts DEF RestartWorker, NotReplaced, TypeOK, States, Activities
  <2> QED
    BY <1>4, <2>2, <2>3 DEF RestartWorker
<1> QED
  BY <1>1, <1>2, <1>3, <1>4 DEF ApiStep

LEMMA BaseStep ==
  ASSUME Base, [Next]_vars
  PROVE  Base'
<1>1. CASE UNCHANGED vars
  BY <1>1 DEF Base, TypeOK, TodoFits, vars, table, procs, lock
<1> QED
  BY <1>1, ProcessBase, LoopBase, ApiBase DEF Next

\* The pool's table, the processes, their lines and the queued events are well
\* typed, whether or not spawns fail; failed workers only are due.
THEOREM TypeCorrect == Spec => []TypeOK
<1>1. Base /\ [Next]_vars => Base'
  BY BaseStep
<1>2. Base => TypeOK
  BY DEF Base
<1> QED
  BY InitBase, <1>1, <1>2, PTL DEF Spec

-----------------------------------------------------------------------------
(* Ports *)

\* An action that gives no entry a port and adds no entry keeps ports unique.
LEMMA PortsKept ==
  ASSUME PortsUnique, portOf' = portOf,
         \A w \in WorkerId : Present(w)' => Present(w)
  PROVE  PortsUnique'
BY DEF PortsUnique

\* A new entry with a port that no other entry names keeps ports unique.
LEMMA PortsAdded ==
  ASSUME TypeOK, PortsUnique, NEW w \in WorkerId, NEW port \in Port,
         portOf' = [portOf EXCEPT ![w] = port],
         \A v \in WorkerId \ {w} : Present(v)' => Present(v) /\ portOf[v] # port
  PROVE  PortsUnique'
<1> SUFFICES ASSUME NEW u \in WorkerId, NEW v \in WorkerId,
                    Present(u)', Present(v)', u # v
             PROVE  portOf'[u] # portOf'[v]
  BY DEF PortsUnique
<1>1. portOf'[w] = port /\ \A x \in WorkerId \ {w} : portOf'[x] = portOf[x]
  BY DEF TypeOK
<1>2. CASE u = w
  BY <1>1, <1>2
<1>3. CASE v = w
  BY <1>1, <1>3
<1>4. CASE u # w /\ v # w
  BY <1>1, <1>4 DEF PortsUnique
<1> QED
  BY <1>2, <1>3, <1>4

LEMMA InitPorts == Init => PortsUnique
BY PoolAssumption DEF Init, PortsUnique, Present

\* The main loop's actions add no entry: lines and events of an id without one
\* are dropped, and a health round looks at entries only.
LEMMA LoopPorts ==
  ASSUME Base, PortsUnique, LoopStep
  PROVE  PortsUnique'
<1> USE DEF Base, TypeOK, TodoFits, Present, table
<1> SUFFICES portOf' = portOf /\ \A w \in WorkerId : Present(w)' => Present(w)
  BY PortsKept
<1>1. ASSUME NEW p \in Pid, HandleLine(p)
      PROVE  portOf' = portOf /\ \A w \in WorkerId : Present(w)' => Present(w)
  BY <1>1 DEF HandleLine, HandleReady, HandleDraining, HandleDrained
<1>2. ASSUME NEW e \in exits, HandleExited(e)
      PROVE  portOf' = portOf /\ \A w \in WorkerId : Present(w)' => Present(w)
  BY <1>2 DEF HandleExited
<1>3. ASSUME NEW w \in WorkerId, TimePasses(w)
      PROVE  portOf' = portOf /\ wstate' = wstate
  BY <1>3 DEF TimePasses
<1>4. CASE HealthBegin \/ HealthEnd \/ RestartsDone
  BY <1>4 DEF HealthBegin, HealthEnd, RestartsDone
<1>5. ASSUME NEW w \in WorkerId, HealthOne(w)
      PROVE  portOf' = portOf /\ \A v \in WorkerId : Present(v)' => Present(v)
  BY <1>5 DEF HealthOne, HealthAnswered, HealthFoundDead, HealthMissed,
              HealthGaveUp, StillStarting, ScheduleRestart
<1>6. ASSUME NEW w \in WorkerId, RestartOne(w)
      PROVE  portOf' = portOf /\ \A v \in WorkerId : Present(v)' => Present(v)
  BY <1>6 DEF RestartOne
<1> QED
  BY <1>1, <1>2, <1>3, <1>4, <1>5, <1>6 DEF LoopStep

LEMMA ApiPorts ==
  ASSUME Base, PortsUnique, ApiStep
  PROVE  PortsUnique'
<1> USE DEF Base
<1>1. ASSUME NEW w \in WorkerId, SpawnNewWorker(w) PROVE PortsUnique'
  <2>1. SpawnWorker(w, NextPort, wstate, os) /\ NextPort \in Port \ UsedPorts
    BY <1>1, SpawnNewPort DEF SpawnNewWorker
  <2>2. wstate \in [WorkerId -> States] /\ os \in [Pid -> Activities]
    BY DEF TypeOK
  <2>3. /\ portOf' = [portOf EXCEPT ![w] = NextPort]
        /\ wstate' = [wstate EXCEPT ![w] = "starting"]
    BY <2>1, <2>2, SpawnType
  <2>4. \A v \in WorkerId \ {w} :
          Present(v)' => Present(v) /\ portOf[v] # NextPort
    BY <2>1, <2>2, <2>3 DEF Present, UsedPorts
  <2> QED
    BY <2>1, <2>3, <2>4, PortsAdded
<1>2. ASSUME NEW w \in WorkerId,
             DrainWorker(w) \/ DrainAbandoned(w) \/ KillWorker(w)
      PROVE  PortsUnique'
  BY <1>2, PortsKept DEF DrainWorker, DrainAbandoned, KillWorker, Present, TypeOK
<1>3. ASSUME NEW old \in WorkerId, RestartWorker(old) PROVE PortsUnique'
  <2>1. ASSUME NEW new \in WorkerId, Replaced(old, new) PROVE PortsUnique'
    <3> DEFINE states == [wstate EXCEPT ![old] = "absent"]
               activities == [os EXCEPT ![pidOf[old]] = "dead"]
    <3>1. /\ SpawnWorker(new, portOf[old], states, activities)
          /\ states \in [WorkerId -> States]
          /\ activities \in [Pid -> Activities]
          /\ portOf[old] \in Port
      BY <2>1, ReplacedType DEF Replaced, TypeOK
    <3>2. \A v \in WorkerId : states[v] = IF v = old THEN "absent" ELSE wstate[v]
      BY DEF TypeOK
    <3> HIDE DEF states, activities
    <3>3. /\ portOf' = [portOf EXCEPT ![new] = portOf[old]]
          /\ wstate' = [states EXCEPT ![new] = "starting"]
      BY <3>1, SpawnType
    <3>4. \A v \in WorkerId \ {new} :
            Present(v)' => Present(v) /\ portOf[v] # portOf[old]
      BY <1>3, <3>1, <3>2, <3>3 DEF Present, PortsUnique, RestartWorker
    <3> QED
      BY <3>1, <3>3, <3>4, PortsAdded
  <2>2. CASE NotReplaced(old)
    BY <1>3, <2>2, PortsKept DEF NotReplaced, RestartWorker, Present, TypeOK
  <2> QED
    BY <1>3, <2>1, <2>2 DEF RestartWorker
<1> QED
  BY <1>1, <1>2, <1>3 DEF ApiStep

LEMMA PortsStep ==
  ASSUME Base, PortsUnique, [Next]_vars
  PROVE  PortsUnique'
<1>1. CASE UNCHANGED vars
  BY <1>1, PortsKept DEF vars, table, Present
<1>2. CASE ProcessStep
  BY <1>2, PortsKept DEF ProcessStep, ProcReady, ProcHangs, ProcRecovers,
                         ProcDrains, ProcDrained, ProcCrashes, table, Present
<1> QED
  BY <1>1, <1>2, LoopPorts, ApiPorts DEF Next

\* No two entries of the table ever name one port, whether or not spawns fail:
\* next_available_port avoids them all, and a restart hands on the port of an
\* entry that goes.
THEOREM PortsAlwaysUnique == Spec => []PortsUnique
<1>1. Base /\ PortsUnique /\ [Next]_vars => (Base /\ PortsUnique)'
  BY BaseStep, PortsStep
<1> QED
  BY InitBase, InitPorts, <1>1, PTL DEF Spec

-----------------------------------------------------------------------------
(* Table and processes, while spawns succeed *)

\* Events are only queued for ids that a restart has removed: none is handled
\* against an entry.
ExitsAreOfGone == \A e \in exits : ~Present(e.id)

Sound == NoOrphans /\ DownMeansDead /\ ExitsAreOfGone

\* What most actions do: processes end but none begins, entries keep their
\* process and their port, and those called down have no live process.
LEMMA SoundKept ==
  ASSUME TypeOK, Sound,
         pidOf' = pidOf, portOf' = portOf, owner' = owner, listen' = listen,
         exits' \subseteq exits,
         \A p \in Pid : Alive(p)' => Alive(p),
         \A w \in WorkerId : Present(w)' <=> Present(w),
         \A w \in WorkerId : wstate'[w] \in {"failed", "stopped"} =>
                               \/ wstate[w] \in {"failed", "stopped"}
                               \/ ~Alive(pidOf[w])'
  PROVE  Sound'
<1>1. NoOrphans'
  BY DEF Sound, NoOrphans, TypeOK
<1>2. DownMeansDead'
  BY DEF Sound, DownMeansDead, IsRunning, Alive, TypeOK
<1>3. ExitsAreOfGone'
  BY DEF Sound, ExitsAreOfGone, TypeOK
<1> QED
  BY <1>1, <1>2, <1>3 DEF Sound

LEMMA InitSound == Init => Sound
<1> SUFFICES ASSUME Init PROVE Sound
  OBVIOUS
<1> USE DEF Init
<1>1. NoOrphans
  <2> SUFFICES ASSUME NEW p \in Pid, Alive(p)
               PROVE  /\ Present(owner[p])
                      /\ pidOf[owner[p]] = p
                      /\ portOf[owner[p]] = listen[p]
    BY DEF NoOrphans
  <2>1. PICK w \in Started : StartPid[w] = p
    BY DEF Alive
  <2>2. w \in WorkerId /\ p \in {StartPid[v] : v \in WorkerId}
    BY <2>1, PoolAssumption
  <2>3. StarterOf(p) \in WorkerId /\ StartPid[StarterOf(p)] = p
    <3>1. \E v \in WorkerId :
            p \in {StartPid[x] : x \in WorkerId} => StartPid[v] = p
      BY <2>1, <2>2
    <3>2. /\ StarterOf(p) \in WorkerId
          /\ p \in {StartPid[x] : x \in WorkerId} => StartPid[StarterOf(p)] = p
      BY <3>1 DEF StarterOf
    <3> QED
      BY <3>2, <2>2
  <2>4. StarterOf(p) = w
    BY <2>1, <2>2, <2>3, PoolAssumption
  <2> QED
    BY <2>1, <2>2, <2>4 DEF Present
<1>2. DownMeansDead /\ ExitsAreOfGone
  BY DEF DownMeansDead, ExitsAreOfGone
<1> QED
  BY <1>1, <1>2 DEF Sound

LEMMA ProcessSound ==
  ASSUME Base, Sound, ProcessStep
  PROVE  Sound'
<1> SUFFICES /\ pidOf' = pidOf /\ portOf' = portOf /\ wstate' = wstate
             /\ owner' = owner /\ listen' = listen /\ exits' = exits
             /\ \A p \in Pid : Alive(p)' => Alive(p)
  BY SoundKept DEF Base, Present
<1> QED
  BY DEF Base, TypeOK, ProcessStep, ProcReady, ProcHangs, ProcRecovers,
         ProcDrains, ProcDrained, ProcCrashes, table, Alive

\* One worker's check: a worker is called down only when it was found without a
\* process or its process was killed.
LEMMA HealthSound ==
  ASSUME Base, Sound, NEW w \in WorkerId, HealthOne(w)
  PROVE  Sound'
<1> USE DEF Base, TypeOK, Present, IsRunning, Alive
<1>1. wstate[w] \in {"starting", "healthy"}
  BY DEF TodoFits, HealthOne
<1>2. /\ pidOf' = pidOf /\ portOf' = portOf
      /\ owner' = owner /\ listen' = listen /\ exits' = exits
  BY DEF HealthOne
<1>3. /\ \A p \in Pid : Alive(p)' => Alive(p)
      /\ \A v \in WorkerId \ {w} : wstate'[v] = wstate[v]
      /\ wstate'[w] # "absent"
      /\ wstate'[w] \in {"failed", "stopped"} => ~Alive(pidOf[w])'
  <2>1. CASE HealthAnswered(w)
    BY <2>1 DEF HealthAnswered
  <2>2. CASE HealthFoundDead(w)
    BY <1>2, <2>2 DEF HealthFoundDead, ScheduleRestart
  <2>3. CASE HealthMissed(w)
    BY <1>1, <2>3 DEF HealthMissed
  <2>4. CASE HealthGaveUp(w)
    BY <1>2, <2>4 DEF HealthGaveUp, ScheduleRestart
  <2>5. CASE StillStarting(w)
    BY <1>1, <2>5 DEF StillStarting
  <2> QED
    BY <2>1, <2>2, <2>3, <2>4, <2>5 DEF HealthOne
<1>4. /\ \A v \in WorkerId : Present(v)' <=> Present(v)
      /\ \A v \in WorkerId : wstate'[v] \in {"failed", "stopped"} =>
                               \/ wstate[v] \in {"failed", "stopped"}
                               \/ ~Alive(pidOf[v])'
  BY <1>1, <1>3
<1> HIDE DEF TypeOK, Present, IsRunning, Alive
<1> QED
  BY <1>2, <1>3, <1>4, SoundKept

\* A restart gives the entry another process only when the old one is gone:
\* the entry is failed, hence down, hence dead.
LEMMA RestartSound ==
  ASSUME Base, Sound, ~SpawnMayFail, NEW w \in WorkerId, RestartOne(w)
  PROVE  Sound'
<1> DEFINE p == CHOOSE q \in FreePids : TRUE
<1>1. FreePids # {} => p \in FreePids
  OBVIOUS
<1> HIDE DEF p
<1>2. /\ p \in FreePids /\ p \in Pid
      /\ pidOf' = [pidOf EXCEPT ![w] = p]
      /\ wstate' = [wstate EXCEPT ![w] = "starting"]
      /\ os' = [os EXCEPT ![p] = "booting"]
      /\ owner' = [owner EXCEPT ![p] = w]
      /\ listen' = [listen EXCEPT ![p] = portOf[w]]
      /\ portOf' = portOf /\ exits' = exits
  BY <1>1 DEF RestartOne, FreePids, p
<1>3. wstate[w] = "failed" /\ ~Alive(pidOf[w])
  BY DEF Base, TodoFits, RestartOne, Sound, DownMeansDead, IsRunning
<1> USE DEF Base, TypeOK, Present, Alive
<1>4. NoOrphans'
  BY <1>2, <1>3 DEF Sound, NoOrphans
<1>5. DownMeansDead'
  <2> SUFFICES ASSUME NEW v \in WorkerId, wstate'[v] \in {"failed", "stopped"}
               PROVE  ~IsRunning(v)'
    BY DEF DownMeansDead
  <2>1. v # w /\ wstate'[v] = wstate[v] /\ pidOf'[v] = pidOf[v] /\ pidOf[v] # p
    BY <1>2 DEF FreePids
  <2> QED
    BY <1>2, <2>1 DEF Sound, DownMeansDead, IsRunning
<1>6. ExitsAreOfGone'
  BY <1>2, <1>3 DEF Sound, ExitsAreOfGone
<1> QED
  BY <1>4, <1>5, <1>6 DEF Sound

LEMMA LoopSound ==
  ASSUME Base, Sound, ~SpawnMayFail, LoopStep
  PROVE  Sound'
<1>1. ASSUME NEW p \in Pid, HandleLine(p) PROVE Sound'
  <2>1. /\ pidOf' = pidOf /\ portOf' = portOf /\ os' = os
        /\ owner' = owner /\ listen' = listen /\ exits' = exits
        /\ \A w \in WorkerId :
             \/ wstate'[w] = wstate[w]
             \/ wstate[w] # "absent" /\ wstate'[w] \in {"healthy", "draining"}
    <3>0. os' = os /\ owner' = owner /\ listen' = listen /\ exits' = exits
      BY <1>1 DEF HandleLine
    <3>1. ASSUME NEW w \in WorkerId, HandleReady(w) \/ HandleDraining(w)
          PROVE  /\ pidOf' = pidOf /\ portOf' = portOf
                 /\ \A v \in WorkerId :
                      \/ wstate'[v] = wstate[v]
                      \/ wstate[v] # "absent" /\ wstate'[v] \in {"healthy", "draining"}
      BY <3>1 DEF HandleReady, HandleDraining, Present, Base, TypeOK
    <3>2. owner[p] \in WorkerId
      BY DEF Base, TypeOK
    <3>3. CASE HandleDrained(owner[p])
      BY <3>0, <3>3 DEF HandleDrained, table
    <3> QED
      BY <1>1, <3>0, <3>1, <3>2, <3>3 DEF HandleLine
  <2>2. \A q \in Pid : Alive(q)' => Alive(q)
    BY <2>1 DEF Alive
  <2>3. /\ \A w \in WorkerId : Present(w)' <=> Present(w)
        /\ \A w \in WorkerId : wstate'[w] \in {"failed", "stopped"} =>
                                 wstate[w] \in {"failed", "stopped"}
    BY <2>1 DEF Present
  <2> QED
    BY <2>1, <2>2, <2>3, SoundKept DEF Base
<1>2. ASSUME NEW e \in exits, HandleExited(e) PROVE Sound'
  <2>1. /\ UNCHANGED <<table, procs>>
        /\ exits' \subseteq exits
    BY <1>2 DEF HandleExited, Sound, ExitsAreOfGone, Present
  <2> QED
    BY <2>1, SoundKept DEF table, procs, Base, Present, Alive
<1>3. CASE \/ \E w \in WorkerId : TimePasses(w)
           \/ HealthBegin \/ HealthEnd \/ RestartsDone
  BY <1>3, SoundKept DEF TimePasses, HealthBegin, HealthEnd, RestartsDone,
                         table, procs, Base, Present, Alive
<1> QED
  BY <1>1, <1>2, <1>3, HealthSound, RestartSound DEF LoopStep

\* A spawn for a new id keeps the table sound, once the entry it replaces, if
\* any, is gone from the table together with its process.
LEMMA SpawnSound ==
  ASSUME TypeOK, NEW w \in WorkerId, NEW port \in Port,
         NEW states \in [WorkerId -> States],
         NEW activities \in [Pid -> Activities],
         SpawnWorker(w, port, states, activities),
         \A v \in WorkerId : states[v] \in {wstate[v], "absent"},
         \A q \in Pid : activities[q] \in {os[q], "dead"},
         \A q \in Pid : activities[q] # "dead" =>
           /\ states[owner[q]] # "absent"
           /\ pidOf[owner[q]] = q
           /\ portOf[owner[q]] = listen[q],
         DownMeansDead,
         \A e \in exits' : e.id \in WorkerId /\ e.id # w /\ states[e.id] = "absent"
  PROVE  Sound'
<1> DEFINE p == CHOOSE q \in FreePids : TRUE
<1>1. /\ p \in FreePids
      /\ wstate' = [states EXCEPT ![w] = "starting"]
      /\ pidOf' = [pidOf EXCEPT ![w] = p]
      /\ portOf' = [portOf EXCEPT ![w] = port]
      /\ os' = [activities EXCEPT ![p] = "booting"]
      /\ owner' = [owner EXCEPT ![p] = w]
      /\ listen' = [listen EXCEPT ![p] = port]
  <2>1. FreePids # {}
    BY FreePidExists DEF SpawnWorker
  <2> QED
    BY <2>1 DEF SpawnWorker
<1>2. p \in Pid /\ wstate[w] = "absent"
  BY <1>1 DEF FreePids, SpawnWorker, FreshId, Present
<1> HIDE DEF p
<1> USE DEF TypeOK, Present, Alive
<1>3. NoOrphans'
  <2> SUFFICES ASSUME NEW q \in Pid, Alive(q)'
               PROVE  /\ Present(owner[q])'
                      /\ pidOf'[owner'[q]] = q
                      /\ portOf'[owner'[q]] = listen'[q]
    BY DEF NoOrphans
  <2>1. CASE q = p
    BY <1>1, <1>2, <2>1
  <2>2. CASE q # p
    <3>1. activities[q] # "dead" /\ owner'[q] = owner[q] /\ listen'[q] = listen[q]
      BY <1>1, <1>2, <2>2
    <3>2. owner[q] \in WorkerId /\ owner[q] # w
      BY <1>2, <3>1
    <3> QED
      BY <1>1, <3>1, <3>2
  <2> QED
    BY <2>1, <2>2
<1>4. DownMeansDead'
  <2> SUFFICES ASSUME NEW v \in WorkerId, wstate'[v] \in {"failed", "stopped"}
               PROVE  ~IsRunning(v)'
    BY DEF DownMeansDead
  <2>1. /\ v # w /\ wstate[v] \in {"failed", "stopped"}
        /\ pidOf'[v] = pidOf[v] /\ pidOf[v] # p
    BY <1>1 DEF FreePids
  <2> QED
    BY <1>1, <1>2, <2>1 DEF DownMeansDead, IsRunning
<1>5. ExitsAreOfGone'
  BY <1>1 DEF ExitsAreOfGone
<1> QED
  BY <1>3, <1>4, <1>5 DEF Sound

LEMMA ApiSound ==
  ASSUME Base, Sound, ~SpawnMayFail, ApiStep
  PROVE  Sound'
<1> USE DEF Base
<1>1. ASSUME NEW w \in WorkerId, SpawnNewWorker(w) PROVE Sound'
  <2>1. /\ SpawnWorker(w, NextPort, wstate, os)
        /\ NextPort \in Port
        /\ exits' = exits
    BY <1>1, SpawnNewPort DEF SpawnNewWorker
  <2>2. wstate \in [WorkerId -> States] /\ os \in [Pid -> Activities]
    BY DEF TypeOK
  <2>3. \A q \in Pid : os[q] # "dead" =>
          /\ wstate[owner[q]] # "absent"
          /\ pidOf[owner[q]] = q
          /\ portOf[owner[q]] = listen[q]
    BY DEF Sound, NoOrphans, Alive, Present
  <2>4. \A e \in exits' : e.id \in WorkerId /\ e.id # w /\ wstate[e.id] = "absent"
    BY <2>1 DEF SpawnWorker, FreshId, TypeOK, Sound, ExitsAreOfGone, Present
  <2> QED
    BY <2>1, <2>2, <2>3, <2>4, SpawnSound DEF Sound
<1>2. ASSUME NEW w \in WorkerId,
             DrainWorker(w) \/ DrainAbandoned(w) \/ KillWorker(w)
      PROVE  Sound'
  <2> USE DEF TypeOK, Present, IsRunning, Alive
  <2>1. /\ pidOf' = pidOf /\ portOf' = portOf
        /\ owner' = owner /\ listen' = listen /\ exits' = exits
    BY <1>2 DEF DrainWorker, DrainAbandoned, KillWorker, procs
  <2>2. /\ \A p \in Pid : Alive(p)' => Alive(p)
        /\ \A v \in WorkerId \ {w} : wstate'[v] = wstate[v]
        /\ wstate[w] # "absent" /\ wstate'[w] # "absent"
        /\ wstate'[w] \in {"failed", "stopped"} => ~Alive(pidOf[w])'
    <3>1. CASE DrainWorker(w)
      BY <3>1 DEF DrainWorker
    <3>2. CASE KillWorker(w) \/ DrainAbandoned(w)
      BY <3>2 DEF KillWorker, DrainAbandoned, procs
    <3> QED
      BY <1>2, <3>1, <3>2
  <2>3. /\ \A v \in WorkerId : Present(v)' <=> Present(v)
        /\ \A v \in WorkerId : wstate'[v] \in {"failed", "stopped"} =>
                                 \/ wstate[v] \in {"failed", "stopped"}
                                 \/ ~Alive(pidOf[v])'
    BY <2>2
  <2> HIDE DEF TypeOK, Present, IsRunning, Alive
  <2> QED
    BY <2>1, <2>2, <2>3, SoundKept
<1>3. ASSUME NEW old \in WorkerId, RestartWorker(old) PROVE Sound'
  <2> DEFINE states == [wstate EXCEPT ![old] = "absent"]
             activities == [os EXCEPT ![pidOf[old]] = "dead"]
  <2>1. PICK new \in WorkerId : SpawnWorker(new, portOf[old], states, activities)
    BY <1>3 DEF RestartWorker, Replaced, NotReplaced
  <2>2. /\ states \in [WorkerId -> States]
        /\ activities \in [Pid -> Activities]
        /\ portOf[old] \in Port
    BY ReplacedType DEF TypeOK
  <2>3. /\ \A v \in WorkerId : states[v] = IF v = old THEN "absent" ELSE wstate[v]
        /\ \A q \in Pid : activities[q] = IF q = pidOf[old] THEN "dead" ELSE os[q]
    BY DEF TypeOK
  <2> HIDE DEF states, activities
  <2>4. \A q \in Pid : activities[q] # "dead" =>
          /\ states[owner[q]] # "absent"
          /\ pidOf[owner[q]] = q
          /\ portOf[owner[q]] = listen[q]
    BY <2>3 DEF Sound, NoOrphans, Alive, Present, TypeOK
  <2>5. Present(old) /\ ~Present(new) /\ \A e \in exits : e.id # new
    BY <1>3, <2>1 DEF RestartWorker, SpawnWorker, FreshId
  <2>6. \A e \in exits' : e \in exits \/ e.id = old
    BY <1>3 DEF RestartWorker
  <2>7. \A e \in exits' : e.id \in WorkerId /\ e.id # new /\ states[e.id] = "absent"
    BY <2>3, <2>5, <2>6 DEF Sound, ExitsAreOfGone, Present, TypeOK
  <2>8. /\ \A v \in WorkerId : states[v] \in {wstate[v], "absent"}
        /\ \A q \in Pid : activities[q] \in {os[q], "dead"}
    BY <2>3
  <2> QED
    BY <2>1, <2>2, <2>4, <2>7, <2>8, SpawnSound DEF Sound
<1> QED
  BY <1>1, <1>2, <1>3 DEF ApiStep

LEMMA SoundStep ==
  ASSUME Base, Sound, ~SpawnMayFail, [Next]_vars
  PROVE  Sound'
<1>1. CASE UNCHANGED vars
  BY <1>1, SoundKept DEF vars, table, procs, Base, Present, Alive
<1> QED
  BY <1>1, ProcessSound, LoopSound, ApiSound DEF Next

\* While spawns succeed, table and processes agree at all times: the facts the
\* theorems below state one by one, with the ports.
LEMMA AlwaysSound ==
  ASSUME ~SpawnMayFail
  PROVE  Spec => [](Base /\ Sound /\ PortsUnique)
<1>1. Init => Base /\ Sound /\ PortsUnique
  BY InitBase, InitSound, InitPorts
<1>2. Base /\ Sound /\ PortsUnique /\ [Next]_vars => (Base /\ Sound /\ PortsUnique)'
  BY BaseStep, SoundStep, PortsStep
<1> QED
  BY <1>1, <1>2, PTL DEF Spec

\* While spawns succeed, every live process is the one its worker's entry
\* holds, under the entry's port: drains, kills and the shutdown reach it.
THEOREM NeverOrphans ==
  ASSUME ~SpawnMayFail
  PROVE  Spec => []NoOrphans
<1>1. Sound => NoOrphans
  BY DEF Sound
<1> QED
  BY <1>1, AlwaysSound, PTL

\* While spawns succeed, an entry called failed or stopped has no live process:
\* process_restarts never doubles one.
THEOREM AlwaysDownMeansDead ==
  ASSUME ~SpawnMayFail
  PROVE  Spec => []DownMeansDead
<1>1. Sound => DownMeansDead
  BY DEF Sound
<1> QED
  BY <1>1, AlwaysSound, PTL

\* While spawns succeed, no two live processes are given one port: their
\* entries differ, and entries have different ports.
THEOREM AlwaysOneProcessPerPort ==
  ASSUME ~SpawnMayFail
  PROVE  Spec => []OneProcessPerPort
<1>1. ASSUME Base, Sound, PortsUnique PROVE OneProcessPerPort
  <2> SUFFICES ASSUME NEW p \in Pid, NEW q \in Pid, Alive(p), Alive(q), p # q
               PROVE  listen[p] # listen[q]
    BY DEF OneProcessPerPort
  <2>1. /\ owner[p] \in WorkerId /\ Present(owner[p])
        /\ owner[q] \in WorkerId /\ Present(owner[q])
        /\ pidOf[owner[p]] = p /\ pidOf[owner[q]] = q
        /\ portOf[owner[p]] = listen[p] /\ portOf[owner[q]] = listen[q]
    BY <1>1 DEF Base, TypeOK, Sound, NoOrphans
  <2>2. owner[p] # owner[q]
    BY <2>1
  <2> QED
    BY <1>1, <2>1, <2>2 DEF PortsUnique
<1> QED
  BY <1>1, AlwaysSound, PTL

-----------------------------------------------------------------------------
(* The ports a pool starts with *)

LEMMA AsU16Keeps ==
  ASSUME NEW n \in Nat, n <= MaxU16
  PROVE  AsU16(n) = n
BY DEF AsU16, MaxU16

LEMMA BetweenPorts ==
  ASSUME NEW base \in U16, NEW n \in Nat, base + n \in U16,
         NEW i \in 0..n, NEW j \in 0..n
  PROVE  /\ base + i \in U16 /\ base <= base + i /\ base + i <= base + n
         /\ i # j => base + i # base + j
<1>1. MaxU16 \in Nat
  BY DEF MaxU16
<1> QED
  BY <1>1 DEF U16

\* A pool of at most 65536 workers that WorkerPool::new accepts starts every
\* worker on a port of its own, a u16 from base_port to max_port: the addition
\* in start(), which nothing checks, does not overflow.  Beyond 65536 workers
\* the check looks at the last 16 bits of the count only.  PoolAssumption takes
\* of StartPort what this proves.
THEOREM StartPortsInRange ==
  ASSUME NEW base \in U16, NEW top \in U16, NEW count \in Nat,
         count <= MaxU16 + 1, Accepts(base, count, top),
         NEW i \in 0..(count - 1), NEW j \in 0..(count - 1)
  PROVE  /\ PortGiven(base, i) \in U16
         /\ base <= PortGiven(base, i) /\ PortGiven(base, i) <= top
         /\ i # j => PortGiven(base, i) # PortGiven(base, j)
<1> DEFINE n == count - 1
<1>1. MaxU16 \in Nat
  BY DEF MaxU16
<1>2. /\ count > 0 /\ n \in Nat /\ n <= MaxU16
      /\ i \in Nat /\ i <= n /\ j \in Nat /\ j <= n
  BY <1>1
<1>3. AsU16(i) = i /\ AsU16(j) = j /\ AsU16(n) = n
  BY <1>1, <1>2, AsU16Keeps
<1>4. base + n \in U16 /\ base + n <= top
  BY <1>2, <1>3 DEF Accepts
<1>5. /\ base + i \in U16 /\ base <= base + i /\ base + i <= base + n
      /\ i # j => base + i # base + j
  BY <1>2, <1>4, BetweenPorts
<1>6. base + i <= top
  <2>1. base \in Int /\ top \in Int
    BY <1>1 DEF U16
  <2> QED
    BY <1>2, <1>4, <1>5, <2>1
<1>7. PortGiven(base, i) = base + i /\ PortGiven(base, j) = base + j
  BY <1>3 DEF PortGiven
<1> QED
  BY <1>5, <1>6, <1>7

-----------------------------------------------------------------------------
(* The wait before a restart *)

\* A set of natural numbers that holds 0 and all successors of its members
\* holds them all.
LEMMA InductionOnSets ==
  ASSUME NEW P, 0 \in P, \A n \in Nat : n \in P => n + 1 \in P
  PROVE  Nat \subseteq P
<1> DEFINE rest == Nat \ P
<1> SUFFICES ASSUME rest # {} PROVE FALSE
  OBVIOUS
<1>1. PICK n \in rest : \A m \in rest : ~ (<<m, n>> \in OpToRel(<, Nat))
  BY NatLessThanWellFounded, WFMin
<1>2. \A m \in rest : ~ (m < n)
  BY <1>1 DEF OpToRel
<1>3. n - 1 \in P
  BY <1>2
<1> QED
  BY <1>3

\* f holds the powers of 2 up to the k-th.
Powers(f, k) == f = [n \in 0..k |-> IF n = 0 THEN 1 ELSE 2 * f[n - 1]]

LEMMA PowersExist ==
  ASSUME NEW k \in Nat
  PROVE  \E f : Powers(f, k)
<1> DEFINE P == {n \in Nat : \E f : Powers(f, n)}
<1>1. 0 \in P
  <2> DEFINE f == [n \in 0..0 |-> 1]
  <2>1. Powers(f, 0)
    BY DEF Powers
  <2> QED
    BY <2>1
<1>2. ASSUME NEW n \in Nat, n \in P PROVE n + 1 \in P
  <2>1. PICK f : Powers(f, n)
    BY <1>2
  <2> DEFINE g == [i \in 0..(n + 1) |-> IF i = n + 1 THEN 2 * f[n] ELSE f[i]]
  <2>2. \A i \in 0..n : f[i] = IF i = 0 THEN 1 ELSE 2 * f[i - 1]
    BY <2>1 DEF Powers
  <2>3. ASSUME NEW i \in 0..(n + 1)
        PROVE  g[i] = IF i = 0 THEN 1 ELSE 2 * g[i - 1]
    BY <2>2
  <2>4. Powers(g, n + 1)
    BY <2>3 DEF Powers
  <2> QED
    BY <2>4
<1> HIDE DEF P
<1>3. Nat \subseteq P
  BY <1>1, <1>2, InductionOnSets
<1> QED
  BY <1>3 DEF P

LEMMA PowersAgree ==
  ASSUME NEW k \in Nat, NEW f, NEW g, Powers(f, k), Powers(g, k + 1)
  PROVE  f[k] = g[k]
<1> DEFINE P == {n \in Nat : n <= k => f[n] = g[n]}
<1>1. /\ \A n \in 0..k : f[n] = IF n = 0 THEN 1 ELSE 2 * f[n - 1]
      /\ \A n \in 0..(k + 1) : g[n] = IF n = 0 THEN 1 ELSE 2 * g[n - 1]
  BY DEF Powers
<1>2. 0 \in P
  BY <1>1
<1>3. ASSUME NEW n \in Nat, n \in P PROVE n + 1 \in P
  BY <1>1, <1>3
<1> HIDE DEF P
<1>4. Nat \subseteq P
  BY <1>2, <1>3, InductionOnSets
<1> QED
  BY <1>4 DEF P

\* The recursive function Pow2 is what its definition says.
LEMMA Pow2Unfolds ==
  \A n \in Nat : Pow2[n] = IF n = 0 THEN 1 ELSE 2 * Pow2[n - 1]
<1> DEFINE upTo(k) == CHOOSE f : Powers(f, k)
           F == [k \in Nat |-> upTo(k)[k]]
<1>1. \A k \in Nat : Powers(upTo(k), k)
  BY PowersExist
<1>2. ASSUME NEW n \in Nat PROVE F[n] = IF n = 0 THEN 1 ELSE 2 * F[n - 1]
  <2>1. upTo(n)[n] = IF n = 0 THEN 1 ELSE 2 * upTo(n)[n - 1]
    <3>1. Powers(upTo(n), n)
      BY <1>1
    <3> HIDE DEF upTo
    <3> QED
      BY <3>1 DEF Powers
  <2>2. CASE n = 0
    BY <2>1, <2>2
  <2>3. CASE n # 0
    <3>1. n - 1 \in Nat /\ (n - 1) + 1 = n
      BY <2>3
    <3>2. upTo(n - 1)[n - 1] = upTo(n)[n - 1]
      BY <1>1, <3>1, PowersAgree
    <3> QED
      BY <2>1, <2>3, <3>1, <3>2
  <2> QED
    BY <2>2, <2>3
<1> HIDE DEF F
<1>3. F = [n \in Nat |-> IF n = 0 THEN 1 ELSE 2 * F[n - 1]]
  <2>1. F = [n \in Nat |-> F[n]]
    BY DEF F
  <2> QED
    BY <1>2, <2>1
<1>4. Pow2 = [n \in Nat |-> IF n = 0 THEN 1 ELSE 2 * Pow2[n - 1]]
  BY <1>3 DEF Pow2
<1> QED
  BY <1>4

LEMMA Pow2Positive ==
  \A n \in Nat : Pow2[n] \in Nat /\ Pow2[n] >= 1
<1> DEFINE P == {n \in Nat : Pow2[n] \in Nat /\ Pow2[n] >= 1}
<1>1. 0 \in P
  BY Pow2Unfolds
<1>2. ASSUME NEW n \in Nat, n \in P PROVE n + 1 \in P
  <2>1. Pow2[n + 1] = 2 * Pow2[n]
    BY Pow2Unfolds
  <2> QED
    BY <1>2, <2>1
<1> HIDE DEF P
<1>3. Nat \subseteq P
  BY <1>1, <1>2, InductionOnSets
<1> QED
  BY <1>3 DEF P

LEMMA TimesAtLeast ==
  ASSUME NEW a \in Nat, NEW b \in Nat, b >= 1
  PROVE  a * b \in Nat /\ a <= a * b
OBVIOUS

\* The delay never exceeds max_restart_delay, and it never shrinks while a
\* worker keeps failing.  Where restart_delay is not zero it is restart_delay
\* doubled with every failure after the first and cut off at max_restart_delay,
\* as if nothing could overflow.  (From 65 failures on a restart_delay of zero
\* gives max_restart_delay: the multiplier alone overflows.)
THEOREM RestartDelayDoubles ==
  ASSUME NEW base \in U64, NEW max \in U64, NEW count \in Nat
  PROVE  /\ RestartDelay(base, max, count) \in 0..max
         /\ RestartDelay(base, max, count)
              <= RestartDelay(base, max, count + 1)
         /\ base # 0 =>
              RestartDelay(base, max, count) =
                LET exact == base * Pow2[Doublings(count)]
                IN  IF exact <= max THEN exact ELSE max
<1> DEFINE n == Doublings(count)
           k == Doublings(count + 1)
           p == Pow2[n]
           q == Pow2[k]
           pd == base * p
           qd == base * q
           D(m, d) == IF m \in U64 /\ d \in U64
                      THEN IF d <= max THEN d ELSE max ELSE max
<1>1. /\ MaxU64 \in Nat /\ base \in Nat /\ max \in Nat
      /\ base <= MaxU64 /\ max <= MaxU64
  BY DEF U64, MaxU64
<1>2. n \in Nat /\ k \in Nat /\ (k = n \/ k = n + 1)
  BY DEF Doublings
<1>3. p \in Nat /\ p >= 1 /\ q \in Nat /\ (q = p \/ q = 2 * p)
  BY <1>2, Pow2Positive, Pow2Unfolds
<1> HIDE DEF n, k, p, q
<1>4. pd \in Nat /\ qd \in Nat /\ base <= pd /\ (q = p => qd = pd) /\ pd <= qd
  <2>1. q = 2 * p => qd = 2 * pd
    BY <1>1, <1>3
  <2> QED
    BY <1>1, <1>3, <2>1, TimesAtLeast
<1>5. base # 0 => p <= pd
  BY <1>1, <1>3, TimesAtLeast
<1>6. /\ RestartDelay(base, max, count) = D(p, pd)
      /\ RestartDelay(base, max, count + 1) = D(q, qd)
  BY <1>1 DEF RestartDelay, n, k, p, q
<1> HIDE DEF pd, qd
<1>7. D(p, pd) \in 0..max
  BY <1>1, <1>4
<1>8. D(p, pd) <= D(q, qd)
  BY <1>1, <1>3, <1>4 DEF U64
<1>9. base # 0 => D(p, pd) = IF pd <= max THEN pd ELSE max
  BY <1>1, <1>3, <1>4, <1>5 DEF U64
<1> QED
  BY <1>6, <1>7, <1>8, <1>9 DEF n, p, pd
=============================================================================
