-------------------------- MODULE PoolEvents_proofs --------------------------
(***************************************************************************)
(* What the pool tells keeps to the budget of restarts, for every value of *)
(* the constants that PoolAssumption allows and whether or not spawns      *)
(* fail.                                                                   *)
(*                                                                         *)
(* The restarts told about a worker are not the failures the pool counts:  *)
(* a health check that is answered is told and leaves the count, a failed  *)
(* restart by the API counts and is not told.  Accounts relates the two: a *)
(* listener never counts more than the pool, and less than the pool where  *)
(* a worker waits for its restart.                                         *)
(***************************************************************************)
EXTENDS PoolEvents, SupervisorPool_proofs

Accounts ==
  /\ spent \in [WorkerId -> 0..MaxFailures]
  /\ \A w \in WorkerId : Present(w) => spent[w] <= failures[w]
  /\ \A w \in WorkerId : wstate[w] = "failed" => spent[w] < failures[w]
  /\ round = "restarting" => \A w \in todo : failures[w] <= MaxFailures

\* A listener that has counted no more than the pool has counted less once the
\* pool counts one more.
LEMMA Counted ==
  ASSUME NEW n \in 0..MaxFailures, NEW f \in Count, n <= f
  PROVE  n < Increment(f) /\ n <= Increment(f)
BY PoolAssumption DEF Count, Increment

\* The pool gives a worker up only beyond what a listener can have counted.
LEMMA GivenUp ==
  ASSUME NEW f \in Count, ~(Increment(f) <= MaxFailures)
  PROVE  /\ MaxFailures \in 0..MaxFailures
         /\ MaxFailures < Increment(f) /\ MaxFailures <= Increment(f)
BY PoolAssumption DEF Count, Increment

\* There is a restart left where a worker waits for one.
LEMMA OneLeft ==
  ASSUME NEW n \in 0..MaxFailures, NEW f \in Count, n < f, f <= MaxFailures
  PROVE  n + 1 \in 0..MaxFailures /\ n + 1 <= f
BY PoolAssumption DEF Count

LEMMA InitAccounts == EventInit => Accounts
BY PoolAssumption DEF EventInit, Init, Accounts, Present

\* An event about one worker leaves the accounts of the others as they are.
LEMMA AccountOf ==
  ASSUME TypeOK, Accounts, NEW w \in WorkerId, NEW n \in 0..MaxFailures,
         spent' = [spent EXCEPT ![w] = n],
         \A v \in WorkerId \ {w} : wstate'[v] = wstate[v] /\ failures'[v] = failures[v],
         wstate'[w] # "absent" => n <= failures'[w],
         wstate'[w] = "failed" => n < failures'[w],
         round' = "restarting" => \A v \in todo' : failures'[v] <= MaxFailures
  PROVE  Accounts'
<1> USE DEF Accounts, Present
<1>1. spent' \in [WorkerId -> 0..MaxFailures]
  OBVIOUS
<1>2. ASSUME NEW v \in WorkerId
      PROVE  /\ wstate'[v] # "absent" => spent'[v] <= failures'[v]
             /\ wstate'[v] = "failed" => spent'[v] < failures'[v]
  <2>1. CASE v = w
    BY <2>1
  <2>2. CASE v # w
    BY <2>2
  <2> QED
    BY <2>1, <2>2
<1> QED
  BY <1>1, <1>2

LEMMA SilentAccounts ==
  ASSUME Base, Accounts, Silent
  PROVE  Accounts'
<1> USE DEF Base, TypeOK, Accounts, Silent, TellNothing, Present, table, lock
<1>1. CASE ProcessStep
  <2> SUFFICES UNCHANGED <<wstate, failures, round, todo>>
    OBVIOUS
  <2> QED
    BY <1>1 DEF ProcessStep, ProcReady, ProcHangs, ProcRecovers, ProcDrains,
                ProcDrained, ProcCrashes
<1>2. ASSUME NEW w \in WorkerId, TimePasses(w) PROVE Accounts'
  BY <1>2 DEF TimePasses
<1>3. ASSUME NEW w \in WorkerId, DrainWorker(w) \/ DrainAbandoned(w)
      PROVE  Accounts'
  <2>1. /\ UNCHANGED <<spent, failures, round, todo>> /\ wstate[w] # "absent"
        /\ wstate' \in {[wstate EXCEPT ![w] = "draining"], [wstate EXCEPT ![w] = "stopped"]}
    BY <1>3 DEF DrainWorker, DrainAbandoned
  <2> QED
    BY <2>1
<1>4. ASSUME NEW w \in WorkerId, KillWorker(w) PROVE Accounts'
  <2>1. /\ UNCHANGED <<spent, failures, round, todo>> /\ wstate[w] # "absent"
        /\ wstate' = [wstate EXCEPT ![w] = "stopped"]
    BY <1>4 DEF KillWorker
  <2> QED
    BY <2>1
<1>5. CASE HealthBegin
  BY <1>5 DEF HealthBegin
<1>6. CASE HealthEnd
  BY <1>6 DEF HealthEnd
<1>7. CASE RestartsDone
  BY <1>7 DEF RestartsDone
<1> QED
  BY <1>1, <1>2, <1>3, <1>4, <1>5, <1>6, <1>7

LEMMA LineAccounts ==
  ASSUME Base, Accounts, NEW p \in Pid, LineIsTold(p)
  PROVE  Accounts'
<1> DEFINE w == owner[p]
           line == Head(lines[p])
<1> USE DEF Base, TypeOK
<1>1. w \in WorkerId /\ spent[w] \in 0..MaxFailures /\ failures[w] \in Nat
  BY PoolAssumption DEF Accounts, Count
<1>2. HandleLine(p) /\ spent' = [spent EXCEPT ![w] = Spent(spent[w], {LineEvent(line)})]
  BY DEF LineIsTold, Tell
<1>3. round' = "idle"
  BY <1>2 DEF HandleLine, lock
<1>4. CASE line = "worker.ready" /\ HandleReady(w)
  <2>1. spent' = [spent EXCEPT ![w] = 0]
    BY <1>2, <1>4 DEF Spent, LineEvent
  <2>2. failures'[w] = 0 /\ wstate'[w] \in {"healthy", "absent"}
    BY <1>1, <1>4 DEF HandleReady, Present
  <2>3. \A v \in WorkerId \ {w} : wstate'[v] = wstate[v] /\ failures'[v] = failures[v]
    BY <1>4 DEF HandleReady
  <2>4. 0 \in 0..MaxFailures
    BY PoolAssumption
  <2>5. /\ wstate'[w] # "absent" => 0 <= failures'[w]
        /\ wstate'[w] = "failed" => 0 < failures'[w]
    BY <2>2
  <2> QED
    BY <1>1, <1>3, <2>1, <2>3, <2>4, <2>5, AccountOf
<1>5. CASE line = "worker.draining" /\ HandleDraining(w)
  <2>1. spent' = [spent EXCEPT ![w] = spent[w]]
    BY <1>2, <1>5 DEF Spent, LineEvent
  <2>2. failures' = failures /\ wstate'[w] # "failed"
        /\ (wstate'[w] # "absent" => Present(w))
    BY <1>1, <1>5 DEF HandleDraining, Present
  <2>3. \A v \in WorkerId \ {w} : wstate'[v] = wstate[v]
    BY <1>5 DEF HandleDraining
  <2>4. wstate'[w] # "absent" => spent[w] <= failures'[w]
    BY <1>1, <2>2 DEF Accounts
  <2> QED
    BY <1>1, <1>3, <2>1, <2>2, <2>3, <2>4, AccountOf
<1>6. CASE line = "worker.drained" /\ HandleDrained(w)
  <2>1. spent' = [spent EXCEPT ![w] = spent[w]]
    BY <1>2, <1>6 DEF Spent, LineEvent
  <2>2. UNCHANGED <<wstate, failures>>
    BY <1>6 DEF HandleDrained, table
  <2> QED
    BY <1>3, <2>1, <2>2 DEF Accounts, Present
<1> QED
  BY <1>2, <1>4, <1>5, <1>6 DEF HandleLine

\* A worker that was up is found to be down: what the pool tells leaves it
\* no more than what the pool grants.
LEMMA VerdictAccounts ==
  ASSUME TypeOK, Accounts, NEW w \in WorkerId, wstate[w] \in {"starting", "healthy"},
         Tell(w, Verdict(w)),
         failures' = [failures EXCEPT ![w] = Increment(@)],
         \E s \in {"failed", "stopped"} : wstate' = [wstate EXCEPT ![w] = s],
         round' # "restarting"
  PROVE  Accounts'
<1> USE DEF TypeOK
<1> DEFINE n == Spent(spent[w], Verdict(w))
<1>1. spent[w] \in 0..MaxFailures /\ failures[w] \in Count /\ spent[w] <= failures[w]
  BY DEF Accounts, Present
<1>2. /\ n \in 0..MaxFailures
      /\ n < Increment(failures[w]) /\ n <= Increment(failures[w])
  <2>1. CASE Increment(failures[w]) <= MaxFailures
    <3>1. n = spent[w]
      BY <2>1 DEF Spent, Verdict
    <3> QED
      BY <1>1, <3>1, Counted
  <2>2. CASE ~(Increment(failures[w]) <= MaxFailures)
    <3>1. n = MaxFailures
      BY <2>2 DEF Spent, Verdict
    <3> QED
      BY <1>1, <2>2, <3>1, GivenUp
  <2> QED
    BY <2>1, <2>2
<1>3. spent' = [spent EXCEPT ![w] = n]
  BY DEF Tell
<1>4. /\ failures'[w] = Increment(failures[w])
      /\ \A v \in WorkerId \ {w} : wstate'[v] = wstate[v] /\ failures'[v] = failures[v]
  OBVIOUS
<1> HIDE DEF n
<1> QED
  BY <1>2, <1>3, <1>4, AccountOf

LEMMA ExitAccounts ==
  ASSUME Base, Accounts, NEW e \in exits, ExitIsTold(e)
  PROVE  Accounts'
<1> USE DEF Base, TypeOK
<1>1. e.id \in WorkerId /\ HandleExited(e) /\ round' = "idle"
  BY DEF ExitIsTold, HandleExited, lock
<1>2. CASE UNCHANGED table
  <2>1. UNCHANGED spent
    BY <1>2, <1>1 DEF ExitIsTold, TellNothing, table
  <2> QED
    BY <1>1, <1>2, <2>1 DEF Accounts, Present, table
<1>3. CASE /\ wstate[e.id] \in {"starting", "healthy", "draining"}
           /\ wstate' = [wstate EXCEPT ![e.id] = "stopped"]
           /\ UNCHANGED failures
  <2>1. UNCHANGED spent
    BY <1>3, <1>1 DEF ExitIsTold, TellNothing
  <2> QED
    BY <1>1, <1>3, <2>1 DEF Accounts, Present
<1>4. CASE /\ wstate[e.id] \in {"starting", "healthy"}
           /\ wstate' = [wstate EXCEPT ![e.id] = "failed"]
           /\ failures' = [failures EXCEPT ![e.id] = Increment(@)]
  <2>1. Tell(e.id, Verdict(e.id))
    BY <1>4, <1>1 DEF ExitIsTold
  <2> QED
    BY <1>1, <1>4, <2>1, VerdictAccounts
<1> QED
  BY <1>1, <1>2, <1>3, <1>4 DEF HandleExited

LEMMA HealthAccounts ==
  ASSUME Base, Accounts, NEW w \in WorkerId, HealthIsTold(w)
  PROVE  Accounts'
<1> USE DEF Base, TypeOK
<1>1. HealthOne(w) /\ round' = "checking" /\ wstate[w] \in {"starting", "healthy"}
  BY DEF HealthIsTold, HealthOne, TodoFits
<1>2. CASE HealthAnswered(w)
  <2>1. wstate' = [wstate EXCEPT ![w] = "healthy"] /\ failures' = failures
    BY <1>2 DEF HealthAnswered
  <2>2. PICK n \in {0, spent[w]} : spent' = [spent EXCEPT ![w] = n]
    <3>1. spent \in [WorkerId -> 0..MaxFailures]
      BY DEF Accounts
    <3>2. CASE wstate[w] = "starting"
      <4>1. Tell(w, {"healthy"})
        BY <1>1, <2>1, <3>2 DEF HealthIsTold
      <4> QED
        BY <4>1 DEF Tell, Spent
    <3>3. CASE wstate[w] = "healthy"
      <4>1. UNCHANGED spent
        BY <1>1, <2>1, <3>3 DEF HealthIsTold, TellNothing
      <4> QED
        BY <3>1, <4>1
    <3> QED
      BY <1>1, <3>2, <3>3
  <2>3. n \in 0..MaxFailures /\ n <= failures'[w]
    <3>0. 0 \in 0..MaxFailures
      BY PoolAssumption
    <3>1. /\ spent[w] \in 0..MaxFailures
          /\ failures[w] \in Count /\ spent[w] <= failures[w]
      BY <1>1 DEF Accounts, Present
    <3>2. 0 <= failures[w]
      BY <3>1, PoolAssumption DEF Count
    <3> QED
      BY <2>1, <3>0, <3>1, <3>2
  <2> QED
    BY <1>1, <2>1, <2>2, <2>3, AccountOf
<1>3. CASE ScheduleRestart(w)
  <2>1. PICK s \in {"failed", "stopped"} : wstate' = [wstate EXCEPT ![w] = s]
    BY <1>3 DEF ScheduleRestart
  <2>2. Tell(w, Verdict(w))
    <3>1. wstate'[w] \in {"failed", "stopped"}
      BY <2>1
    <3> QED
      BY <3>1 DEF HealthIsTold
  <2> QED
    BY <1>1, <1>3, <2>1, <2>2, VerdictAccounts DEF ScheduleRestart
<1>4. CASE UNCHANGED <<wstate, failures>>
  <2>1. UNCHANGED spent
    BY <1>1, <1>4 DEF HealthIsTold, TellNothing
  <2> QED
    BY <1>1, <1>4, <2>1 DEF Accounts, Present
<1> QED
  BY <1>1, <1>2, <1>3, <1>4
  DEF HealthOne, HealthFoundDead, HealthMissed, HealthGaveUp, StillStarting

LEMMA RestartAccounts ==
  ASSUME Base, Accounts, NEW w \in WorkerId, RestartIsTold(w)
  PROVE  Accounts'
<1> USE DEF Base, TypeOK
<1>1. /\ RestartOne(w) /\ round = "restarting" /\ w \in todo /\ todo' \subseteq todo
  BY DEF RestartIsTold, RestartOne
<1>2. /\ wstate[w] = "failed" /\ failures[w] <= MaxFailures
      /\ spent[w] \in 0..MaxFailures /\ failures[w] \in Count
      /\ spent[w] < failures[w]
  BY <1>1 DEF TodoFits, Accounts
<1>3. CASE wstate' = [wstate EXCEPT ![w] = "starting"] /\ UNCHANGED failures
  <2>1. spent' = [spent EXCEPT ![w] = spent[w] + 1]
    <3>1. Tell(w, {"respawned"})
      BY <1>3 DEF RestartIsTold
    <3> QED
      BY <3>1 DEF Tell, Spent
  <2>2. spent[w] + 1 \in 0..MaxFailures /\ spent[w] + 1 <= failures[w]
    BY <1>2, OneLeft
  <2>3. \A v \in todo' : failures'[v] <= MaxFailures
    BY <1>1, <1>3 DEF Accounts
  <2> QED
    BY <1>3, <2>1, <2>2, <2>3, AccountOf
<1>4. CASE /\ wstate' = [wstate EXCEPT ![w] = "absent"]
           /\ failures' = [failures EXCEPT ![w] = 0]
  <2>1. spent' = [spent EXCEPT ![w] = spent[w]]
    BY <1>2, <1>4 DEF RestartIsTold, TellNothing, Accounts
  <2>2. \A v \in todo' : failures'[v] <= MaxFailures
    BY <1>1, <1>4, PoolAssumption DEF Accounts
  <2> QED
    BY <1>2, <1>4, <2>1, <2>2, AccountOf
<1> QED
  BY <1>1, <1>3, <1>4 DEF RestartOne

\* A worker under a new id starts with nothing counted or told.
LEMMA SpawnAccounts ==
  ASSUME TypeOK, Accounts, NEW w \in WorkerId, NEW states \in [WorkerId -> States],
         \A v \in WorkerId \ {w} : states[v] \in {wstate[v], "absent"},
         wstate' = [states EXCEPT ![w] = "starting"],
         failures' = [failures EXCEPT ![w] = 0],
         Tell(w, {"spawned_new"}),
         round' = "idle"
  PROVE  Accounts'
<1> USE DEF TypeOK
<1>1. spent' = [spent EXCEPT ![w] = 0]
  BY DEF Tell, Spent
<1>2. ASSUME NEW v \in WorkerId
      PROVE  /\ spent'[v] \in 0..MaxFailures
             /\ wstate'[v] # "absent" => spent'[v] <= failures'[v]
             /\ wstate'[v] = "failed" => spent'[v] < failures'[v]
  <2>1. CASE v = w
    BY <1>1, <2>1, PoolAssumption DEF Accounts
  <2>2. CASE v # w
    BY <1>1, <2>2 DEF Accounts, Present
  <2> QED
    BY <2>1, <2>2
<1> QED
  BY <1>1, <1>2 DEF Accounts, Present

LEMMA SpawnIsToldAccounts ==
  ASSUME Base, Accounts, NEW w \in WorkerId, SpawnIsTold(w)
  PROVE  Accounts'
<1>1. SpawnNewWorker(w) /\ Tell(w, {"spawned_new"})
  BY DEF SpawnIsTold
<1>2. /\ wstate' = [wstate EXCEPT ![w] = "starting"]
      /\ failures' = [failures EXCEPT ![w] = 0]
      /\ round' = "idle"
  BY <1>1 DEF SpawnNewWorker, SpawnWorker, lock
<1> QED
  BY <1>1, <1>2, SpawnAccounts DEF Base, TypeOK

LEMMA ReplacementAccounts ==
  ASSUME Base, Accounts, NEW old \in WorkerId, ReplacementIsTold(old)
  PROVE  Accounts'
<1> USE DEF Base, TypeOK
<1> DEFINE fresh == {w \in WorkerId : ~Present(w) /\ wstate'[w] = "starting"}
<1>1. RestartWorker(old) /\ round' = "idle" /\ Present(old)
  BY DEF ReplacementIsTold, RestartWorker, lock
<1>2. IF fresh = {} THEN TellNothing ELSE \E w \in fresh : Tell(w, {"spawned_new"})
  BY DEF ReplacementIsTold
<1>3. ASSUME NEW new \in WorkerId, Replaced(old, new) PROVE Accounts'
  <2> DEFINE states == [wstate EXCEPT ![old] = "absent"]
  <2>1. /\ wstate' = [states EXCEPT ![new] = "starting"]
        /\ failures' = [failures EXCEPT ![new] = 0]
        /\ ~Present(new)
    BY <1>3 DEF Replaced, SpawnWorker, FreshId
  <2>2. fresh = {new}
    BY <2>1 DEF Present
  <2>3. Tell(new, {"spawned_new"})
    BY <1>2, <2>2
  <2>4. states \in [WorkerId -> States] /\ \A v \in WorkerId : states[v] \in {wstate[v], "absent"}
    BY DEF States
  <2> QED
    BY <1>1, <2>1, <2>3, <2>4, SpawnAccounts
<1>4. CASE NotReplaced(old)
  <2>1. /\ wstate' = [wstate EXCEPT ![old] = "failed"]
        /\ failures' = [failures EXCEPT ![old] = Increment(@)]
    BY <1>4 DEF NotReplaced
  <2>2. fresh = {}
    BY <2>1 DEF Present
  <2>3. spent' = [spent EXCEPT ![old] = spent[old]]
    BY <1>2, <2>2 DEF TellNothing, Accounts
  <2>4. spent[old] \in 0..MaxFailures /\ spent[old] < Increment(failures[old])
        /\ spent[old] <= Increment(failures[old])
    BY <1>1, Counted DEF Accounts
  <2> QED
    BY <1>1, <2>1, <2>3, <2>4, AccountOf
<1> QED
  BY <1>1, <1>3, <1>4 DEF RestartWorker

LEMMA AccountsStep ==
  ASSUME Base, Accounts, [EventNext]_eventVars
  PROVE  Accounts'
<1>1. CASE UNCHANGED eventVars
  BY <1>1 DEF eventVars, vars, table, lock, Accounts, Present
<1>2. CASE EventNext
  BY <1>2, SilentAccounts, LineAccounts, ExitAccounts, HealthAccounts,
     RestartAccounts, SpawnIsToldAccounts, ReplacementAccounts DEF EventNext
<1> QED
  BY <1>1, <1>2

\* The pool with its events takes the steps of the pool.
LEMMA EventsArePoolSteps ==
  ASSUME [EventNext]_eventVars
  PROVE  [Next]_vars
<1>1. CASE UNCHANGED eventVars
  BY <1>1 DEF eventVars
<1>2. CASE EventNext
  BY <1>2 DEF EventNext, Silent, LineIsTold, ExitIsTold, HealthIsTold,
              RestartIsTold, SpawnIsTold, ReplacementIsTold, Next, ApiStep,
              LoopStep
<1> QED
  BY <1>1, <1>2

\* A listener never hears of more restarts in a row than the pool is
\* configured to try (max_consecutive_failures), and of none after
\* WorkerFailed, for any number of workers, ports, processes and lines, and
\* with spawns that fail.
THEOREM BudgetAlwaysKept == EventSpec => []RestartBudgetKept
<1>1. EventInit => Base /\ Accounts
  BY InitBase, InitAccounts DEF EventInit
<1>2. Base /\ Accounts /\ [EventNext]_eventVars => (Base /\ Accounts)'
  BY EventsArePoolSteps, BaseStep, AccountsStep
<1>3. Accounts => RestartBudgetKept
  BY PoolAssumption DEF Accounts, RestartBudgetKept
<1> QED
  BY <1>1, <1>2, <1>3, PTL DEF EventSpec
=============================================================================
