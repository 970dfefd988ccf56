--------------------------- MODULE L0Worker_proofs ---------------------------
(***************************************************************************)
(* What holds of L0Worker for every set of requests, tasks and shutdown    *)
(* triggers, both deployments, with and without a drain timer.             *)
(*                                                                         *)
(* The inductive invariant is IInv.  SlotsAreRuns is inductive on top of   *)
(* the types.  RunsDoNotInterleave is not: that nothing is recorded behind *)
(* a later run of the same task follows from the slot that run holds, so   *)
(* it needs SlotsAreRuns, and from every recorded event belonging to a run *)
(* of the log's own task that was accepted (LogOwned).                     *)
(***************************************************************************)
EXTENDS L0Worker, FiniteSetTheorems, TLAPS

\* A task's log holds events of accepted runs of that task only.
LogOwned ==
  \A t \in Task : \A i \in 1..Len(log[t]) :
    /\ TaskOf[log[t][i].req] = t
    /\ req[log[t][i].req] \in {"running", "ended"}

IInv ==
  /\ TypeOK
  /\ IsFiniteSet(slots)
  /\ SlotsAreRuns
  /\ LogOwned
  /\ RunsDoNotInterleave

-----------------------------------------------------------------------------
(* Types *)

\* Sending well-typed events keeps the streams well-typed.
LEMMA SendType ==
  ASSUME TypeOK, NEW r \in Request, NEW events \in Seq(StreamEvent),
         Send(r, events)
  PROVE  stream' \in [Request -> Seq(StreamEvent)]
BY DEF TypeOK, Send

\* Recording well-typed events keeps the logs well-typed.
LEMMA RecordType ==
  ASSUME TypeOK, NEW r \in Request, NEW events \in Seq(RecordedEvent),
         Record(r, events)
  PROVE  log' \in [Task -> Seq(RecordedEvent)]
BY ConstantsAssumption DEF TypeOK, Record

\* The same for one event.
LEMMA SendOneType ==
  ASSUME TypeOK, NEW r \in Request, NEW e \in StreamEvent, Send(r, <<e>>)
  PROVE  stream' \in [Request -> Seq(StreamEvent)]
<1>1. <<e>> \in Seq(StreamEvent)
  OBVIOUS
<1> QED
  BY <1>1, SendType

LEMMA RecordOneType ==
  ASSUME TypeOK, NEW r \in Request, NEW e \in RecordedEvent, Record(r, <<e>>)
  PROVE  log' \in [Task -> Seq(RecordedEvent)]
<1>1. <<e>> \in Seq(RecordedEvent)
  OBVIOUS
<1> QED
  BY <1>1, RecordType

\* A recorded event may be sent, and an event of run r has the type it says.
LEMMA EventTypes ==
  ASSUME NEW r \in Request
  PROVE  /\ \A e \in RecordedTypes : Ev(e, r) \in RecordedEvent
         /\ \A e \in StreamTypes : Ev(e, r) \in StreamEvent
         /\ Seq(RecordedEvent) \subseteq Seq(StreamEvent)
<1>1. RecordedTypes \subseteq StreamTypes
  BY DEF StreamTypes
<1>2. RecordedEvent \subseteq StreamEvent
  BY <1>1 DEF RecordedEvent, StreamEvent
<1>3. Seq(RecordedEvent) \subseteq Seq(StreamEvent)
  BY <1>2
<1>4. /\ \A e \in RecordedTypes : Ev(e, r) \in RecordedEvent
      /\ \A e \in StreamTypes : Ev(e, r) \in StreamEvent
  BY DEF Ev, RecordedEvent, StreamEvent
<1> QED
  BY <1>3, <1>4

\* The bookkeeping at the end of a run, with or without a last word.
LEMMA SettleType ==
  ASSUME TypeOK, NEW r \in Request, NEW events \in Seq(RecordedEvent),
         Settle(r, events)
  PROVE  /\ stream' \in [Request -> Seq(StreamEvent)]
         /\ log' \in [Task -> Seq(RecordedEvent)]
         /\ armed' \subseteq Request
         /\ slots' \subseteq Task
         /\ req' \in [Request -> {"idle", "running", "ended", "refused"}]
<1>1. Append(events, Ev("DONE", r)) \in Seq(StreamEvent)
  BY EventTypes DEF StreamTypes
<1>2. /\ stream' \in [Request -> Seq(StreamEvent)]
      /\ log' \in [Task -> Seq(RecordedEvent)]
  <2>1. CASE EmitThrows(r)
    BY <2>1 DEF Settle, Abandon, TypeOK
  <2>2. CASE ~EmitThrows(r)
    BY <2>2, <1>1, SendType, RecordType DEF Settle
  <2> QED BY <2>1, <2>2
<1>3. Finish(r)
  BY DEF Settle, Abandon
<1> QED
  BY <1>2, <1>3 DEF Finish, Release, TypeOK

\* The events a finished order may emit.
LEMMA CompletionType ==
  ASSUME NEW r \in Request, NEW events \in CompletionEvents(r)
  PROVE  /\ events \in Seq(RecordedEvent)
         /\ \A i \in 1..Len(events) : events[i].req = r
<1> DEFINE first == Ev("FIRST_TOKEN", r)
           done == Ev("TASK_COMPLETED", r)
<1>1. first \in RecordedEvent /\ done \in RecordedEvent
  BY EventTypes DEF RecordedTypes
<1>2. first.req = r /\ done.req = r
  BY DEF Ev
<1>3. events = <<done>> \/ events = <<first, done>>
  BY DEF CompletionEvents
<1> HIDE DEF first, done
<1>4. CASE events = <<done>>
  BY <1>1, <1>2, <1>4
<1>5. CASE events = <<first, done>>
  BY <1>1, <1>2, <1>5
<1> QED
  BY <1>3, <1>4, <1>5

\* Every variable keeps its type, the slots in use stay finitely many, and
\* the concurrency limit never drops to zero, whatever POST /api/config asks.
LEMMA TypeInit == Init => TypeOK /\ IsFiniteSet(slots)
<1> SUFFICES ASSUME Init PROVE TypeOK /\ IsFiniteSet(slots)
  OBVIOUS
<1>1. IsFiniteSet(slots)
  BY FS_EmptySet DEF Init
<1>2. /\ cap \in Nat \ {0}
      /\ stdout \in Seq(Lines)
      /\ state \in WorkerStates
  BY ConstantsAssumption DEF Init, Line, Lines, WorkerStates
<1>3. log \in [Task -> Seq(RecordedEvent)] /\ stream \in [Request -> Seq(StreamEvent)]
  BY DEF Init
<1> QED
  BY <1>1, <1>2, <1>3 DEF Init, TypeOK

LEMMA TypeStep ==
  ASSUME TypeOK, IsFiniteSet(slots), [Next]_vars
  PROVE  TypeOK' /\ IsFiniteSet(slots)'
<1> USE DEF TypeOK
<1>1. ASSUME NEW r \in Request, Accept(r)
      PROVE  TypeOK' /\ IsFiniteSet(slots)'
  <2>1. Ev("TASK_ACCEPTED", r) \in RecordedEvent
        /\ Ev("TASK_ACCEPTED", r) \in StreamEvent
    BY EventTypes DEF RecordedTypes, StreamTypes
  <2>2. stream' \in [Request -> Seq(StreamEvent)]
    BY <1>1, <2>1, SendOneType DEF Accept
  <2>3. log' \in [Task -> Seq(RecordedEvent)]
    BY <1>1, <2>1, RecordOneType DEF Accept
  <2>4. IsFiniteSet(slots') /\ slots' \subseteq Task
    <3>1. TaskOf[r] \in Task /\ slots' = slots \cup {TaskOf[r]}
      BY <1>1, ConstantsAssumption DEF Accept, Acquire
    <3> QED
      BY <3>1, FS_AddElement
  <2>5. state' \in WorkerStates
    BY <1>1 DEF Accept, Transition, Transitions, WorkerStates
  <2> QED
    BY <1>1, <2>2, <2>3, <2>4, <2>5 DEF Accept
<1>2. ASSUME NEW r \in Request, RefuseBusy(r)
      PROVE  TypeOK' /\ IsFiniteSet(slots)'
  BY <1>2 DEF RefuseBusy
<1>3. ASSUME NEW r \in Request, RefusePayload(r) \/ RefuseDuplicate(r)
      PROVE  TypeOK' /\ IsFiniteSet(slots)'
  <2>1. PICK type \in {"ERROR", "DUPLICATE_TASK"} : RefuseOnStream(r, type)
    BY <1>3 DEF RefusePayload, RefuseDuplicate
  <2>2. Ev(type, r) \in StreamEvent
    BY <2>1, EventTypes DEF StreamTypes
  <2>3. stream' \in [Request -> Seq(StreamEvent)]
    BY <2>1, <2>2, SendOneType DEF RefuseOnStream
  <2> QED
    BY <2>1, <2>3 DEF RefuseOnStream
<1>4. ASSUME NEW r \in Request, L0Event(r)
      PROVE  TypeOK' /\ IsFiniteSet(slots)'
  <2>1. Ev("L0_EVENT", r) \in StreamEvent
    BY EventTypes DEF StreamTypes
  <2>2. stream' \in [Request -> Seq(StreamEvent)]
    BY <1>4, <2>1, SendOneType DEF L0Event
  <2> QED
    BY <1>4, <2>2 DEF L0Event
<1>5. ASSUME NEW r \in Request, FirstToken(r)
      PROVE  TypeOK' /\ IsFiniteSet(slots)'
  <2>1. CASE EmitThrows(r)
    BY <1>5, <2>1, FS_Subset DEF FirstToken, Abandon, Finish, Release
  <2>2. CASE ~EmitThrows(r)
    <3>1. Ev("FIRST_TOKEN", r) \in RecordedEvent
          /\ Ev("FIRST_TOKEN", r) \in StreamEvent
      BY EventTypes DEF RecordedTypes, StreamTypes
    <3>2. stream' \in [Request -> Seq(StreamEvent)]
      BY <1>5, <2>2, <3>1, SendOneType DEF FirstToken
    <3>3. log' \in [Task -> Seq(RecordedEvent)]
      BY <1>5, <2>2, <3>1, RecordOneType DEF FirstToken
    <3> QED
      BY <1>5, <2>2, <3>2, <3>3 DEF FirstToken
  <2> QED
    BY <2>1, <2>2
<1>6. ASSUME NEW r \in Request, Complete(r) \/ Fail(r)
      PROVE  TypeOK' /\ IsFiniteSet(slots)'
  <2>1. PICK events \in Seq(RecordedEvent) : Settle(r, events)
    <3>1. CASE Complete(r)
      BY <3>1, CompletionType DEF Complete
    <3>2. CASE Fail(r)
      <4>1. Ev("TASK_FAILED", r) \in RecordedEvent
        BY EventTypes DEF RecordedTypes
      <4>2. <<Ev("TASK_FAILED", r)>> \in Seq(RecordedEvent)
        BY <4>1
      <4> QED
        BY <3>2, <4>2 DEF Fail
    <3> QED
      BY <1>6, <3>1, <3>2
  <2>2. IsFiniteSet(slots')
    BY <2>1, FS_Subset DEF Settle, Abandon, Finish, Release
  <2>3. UNCHANGED <<state, cap, connected, aborted, drain, stdout, proc>>
    BY <1>6 DEF Complete, Fail
  <2> QED
    BY <2>1, <2>2, <2>3, SettleType
<1>7. ASSUME NEW r \in Request, Disconnect(r)
      PROVE  TypeOK' /\ IsFiniteSet(slots)'
  BY <1>7 DEF Disconnect
<1>8. ASSUME NEW r \in Request, DrainTimerFires(r)
      PROVE  TypeOK' /\ IsFiniteSet(slots)'
  <2>1. Ev("WORKER_DRAINING", r) \in StreamEvent
    BY EventTypes DEF StreamTypes
  <2>2. stream' \in [Request -> Seq(StreamEvent)]
    BY <1>8, <2>1, SendOneType DEF DrainTimerFires
  <2>3. state' \in WorkerStates
    BY <1>8 DEF DrainTimerFires, Transition, WorkerStates
  <2>4. /\ UNCHANGED <<cap, slots, req, connected, log, drain, stdout>>
        /\ armed' \subseteq Request
        /\ aborted' \subseteq Request
        /\ proc' \in {"up", "exited", "crashed"}
    BY <1>8 DEF DrainTimerFires
  <2> QED
    BY <2>2, <2>3, <2>4
<1>9. ASSUME NEW n \in CapUpdate, UpdateConfig(n)
      PROVE  TypeOK' /\ IsFiniteSet(slots)'
  BY <1>9, ConstantsAssumption DEF UpdateConfig
<1>10. ASSUME NEW d \in Drain, StartDrain(d) \/ EndDrain(d)
       PROVE  TypeOK' /\ IsFiniteSet(slots)'
  <2>1. Cardinality(slots) \in Nat
    BY FS_CardinalityType
  <2>2. \A p \in Nat : Line("worker.drained", p) \in Lines
                         /\ Line("worker.draining", p) \in Lines
    BY DEF Line, Lines
  <2>3. stdout' \in Seq(Lines)
    <3>1. CASE StartDrain(d)
      <4> DEFINE lines == Append(stdout, Line("worker.draining", 0))
                 drained == Line("worker.drained", 0)
      <4>1. lines \in Seq(Lines) /\ drained \in Lines
        BY <2>2
      <4>2. stdout' = lines \/ stdout' = Append(lines, drained)
        BY <3>1 DEF StartDrain, Exit
      <4> HIDE DEF lines, drained
      <4>3. Append(lines, drained) \in Seq(Lines)
        BY <4>1
      <4> QED
        BY <4>1, <4>2, <4>3
    <3>2. CASE EndDrain(d)
      BY <3>2, <2>1, <2>2 DEF EndDrain, Exit
    <3> QED
      BY <1>10, <3>1, <3>2
  <2>4. /\ drain' \in [Drain -> {"idle", "waiting", "done"}]
        /\ proc' \in {"up", "exited", "crashed"}
    BY <1>10 DEF StartDrain, EndDrain, Exit
  <2>5. /\ UNCHANGED <<state, cap, connected, aborted>>
        /\ UNCHANGED <<slots, req, stream, log, armed>>
    BY <1>10 DEF StartDrain, EndDrain, taskVars
  <2> QED
    BY <2>3, <2>4, <2>5
<1>11. CASE UNCHANGED vars
  BY <1>11 DEF vars
<1> QED
  BY <1>1, <1>2, <1>3, <1>4, <1>5, <1>6, <1>7, <1>8, <1>9, <1>10, <1>11
     DEF Next, SubmitStep, RunStep

THEOREM TypeCorrect == Spec => []TypeOK
<1>1. TypeOK /\ IsFiniteSet(slots) /\ [Next]_vars
        => (TypeOK /\ IsFiniteSet(slots))'
  BY TypeStep
<1> QED
  BY TypeInit, <1>1, PTL DEF Spec

-----------------------------------------------------------------------------
(* Slots *)

\* Only three kinds of step touch the slots, the standing of a request or
\* the log: an acceptance, the end of a run, and a refusal or a first token,
\* which leave the slots and the runs alone.
Starts(r) ==
  /\ req[r] = "idle"
  /\ TaskOf[r] \notin slots
  /\ Cardinality(slots) < cap
  /\ slots' = slots \cup {TaskOf[r]}
  /\ req' = [req EXCEPT ![r] = "running"]
  /\ \E e \in RecordedEvent : e.req = r /\ Record(r, <<e>>)

Ends(r) ==
  /\ req[r] = "running"
  /\ Finish(r)
  /\ \E events \in Seq(RecordedEvent) :
       (\A i \in 1..Len(events) : events[i].req = r) /\ Record(r, events)

Goes(r) ==
  /\ UNCHANGED slots
  /\ \/ /\ req[r] = "idle"
        /\ req' = [req EXCEPT ![r] = "refused"]
        /\ UNCHANGED log
     \/ /\ req[r] = "running"
        /\ UNCHANGED req
        /\ \E e \in RecordedEvent : e.req = r /\ Record(r, <<e>>)

\* Recording nothing leaves the log as it is.
LEMMA RecordNothing ==
  ASSUME TypeOK, NEW r \in Request, UNCHANGED log
  PROVE  Record(r, <<>>)
<1>1. log[TaskOf[r]] \o <<>> = log[TaskOf[r]]
  BY ConstantsAssumption DEF TypeOK
<1> QED
  BY <1>1 DEF Record, TypeOK

LEMMA SettleEnds ==
  ASSUME TypeOK, NEW r \in Request, req[r] = "running",
         NEW events \in Seq(RecordedEvent),
         \A i \in 1..Len(events) : events[i].req = r,
         Settle(r, events)
  PROVE  Ends(r)
<1>1. Finish(r)
  BY DEF Settle, Abandon
<1>2. CASE EmitThrows(r)
  <2>1. Record(r, <<>>)
    BY <1>2, RecordNothing DEF Settle, Abandon
  <2>2. <<>> \in Seq(RecordedEvent) /\ \A i \in 1..Len(<<>>) : <<>>[i].req = r
    OBVIOUS
  <2> QED
    BY <1>1, <2>1, <2>2 DEF Ends
<1>3. CASE ~EmitThrows(r)
  BY <1>1, <1>3 DEF Ends, Settle
<1> QED
  BY <1>2, <1>3

\* Every step is one of the three, or touches neither slots, runs nor log.
LEMMA StepKinds ==
  ASSUME TypeOK, [Next]_vars
  PROVE  \/ \E r \in Request : Starts(r) \/ Ends(r) \/ Goes(r)
         \/ UNCHANGED <<slots, req, log>>
<1>1. ASSUME NEW r \in Request, Accept(r)
      PROVE  Starts(r)
  <2>1. /\ Ev("TASK_ACCEPTED", r) \in RecordedEvent
        /\ Ev("TASK_ACCEPTED", r).req = r
    BY EventTypes DEF RecordedTypes, Ev
  <2> QED
    BY <1>1, <2>1 DEF Accept, Acquire, HasAvailableSlot, Starts
<1>2. ASSUME NEW r \in Request,
             RefuseBusy(r) \/ RefusePayload(r) \/ RefuseDuplicate(r)
      PROVE  Goes(r)
  BY <1>2 DEF RefuseBusy, RefusePayload, RefuseDuplicate, RefuseOnStream, Goes
<1>3. ASSUME NEW r \in Request, FirstToken(r)
      PROVE  Ends(r) \/ Goes(r)
  <2>1. CASE EmitThrows(r)
    <3>1. Record(r, <<>>)
      BY <1>3, <2>1, RecordNothing DEF FirstToken, Abandon
    <3>2. <<>> \in Seq(RecordedEvent) /\ \A i \in 1..Len(<<>>) : <<>>[i].req = r
      OBVIOUS
    <3> QED
      BY <1>3, <2>1, <3>1, <3>2 DEF FirstToken, Abandon, Ends
  <2>2. CASE ~EmitThrows(r)
    <3>1. /\ Ev("FIRST_TOKEN", r) \in RecordedEvent
          /\ Ev("FIRST_TOKEN", r).req = r
      BY EventTypes DEF RecordedTypes, Ev
    <3> QED
      BY <1>3, <2>2, <3>1 DEF FirstToken, Goes
  <2> QED
    BY <2>1, <2>2
<1>4. ASSUME NEW r \in Request, Complete(r)
      PROVE  Ends(r)
  BY <1>4, CompletionType, SettleEnds DEF Complete
<1>5. ASSUME NEW r \in Request, Fail(r)
      PROVE  Ends(r)
  <2> DEFINE e == Ev("TASK_FAILED", r)
  <2>1. e \in RecordedEvent /\ e.req = r
    BY EventTypes DEF RecordedTypes, Ev
  <2> HIDE DEF e
  <2>2. <<e>> \in Seq(RecordedEvent) /\ \A i \in 1..Len(<<e>>) : <<e>>[i].req = r
    BY <2>1
  <2>3. Settle(r, <<e>>) /\ req[r] = "running"
    BY <1>5 DEF Fail, e
  <2> QED
    BY <2>2, <2>3, SettleEnds
<1>6. ASSUME NEW r \in Request, L0Event(r) \/ Disconnect(r) \/ DrainTimerFires(r)
      PROVE  UNCHANGED <<slots, req, log>>
  BY <1>6 DEF L0Event, Disconnect, DrainTimerFires
<1>7. ASSUME NEW n \in CapUpdate, UpdateConfig(n)
      PROVE  UNCHANGED <<slots, req, log>>
  BY <1>7 DEF UpdateConfig
<1>8. ASSUME NEW d \in Drain, StartDrain(d) \/ EndDrain(d)
      PROVE  UNCHANGED <<slots, req, log>>
  BY <1>8 DEF StartDrain, EndDrain, taskVars
<1>9. CASE UNCHANGED vars
  BY <1>9 DEF vars
<1> QED
  BY <1>1, <1>2, <1>3, <1>4, <1>5, <1>6, <1>7, <1>8, <1>9
     DEF Next, SubmitStep, RunStep

LEMMA SlotsStep ==
  ASSUME TypeOK, SlotsAreRuns, [Next]_vars
  PROVE  SlotsAreRuns'
<1> DEFINE running == {x \in Request : req[x] = "running"}
<1>1. ASSUME NEW r \in Request, Starts(r)
      PROVE  SlotsAreRuns'
  <2>1. running' = running \cup {r}
    BY <1>1 DEF Starts, TypeOK
  <2>2. \A s \in running : TaskOf[s] # TaskOf[r]
    BY <1>1 DEF Starts, SlotsAreRuns
  <2> QED
    BY <1>1, <2>1, <2>2 DEF Starts, SlotsAreRuns
<1>2. ASSUME NEW r \in Request, Ends(r)
      PROVE  SlotsAreRuns'
  <2>1. running' = running \ {r} /\ r \in running
    BY <1>2 DEF Ends, Finish, TypeOK
  <2>2. \A s \in running : TaskOf[s] = TaskOf[r] => s = r
    BY <2>1 DEF SlotsAreRuns
  <2>3. slots' = slots \ {TaskOf[r]}
    BY <1>2 DEF Ends, Finish, Release
  <2> QED
    BY <2>1, <2>2, <2>3 DEF SlotsAreRuns
<1>3. ASSUME NEW r \in Request, Goes(r)
      PROVE  SlotsAreRuns'
  <2>1. running' = running
    BY <1>3 DEF Goes, TypeOK
  <2> QED
    BY <1>3, <2>1 DEF Goes, SlotsAreRuns
<1>4. CASE UNCHANGED <<slots, req, log>>
  BY <1>4 DEF SlotsAreRuns
<1> QED
  BY <1>1, <1>2, <1>3, <1>4, StepKinds

-----------------------------------------------------------------------------
(* The log *)

\* Every recorded event names its request.
LEMMA LogRequests ==
  ASSUME TypeOK
  PROVE  \A u \in Task : \A i \in 1..Len(log[u]) : log[u][i].req \in Request
<1> SUFFICES ASSUME NEW u \in Task, NEW i \in 1..Len(log[u])
             PROVE  log[u][i].req \in Request
  OBVIOUS
<1>1. log[u] \in Seq(RecordedEvent)
  BY DEF TypeOK
<1>2. log[u][i] \in RecordedEvent
  BY <1>1
<1> QED
  BY <1>2 DEF RecordedEvent

\* Appending a run's events to its task's log, when every other run with an
\* event there is over.
LEMMA AppendRun ==
  ASSUME TypeOK, LogOwned, RunsDoNotInterleave,
         NEW r \in Request, req[r] \in {"idle", "running"},
         NEW v \in {"running", "ended"}, req' = [req EXCEPT ![r] = v],
         \A i \in 1..Len(log[TaskOf[r]]) :
           log[TaskOf[r]][i].req # r => req[log[TaskOf[r]][i].req] = "ended",
         NEW events \in Seq(RecordedEvent),
         \A i \in 1..Len(events) : events[i].req = r,
         Record(r, events)
  PROVE  LogOwned' /\ RunsDoNotInterleave'
<1> DEFINE t == TaskOf[r]
           old == log[t]
           new == old \o events
<1>1. t \in Task /\ old \in Seq(RecordedEvent)
  BY ConstantsAssumption DEF TypeOK
<1>2. log' = [log EXCEPT ![t] = new]
  BY DEF Record
<1>3. /\ Len(new) = Len(old) + Len(events)
      /\ \A i \in 1..Len(new) :
           new[i] = IF i <= Len(old) THEN old[i] ELSE events[i - Len(old)]
      /\ Len(old) \in Nat /\ Len(events) \in Nat
  BY <1>1
<1>4. \A i \in 1..Len(new) : i > Len(old) => new[i].req = r
  BY <1>3
<1>5. \A u \in Task : \A i \in 1..Len(log[u]) : log[u][i].req \in Request
  BY LogRequests
<1>6. \A x \in Request : req[x] = "ended" => req'[x] = "ended"
  BY DEF TypeOK
<1>7. \A x \in Request : req[x] \in {"running", "ended"}
                           => req'[x] \in {"running", "ended"}
  BY DEF TypeOK
<1>8. req'[r] \in {"running", "ended"}
  BY DEF TypeOK
<1>9. \A u \in Task : u # t => log'[u] = log[u]
  BY <1>2 DEF TypeOK
<1>10. log'[t] = new
  BY <1>1, <1>2 DEF TypeOK
<1> HIDE DEF new, old
<1>11. LogOwned'
  <2> SUFFICES ASSUME NEW u \in Task, NEW i \in 1..Len(log'[u])
               PROVE  /\ TaskOf[log'[u][i].req] = u
                      /\ req'[log'[u][i].req] \in {"running", "ended"}
    BY DEF LogOwned
  <2>1. CASE u # t
    BY <2>1, <1>5, <1>7, <1>9 DEF LogOwned
  <2>2. CASE u = t /\ i <= Len(old)
    <3>1. i \in 1..Len(log[u]) /\ log'[u][i] = log[u][i]
      BY <2>2, <1>3, <1>10 DEF old
    <3> QED
      BY <3>1, <1>5, <1>7 DEF LogOwned
  <2>3. CASE u = t /\ ~(i <= Len(old))
    <3>1. log'[u][i].req = r
      BY <2>3, <1>3, <1>4, <1>10
    <3> QED
      BY <3>1, <1>8, <2>3
  <2> QED
    BY <2>1, <2>2, <2>3
<1>12. RunsDoNotInterleave'
  <2> SUFFICES ASSUME NEW u \in Task,
                      NEW i \in 1..Len(log'[u]), NEW j \in 1..Len(log'[u]),
                      i < j, log'[u][i].req # log'[u][j].req
               PROVE  req'[log'[u][i].req] = "ended"
    BY DEF RunsDoNotInterleave
  <2>1. CASE u # t
    BY <2>1, <1>5, <1>6, <1>9 DEF RunsDoNotInterleave
  <2>2. CASE u = t /\ i <= Len(old)
    <3>1. i \in 1..Len(log[u]) /\ log'[u][i] = log[u][i]
      BY <2>2, <1>3, <1>10 DEF old
    <3>2. CASE j <= Len(old)
      <4>1. j \in 1..Len(log[u]) /\ log'[u][j] = log[u][j]
        BY <2>2, <3>2, <1>3, <1>10 DEF old
      <4> QED
        BY <3>1, <4>1, <1>5, <1>6 DEF RunsDoNotInterleave
    <3>3. CASE ~(j <= Len(old))
      <4>1. log'[u][j].req = r
        BY <2>2, <3>3, <1>3, <1>4, <1>10
      <4>2. log[u][i].req # r
        BY <3>1, <4>1
      <4> QED
        BY <2>2, <3>1, <4>2, <1>5, <1>6 DEF old
    <3> QED
      BY <3>2, <3>3
  <2>3. CASE u = t /\ ~(i <= Len(old))
    <3>1. log'[u][i].req = r /\ log'[u][j].req = r
      BY <2>3, <1>3, <1>4, <1>10
    <3> QED
      BY <3>1
  <2> QED
    BY <2>1, <2>2, <2>3
<1> QED
  BY <1>11, <1>12

LEMMA LogStep ==
  ASSUME TypeOK, SlotsAreRuns, LogOwned, RunsDoNotInterleave, [Next]_vars
  PROVE  LogOwned' /\ RunsDoNotInterleave'
<1>1. \A u \in Task : \A i \in 1..Len(log[u]) : log[u][i].req \in Request
  BY LogRequests
<1>2. \A e \in RecordedEvent : <<e>> \in Seq(RecordedEvent)
  OBVIOUS
<1>3. ASSUME NEW r \in Request, Starts(r)
      PROVE  LogOwned' /\ RunsDoNotInterleave'
  <2>1. PICK e \in RecordedEvent : e.req = r /\ Record(r, <<e>>)
    BY <1>3 DEF Starts
  <2>2. \A i \in 1..Len(log[TaskOf[r]]) : req[log[TaskOf[r]][i].req] = "ended"
    BY <1>1, <1>3, ConstantsAssumption DEF Starts, SlotsAreRuns, LogOwned
  <2>3. \A i \in 1..Len(<<e>>) : <<e>>[i].req = r
    BY <2>1
  <2>4. req[r] = "idle" /\ req' = [req EXCEPT ![r] = "running"]
    BY <1>3 DEF Starts
  <2> QED
    BY <1>2, <2>1, <2>2, <2>3, <2>4, AppendRun
<1>4. ASSUME NEW r \in Request, req[r] = "running"
      PROVE  \A i \in 1..Len(log[TaskOf[r]]) :
               log[TaskOf[r]][i].req # r => req[log[TaskOf[r]][i].req] = "ended"
  BY <1>1, <1>4, ConstantsAssumption DEF SlotsAreRuns, LogOwned
<1>5. ASSUME NEW r \in Request, Ends(r)
      PROVE  LogOwned' /\ RunsDoNotInterleave'
  <2>1. PICK events \in Seq(RecordedEvent) :
          (\A i \in 1..Len(events) : events[i].req = r) /\ Record(r, events)
    BY <1>5 DEF Ends
  <2>2. req[r] = "running" /\ req' = [req EXCEPT ![r] = "ended"]
    BY <1>5 DEF Ends, Finish
  <2> QED
    BY <1>4, <2>1, <2>2, AppendRun
<1>6. ASSUME NEW r \in Request, Goes(r)
      PROVE  LogOwned' /\ RunsDoNotInterleave'
  <2>1. CASE req[r] = "idle" /\ req' = [req EXCEPT ![r] = "refused"] /\ UNCHANGED log
    <3>1. \A x \in Request : req[x] \in {"running", "ended"} => req'[x] = req[x]
      BY <2>1 DEF TypeOK
    <3> QED
      BY <1>1, <2>1, <3>1 DEF LogOwned, RunsDoNotInterleave
  <2>2. CASE /\ req[r] = "running"
             /\ UNCHANGED req
             /\ \E e \in RecordedEvent : e.req = r /\ Record(r, <<e>>)
    <3>1. PICK e \in RecordedEvent : e.req = r /\ Record(r, <<e>>)
      BY <2>2
    <3>2. req' = [req EXCEPT ![r] = "running"]
      BY <2>2 DEF TypeOK
    <3>3. \A i \in 1..Len(<<e>>) : <<e>>[i].req = r
      BY <3>1
    <3> QED
      BY <1>2, <1>4, <2>2, <3>1, <3>2, <3>3, AppendRun
  <2> QED
    BY <1>6, <2>1, <2>2 DEF Goes
<1>7. CASE UNCHANGED <<slots, req, log>>
  BY <1>7 DEF LogOwned, RunsDoNotInterleave
<1> QED
  BY <1>3, <1>5, <1>6, <1>7, StepKinds

-----------------------------------------------------------------------------
(* Theorems *)

LEMMA InvInit == Init => IInv
<1> SUFFICES ASSUME Init PROVE IInv
  OBVIOUS
<1>1. TypeOK /\ IsFiniteSet(slots)
  BY TypeInit
<1>2. SlotsAreRuns
  BY DEF Init, SlotsAreRuns
<1>3. LogOwned /\ RunsDoNotInterleave
  BY DEF Init, LogOwned, RunsDoNotInterleave
<1> QED
  BY <1>1, <1>2, <1>3 DEF IInv

LEMMA InvStep == IInv /\ [Next]_vars => IInv'
<1> SUFFICES ASSUME IInv, [Next]_vars PROVE IInv'
  OBVIOUS
<1>1. TypeOK' /\ IsFiniteSet(slots)'
  BY TypeStep DEF IInv
<1>2. SlotsAreRuns'
  BY SlotsStep DEF IInv
<1>3. LogOwned' /\ RunsDoNotInterleave'
  BY LogStep DEF IInv
<1> QED
  BY <1>1, <1>2, <1>3 DEF IInv

\* The inductive invariant holds of every behaviour.
THEOREM Invariant == Spec => []IInv
  BY InvInit, InvStep, PTL DEF Spec

\* However requests, disconnects, timers and failures interleave, the slots
\* in use are exactly the tasks of the runs in progress, one run per task.
THEOREM SlotsAlwaysRuns == Spec => []SlotsAreRuns
<1>1. IInv => SlotsAreRuns
  BY DEF IInv
<1> QED
  BY Invariant, <1>1, PTL

\* A task's log never mixes two runs of the same task id.
THEOREM RunsNeverInterleave == Spec => []RunsDoNotInterleave
<1>1. IInv => RunsDoNotInterleave
  BY DEF IInv
<1> QED
  BY Invariant, <1>1, PTL

\* A worker that drains takes no new task any more.
THEOREM DrainingTakesNone == Spec => DrainingTakesNoTask
<1>1. ASSUME IInv, [Next]_vars
      PROVE  [state = "DRAINING" =>
                state' \in {"DRAINING", "OFFLINE"} /\ slots' \subseteq slots]_vars
  <2> SUFFICES ASSUME state = "DRAINING", Next
               PROVE  state' = "DRAINING" /\ slots' \subseteq slots
    BY <1>1 DEF vars
  <2>1. ASSUME NEW r \in Request, SubmitStep(r) \/ RunStep(r)
        PROVE  state' = "DRAINING" /\ slots' \subseteq slots
    BY <2>1 DEF SubmitStep, Accept, IsAccepting, RefuseBusy, RefusePayload,
       RefuseDuplicate, RefuseOnStream, RunStep, L0Event, FirstToken, Complete,
       Fail, Settle, Abandon, Finish, Release, Disconnect, DrainTimerFires
  <2>2. ASSUME NEW n \in CapUpdate, UpdateConfig(n)
        PROVE  state' = "DRAINING" /\ slots' \subseteq slots
    BY <2>2 DEF UpdateConfig
  <2>3. ASSUME NEW d \in Drain, StartDrain(d) \/ EndDrain(d)
        PROVE  state' = "DRAINING" /\ slots' \subseteq slots
    BY <2>3 DEF StartDrain, EndDrain, taskVars
  <2> QED
    BY <2>1, <2>2, <2>3 DEF Next
<1> QED
  BY Invariant, <1>1, PTL DEF Spec, DrainingTakesNoTask

\* The slot manager keeps the promise of SlotPool: every step of the worker
\* acquires below the limit, releases a slot that was held, resizes to a
\* positive limit, or is none of the slot manager's business.
THEOREM Refinement == Spec => SlotPoolSpec
<1>1. Init => Slots!Init
  BY ConstantsAssumption DEF Init, Slots!Init
<1>2. IInv /\ [Next]_vars => [Slots!Next]_(Slots!vars)
  <2> SUFFICES ASSUME IInv, [Next]_vars
               PROVE  \/ \E t \in Task : Slots!Acquire(t) \/ Slots!Release(t)
                      \/ Slots!Resize
                      \/ UNCHANGED <<slots, cap>>
    BY DEF Slots!Next, Slots!vars
  <2>1. ASSUME NEW r \in Request, Accept(r)
        PROVE  Slots!Acquire(TaskOf[r])
    <3>1. /\ TaskOf[r] \notin slots
          /\ Cardinality(slots) < cap
          /\ slots' = slots \cup {TaskOf[r]}
          /\ UNCHANGED cap
      BY <2>1 DEF Accept, Acquire, HasAvailableSlot
    <3> QED
      BY <3>1 DEF Slots!Acquire, Slots!Cardinality, Cardinality
  <2>2. ASSUME NEW r \in Request, Finish(r), req[r] = "running", UNCHANGED cap
        PROVE  Slots!Release(TaskOf[r])
    BY <2>2 DEF Finish, Release, IInv, SlotsAreRuns, Slots!Release
  <2>3. ASSUME NEW r \in Request, FirstToken(r) \/ Complete(r) \/ Fail(r)
        PROVE  Slots!Release(TaskOf[r]) \/ UNCHANGED <<slots, cap>>
    BY <2>2, <2>3 DEF FirstToken, Complete, Fail, Settle, Abandon
  <2>4. ASSUME NEW r \in Request,
               \/ RefuseBusy(r) \/ RefusePayload(r) \/ RefuseDuplicate(r)
               \/ L0Event(r) \/ Disconnect(r) \/ DrainTimerFires(r)
        PROVE  UNCHANGED <<slots, cap>>
    BY <2>4 DEF RefuseBusy, RefusePayload, RefuseDuplicate, RefuseOnStream,
       L0Event, Disconnect, DrainTimerFires
  <2>5. ASSUME NEW n \in CapUpdate, UpdateConfig(n)
        PROVE  Slots!Resize
    BY <2>5, ConstantsAssumption DEF UpdateConfig, Slots!Resize
  <2>6. ASSUME NEW d \in Drain, StartDrain(d) \/ EndDrain(d)
        PROVE  UNCHANGED <<slots, cap>>
    BY <2>6 DEF StartDrain, EndDrain, taskVars
  <2>7. CASE UNCHANGED vars
    BY <2>7 DEF vars
  <2>8. \A r \in Request : TaskOf[r] \in Task
    BY ConstantsAssumption
  <2> QED
    BY <2>1, <2>3, <2>4, <2>5, <2>6, <2>7, <2>8 DEF Next, SubmitStep, RunStep
<1> QED
  BY Invariant, <1>1, <1>2, PTL DEF Spec, SlotPoolSpec, Slots!Spec
=============================================================================
