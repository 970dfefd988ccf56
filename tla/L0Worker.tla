------------------------------ MODULE L0Worker ------------------------------
(***************************************************************************)
(* One worker process: the HTTP handlers of src/server.ts (standalone) and *)
(* api/submit.ts (Vercel), VercelWorker.executeTaskWithEvents with its     *)
(* slot manager, state machine and configuration, the in-memory event      *)
(* store it records into, the drain timer, and the shutdown path that      *)
(* POST /api/drain and SIGTERM start.                                      *)
(*                                                                         *)
(* JavaScript runs one macrotask at a time.  An action is one macrotask    *)
(* with the microtasks it leaves behind: every await inside it is on a     *)
(* promise that is already resolved (eventStore.record does no I/O), so    *)
(* nothing else runs in between.  Between two actions anything may happen: *)
(* another request, a provider event, a timer, a client that goes away.    *)
(***************************************************************************)
EXTENDS Integers, FiniteSets, Sequences, SequencesExt

CONSTANTS
  Request,     \* POST /api/submit requests, each sent at most once
  Task,        \* task identifiers
  TaskOf,      \* the task_id of a request; two requests may share one
  OrderKind,   \* how a request's order is executed, see OrderKinds
  Drain,       \* shutdown triggers: POST /api/drain, SIGTERM, SIGINT
  InitCap,     \* config.maxConcurrency at start
  CapUpdate,   \* values POST /api/config may carry
  Deployment,  \* "standalone" (src/server.ts) or "vercel" (api/submit.ts)
  DrainTimer,  \* functionTimeoutMs > 0 and functionTimeoutMs > drainBufferMs
  MaxL0Events  \* bound: L0 lifecycle events per stream

OrderKinds == {"stream", "race", "fanout"}

ASSUME ConstantsAssumption ==
  /\ TaskOf \in [Request -> Task]
  /\ OrderKind \in [Request -> OrderKinds]
  /\ InitCap \in Nat \ {0}
  /\ CapUpdate \subseteq Nat
  /\ Deployment \in {"standalone", "vercel"}
  /\ DrainTimer \in BOOLEAN
  /\ MaxL0Events \in Nat

VARIABLES
  state,      \* WorkerStateMachine._state
  cap,        \* maxConcurrency, of ConfigManager.runtime and of SlotManager
  slots,      \* keys of SlotManager.slots
  req,        \* where each submit request stands
  connected,  \* the client still reads the request's event stream
  stream,     \* what was put on the request's event stream
  log,        \* MemoryEventStore.events
  armed,      \* requests whose drain timer is set
  aborted,    \* requests whose AbortController was aborted
  drain,      \* where each waitForDrained call stands
  stdout,     \* structured lines printed for the supervisor
  proc        \* the operating-system process

taskVars == <<slots, req, stream, log, armed>>
vars == <<state, cap, slots, req, connected, stream, log, armed, aborted,
          drain, stdout, proc>>

-----------------------------------------------------------------------------
(* Events and data *)

RecordedTypes ==
  {"TASK_ACCEPTED", "FIRST_TOKEN", "TASK_COMPLETED", "TASK_FAILED"}
TerminalTypes == {"TASK_COMPLETED", "TASK_FAILED"}
StreamTypes == RecordedTypes \cup {"L0_EVENT", "WORKER_DRAINING", "DONE", "ERROR",
                                "DUPLICATE_TASK"}

\* An event of the run of request r; the code tells runs apart by ts.
Ev(type, r) == [type |-> type, req |-> r]
RunEvent(r) == [type : RecordedTypes, req : {r}]
RecordedEvent == [type : RecordedTypes, req : Request]
StreamEvent == [type : StreamTypes, req : Request]

WorkerStates == {"BOOT", "READY", "ACCEPTING", "DRAINING", "OFFLINE"}

Line(event, pending) == [event |-> event, pending |-> pending]
Lines == [event : {"worker.ready", "worker.draining", "worker.drained"},
          pending : Nat]

TypeOK ==
  /\ state \in WorkerStates
  /\ cap \in Nat \ {0}
  /\ slots \subseteq Task
  /\ req \in [Request -> {"idle", "running", "ended", "refused"}]
  /\ connected \in [Request -> BOOLEAN]
  /\ stream \in [Request -> Seq(StreamEvent)]
  /\ log \in [Task -> Seq(RecordedEvent)]
  /\ armed \subseteq Request
  /\ aborted \subseteq Request
  /\ drain \in [Drain -> {"idle", "waiting", "done"}]
  /\ stdout \in Seq(Lines)
  /\ proc \in {"up", "exited", "crashed"}

Init ==
  /\ state = "READY"
  /\ cap = InitCap
  /\ slots = {}
  /\ req = [r \in Request |-> "idle"]
  /\ connected = [r \in Request |-> TRUE]
  /\ stream = [r \in Request |-> <<>>]
  /\ log = [t \in Task |-> <<>>]
  /\ armed = {}
  /\ aborted = {}
  /\ drain = [d \in Drain |-> "idle"]
  /\ stdout = <<Line("worker.ready", 0)>>
  /\ proc = "up"

-----------------------------------------------------------------------------
(* Process, slots and state machine *)

Up == proc = "up"

\* Mutant: the limit is off by one.
HasAvailableSlotOffByOne == Cardinality(slots) <= cap

HasAvailableSlot == Cardinality(slots) < cap

\* Mutant: acquire() does not look for the task id.
AcquireAnyTask(t) == HasAvailableSlot /\ slots' = slots \cup {t}

Acquire(t) ==
  /\ t \notin slots
  /\ HasAvailableSlot
  /\ slots' = slots \cup {t}

Release(t) == slots' = slots \ {t}

\* Mutant: every state but OFFLINE accepts.
IsAcceptingUnlessOffline == state # "OFFLINE"

IsAccepting == state \in {"READY", "ACCEPTING"}

Transitions ==
  [s \in WorkerStates |->
     CASE s = "BOOT"      -> {"READY"}
       [] s = "READY"     -> {"ACCEPTING", "DRAINING", "OFFLINE"}
       [] s = "ACCEPTING" -> {"DRAINING", "OFFLINE"}
       [] s = "DRAINING"  -> {"OFFLINE"}
       [] s = "OFFLINE"   -> {}]

Transition(to) == to \in Transitions[state] /\ state' = to

-----------------------------------------------------------------------------
(* Emitting and recording *)

\* Mutant: the Vercel handler's write throws as well.
EmitThrowsEverywhere(r) == ~connected[r]

\* controller.enqueue throws once the client has cancelled the stream;
\* res.write of the Vercel handler does not.
EmitThrows(r) == Deployment = "standalone" /\ ~connected[r]

Send(r, events) ==
  stream' = [stream EXCEPT ![r] = IF connected[r] THEN @ \o events ELSE @]

Record(r, events) == log' = [log EXCEPT ![TaskOf[r]] = @ \o events]

\* The events of s that are in T, in their order.  What SelectSeq does, as a
\* recursive function, for the proofs can look into it.
Only(s, T) ==
  LET only[n \in 0..Len(s)] ==
        IF n = 0 THEN <<>>
        ELSE IF s[n] \in T THEN Append(only[n - 1], s[n])
        ELSE only[n - 1]
  IN  only[Len(s)]

\* Replay's view: the recorded events of one run.
RunLog(r) == Only(log[TaskOf[r]], RunEvent(r))

FirstTokenEmitted(r) == Ev("FIRST_TOKEN", r) \in ToSet(log[TaskOf[r]])

\* The finally block of executeTaskWithEvents.
Finish(r) ==
  /\ armed' = armed \ {r}
  /\ Release(TaskOf[r])
  /\ req' = [req EXCEPT ![r] = "ended"]

\* Mutant: the slot is given back after the terminal event, not in finally.
AbandonKeepingSlot(r) ==
  /\ armed' = armed \ {r}
  /\ req' = [req EXCEPT ![r] = "ended"]
  /\ UNCHANGED <<slots, stream, log>>

\* An emit threw: so does the one of TASK_FAILED in the catch block.  The
\* slot comes back, nothing more is recorded.
Abandon(r) == Finish(r) /\ UNCHANGED <<stream, log>>

\* Mutant: the terminal event is recorded before it is emitted.
SettleRecordingFirst(r, events) ==
  /\ Record(r, events)
  /\ IF EmitThrows(r)
     THEN UNCHANGED stream
     ELSE Send(r, Append(events, Ev("DONE", r)))
  /\ Finish(r)

\* The run's last events go out and are recorded, the stream is closed.
Settle(r, events) ==
  IF EmitThrows(r)
  THEN Abandon(r)
  ELSE /\ Send(r, Append(events, Ev("DONE", r)))
       /\ Record(r, events)
       /\ Finish(r)

-----------------------------------------------------------------------------
(* POST /api/submit *)

\* handleSubmit up to the first suspension of executeTaskWithEvents.
Accept(r) ==
  /\ Up
  /\ req[r] = "idle"
  /\ IsAccepting
  /\ Acquire(TaskOf[r])
  /\ IF state = "READY" THEN Transition("ACCEPTING") ELSE UNCHANGED state
  /\ armed' = IF DrainTimer THEN armed \cup {r} ELSE armed
  /\ Send(r, <<Ev("TASK_ACCEPTED", r)>>)
  /\ Record(r, <<Ev("TASK_ACCEPTED", r)>>)
  /\ req' = [req EXCEPT ![r] = "running"]
  /\ UNCHANGED <<cap, connected, aborted, drain, stdout, proc>>

\* 503 before the stream opens; 400 and 401 leave the worker alone as well.
RefuseBusy(r) ==
  /\ Up
  /\ req[r] = "idle"
  /\ ~IsAccepting \/ ~HasAvailableSlot
  /\ req' = [req EXCEPT ![r] = "refused"]
  /\ UNCHANGED <<state, cap, slots, connected, stream, log, armed, aborted,
                 drain, stdout, proc>>

\* An ERROR on the open stream, and the stream is closed.
RefuseOnStream(r, type) ==
  /\ Up
  /\ req[r] = "idle"
  /\ IsAccepting /\ HasAvailableSlot
  /\ Send(r, <<Ev(type, r)>>)
  /\ req' = [req EXCEPT ![r] = "refused"]
  /\ UNCHANGED <<state, cap, slots, connected, log, armed, aborted, drain,
                 stdout, proc>>

\* parseTaskPayload throws before the slot is asked for.
RefusePayload(r) == RefuseOnStream(r, "ERROR")

\* acquire() answers "duplicate".
RefuseDuplicate(r) ==
  TaskOf[r] \in slots /\ RefuseOnStream(r, "DUPLICATE_TASK")

-----------------------------------------------------------------------------
(* A run in progress *)

\* onL0Event: forwarded to the stream, not recorded.
L0Event(r) ==
  /\ Up
  /\ req[r] = "running"
  /\ ~EmitThrows(r)
  /\ Len(Only(stream[r], [type : {"L0_EVENT"}, req : Request])) < MaxL0Events
  /\ Send(r, <<Ev("L0_EVENT", r)>>)
  /\ UNCHANGED <<state, cap, slots, req, connected, log, armed, aborted,
                 drain, stdout, proc>>

\* Mutant: firstTokenEmitted is never set.
FirstTokenAgain(r) ==
  /\ Up
  /\ req[r] = "running"
  /\ OrderKind[r] = "stream"
  /\ IF EmitThrows(r)
     THEN Abandon(r)
     ELSE /\ Send(r, <<Ev("FIRST_TOKEN", r)>>)
          /\ Record(r, <<Ev("FIRST_TOKEN", r)>>)
          /\ UNCHANGED <<slots, req, armed>>
  /\ UNCHANGED <<state, cap, connected, aborted, drain, stdout, proc>>

\* onFirstToken, at most once; only orders consumed token by token call it
\* while they run.
FirstToken(r) ==
  /\ Up
  /\ req[r] = "running"
  /\ OrderKind[r] = "stream"
  /\ ~FirstTokenEmitted(r)
  /\ IF EmitThrows(r)
     THEN Abandon(r)
     ELSE /\ Send(r, <<Ev("FIRST_TOKEN", r)>>)
          /\ Record(r, <<Ev("FIRST_TOKEN", r)>>)
          /\ UNCHANGED <<slots, req, armed>>
  /\ UNCHANGED <<state, cap, connected, aborted, drain, stdout, proc>>

\* What a successful order emits last: a race reports its first token only
\* once it is over, and only if the winner said anything.
CompletionEvents(r) ==
  {<<Ev("TASK_COMPLETED", r)>>} \cup
  IF OrderKind[r] = "race"
  THEN {<<Ev("FIRST_TOKEN", r), Ev("TASK_COMPLETED", r)>>}
  ELSE {}

Complete(r) ==
  /\ Up
  /\ req[r] = "running"
  /\ \E events \in CompletionEvents(r) : Settle(r, events)
  /\ UNCHANGED <<state, cap, connected, aborted, drain, stdout, proc>>

\* Mutant: the catch block releases and closes but reports nothing.
FailSilently(r) ==
  /\ Up
  /\ req[r] = "running"
  /\ Settle(r, <<>>)
  /\ UNCHANGED <<state, cap, connected, aborted, drain, stdout, proc>>

\* executeOrder rejects: provider error, output validation, abort.
Fail(r) ==
  /\ Up
  /\ req[r] = "running"
  /\ Settle(r, <<Ev("TASK_FAILED", r)>>)
  /\ UNCHANGED <<state, cap, connected, aborted, drain, stdout, proc>>

\* The client goes away; the worker notices when it next emits.
Disconnect(r) ==
  /\ Up
  /\ req[r] = "running"
  /\ connected[r]
  /\ connected' = [connected EXCEPT ![r] = FALSE]
  /\ UNCHANGED <<state, cap, slots, req, stream, log, armed, aborted, drain,
                 stdout, proc>>

-----------------------------------------------------------------------------
(* Drain timer, configuration, shutdown *)

\* Mutant: abort() is inside the test for DRAINING.
DrainTimerAbortsFirstOnly(r) ==
  /\ Up
  /\ r \in armed
  /\ armed' = armed \ {r}
  /\ IF state = "DRAINING"
     THEN UNCHANGED <<state, stream, aborted>>
     ELSE /\ Transition("DRAINING")
          /\ Send(r, <<Ev("WORKER_DRAINING", r)>>)
          /\ aborted' = aborted \cup {r}
  /\ UNCHANGED <<cap, slots, req, connected, log, drain, stdout, proc>>

\* Mutant: every timer announces the drain.
DrainTimerAlwaysAnnounces(r) ==
  /\ Up
  /\ r \in armed
  /\ armed' = armed \ {r}
  /\ state' = "DRAINING"
  /\ Send(r, <<Ev("WORKER_DRAINING", r)>>)
  /\ aborted' = aborted \cup {r}
  /\ UNCHANGED <<cap, slots, req, connected, log, drain, stdout, proc>>

\* The timer of request r.  The first one to fire anywhere drains the
\* worker; each one aborts its own request only.  An emit that throws here
\* is in no try block: the process dies before the abort.
DrainTimerFires(r) ==
  /\ Up
  /\ r \in armed
  /\ armed' = armed \ {r}
  /\ IF state = "DRAINING"
     THEN /\ aborted' = aborted \cup {r}
          /\ UNCHANGED <<state, stream, proc>>
     ELSE /\ Transition("DRAINING")
          /\ IF EmitThrows(r)
             THEN proc' = "crashed" /\ UNCHANGED <<stream, aborted>>
             ELSE /\ Send(r, <<Ev("WORKER_DRAINING", r)>>)
                  /\ aborted' = aborted \cup {r}
                  /\ UNCHANGED proc
  /\ UNCHANGED <<cap, slots, req, connected, log, drain, stdout>>

\* Mutant: the value is not checked.
UpdateConfigUnchecked(n) ==
  /\ Up
  /\ cap' = n
  /\ UNCHANGED <<state, slots, req, connected, stream, log, armed, aborted,
                 drain, stdout, proc>>

\* POST /api/config; ConfigManager.update throws below 1, before it changes
\* anything, and its listener hands the value to the slot manager.
UpdateConfig(n) ==
  /\ Up
  /\ n >= 1
  /\ cap' = n
  /\ UNCHANGED <<state, slots, req, connected, stream, log, armed, aborted,
                 drain, stdout, proc>>

\* worker.drained is printed and process.exit(0) follows.
Exit(d, lines, pending) ==
  /\ stdout' = Append(lines, Line("worker.drained", pending))
  /\ drain' = [drain EXCEPT ![d] = "done"]
  /\ proc' = "exited"

\* POST /api/drain or a signal: waitForDrained looks at the slots at once.
StartDrain(d) ==
  /\ Up
  /\ drain[d] = "idle"
  /\ LET lines == Append(stdout, Line("worker.draining", 0))
     IN  IF slots = {}
         THEN Exit(d, lines, 0)
         ELSE /\ stdout' = lines
              /\ drain' = [drain EXCEPT ![d] = "waiting"]
              /\ UNCHANGED proc
  /\ UNCHANGED <<state, cap, connected, aborted>>
  /\ UNCHANGED taskVars

\* Mutant: the poll also waits for the state machine to say DRAINING, which a
\* drain request does not bring about.
EndDrainOfDraining(d) ==
  /\ Up
  /\ drain[d] = "waiting"
  /\ state = "DRAINING"
  /\ Exit(d, stdout, Cardinality(slots))
  /\ UNCHANGED <<state, cap, connected, aborted>>
  /\ UNCHANGED taskVars

\* Mutant: the deadline prints the line of a clean drain.
EndDrainAsClean(d) ==
  /\ Up
  /\ drain[d] = "waiting"
  /\ Exit(d, stdout, 0)
  /\ UNCHANGED <<state, cap, connected, aborted>>
  /\ UNCHANGED taskVars

\* A poll of waitForDrained that ends it: no task left, or, with tasks left,
\* drainBufferMs - 100 gone by.
EndDrain(d) ==
  /\ Up
  /\ drain[d] = "waiting"
  /\ Exit(d, stdout, Cardinality(slots))
  /\ UNCHANGED <<state, cap, connected, aborted>>
  /\ UNCHANGED taskVars

-----------------------------------------------------------------------------
(* Specification *)

SubmitStep(r) ==
  \/ Accept(r)
  \/ RefuseBusy(r)
  \/ RefusePayload(r)
  \/ RefuseDuplicate(r)

RunStep(r) ==
  \/ L0Event(r)
  \/ FirstToken(r)
  \/ Complete(r)
  \/ Fail(r)
  \/ Disconnect(r)
  \/ DrainTimerFires(r)

Next ==
  \/ \E r \in Request : SubmitStep(r) \/ RunStep(r)
  \/ \E n \in CapUpdate : UpdateConfig(n)
  \/ \E d \in Drain : StartDrain(d) \/ EndDrain(d)

\* Timers fire, waitForDrained keeps polling, and the L0 runtime rejects a
\* stream whose signal was aborted.  Nothing is assumed of a provider.
Fairness ==
  /\ \A r \in Request : WF_vars(DrainTimerFires(r))
  /\ \A r \in Request : WF_vars(r \in aborted /\ Fail(r))
  /\ \A d \in Drain : WF_vars(EndDrain(d))

Spec == Init /\ [][Next]_vars
FairSpec == Spec /\ Fairness

-----------------------------------------------------------------------------
(* Safety *)

\* A slot is held exactly while a run of its task is in progress, and no two
\* runs of one task are in progress together: the finally block of
\* executeTaskWithEvents gives every slot back on every path, the ones where
\* the client is gone included, and acquire() refuses a running task id.
SlotsAreRuns ==
  /\ slots = {TaskOf[r] : r \in {x \in Request : req[x] = "running"}}
  /\ \A r, s \in Request :
       req[r] = "running" /\ req[s] = "running" /\ TaskOf[r] = TaskOf[s]
         => r = s

\* In a task's log the events of one run are contiguous: once a later run of
\* the same task id has recorded something, the earlier run records nothing
\* more.  Replay relies on it, for it re-emits the log as one stream.
RunsDoNotInterleave ==
  \A t \in Task : \A i, j \in 1..Len(log[t]) :
    i < j /\ log[t][i].req # log[t][j].req => req[log[t][i].req] = "ended"

\* The recorded events of a run tell one story: accepted first and once, the
\* first token at most once and before the end, at most one terminal event,
\* last, and none while the run goes on.
RunLogWellFormed ==
  \A r \in Request :
    LET story == RunLog(r) IN
    /\ (story = <<>>) <=> (req[r] \in {"idle", "refused"})
    /\ \A i \in 1..Len(story) :
         /\ (story[i].type = "TASK_ACCEPTED") <=> (i = 1)
         /\ story[i].type = "FIRST_TOKEN" => i = 2
         /\ story[i].type \in TerminalTypes
              => i = Len(story) /\ req[r] = "ended"

\* What was recorded of a run is what its stream carried, in that order; a
\* Vercel stream whose client left may carry less, never more.
StreamMatchesLog ==
  \A r \in Request :
    LET sent == Only(stream[r], RecordedEvent) IN
    /\ IsPrefix(sent, RunLog(r))
    /\ connected[r] \/ Deployment = "standalone" => sent = RunLog(r)

\* A client that stays gets the whole story: when its run is over the stream
\* ends with a terminal event and [DONE], and nothing was put after it.
StayingClientSeesTheEnd ==
  \A r \in Request :
    req[r] = "ended" /\ connected[r] =>
      LET n == Len(stream[r]) IN
      /\ n >= 2
      /\ stream[r][n].type = "DONE"
      /\ stream[r][n - 1].type \in TerminalTypes
      /\ \A i \in 1..(n - 2) :
           stream[r][i].type \notin TerminalTypes \cup {"DONE"}

\* The worker announces its drain on one stream at most, however many timers
\* fire, and on one exactly unless the client of the timer's request left.
DrainingAnnouncedOnce ==
  LET told == {r \in Request : Ev("WORKER_DRAINING", r) \in ToSet(stream[r])}
  IN  /\ Cardinality(told) <= 1
      /\ \A r \in told :
           Len(Only(stream[r], [type : {"WORKER_DRAINING"}, req : Request])) = 1
      /\ state = "DRAINING" /\ (\A r \in Request : connected[r])
           => told # {}

\* The line the supervisor reads before the process goes says how many runs
\* it takes with it.
DrainedLineIsHonest ==
  proc = "exited" =>
    Last(stdout) = Line("worker.drained",
                        Cardinality({r \in Request : req[r] = "running"}))

\* A worker that drains takes no new task any more, whatever is submitted,
\* reconfigured or resubmitted under the id of a run that is over: the only
\* way out of DRAINING is OFFLINE, where nothing is accepted either.
DrainingTakesNoTask ==
  [][state = "DRAINING" =>
       state' \in {"DRAINING", "OFFLINE"} /\ slots' \subseteq slots]_vars

\* The slot manager keeps the promise of SlotPool under every interleaving
\* of submissions, terminal events, disconnects, reconfiguration and exit.
Slots == INSTANCE SlotPool WITH held <- slots, limit <- cap
SlotPoolSpec == Slots!Spec

-----------------------------------------------------------------------------
(* Liveness *)

\* With a function timeout every accepted run ends or its process does, even
\* if the provider never answers: each drain timer aborts its own request.
EveryRunEnds ==
  \A r \in Request : req[r] = "running" ~> req[r] = "ended" \/ proc # "up"

\* A requested shutdown ends the process whatever the running tasks do.
DrainEnds == \A d \in Drain : drain[d] = "waiting" ~> proc # "up"

-----------------------------------------------------------------------------
(* What the documents say and the code does not do *)

\* What became of a run that is over is on record: its log ends with its
\* terminal event, for a replay to tell a client that left ("if the SSE
\* connection drops during task execution, the orchestrator can request a
\* replay").  Holds of the Vercel handler; in the standalone server the first
\* emit after the client left ends the run with no terminal event.  Only that
\* is said: L0 events and WORKER_DRAINING are on no log, see ReplayIsTheStream.
OutcomeIsRecorded ==
  \A r \in Request :
    req[r] = "ended" =>
      /\ RunLog(r) # <<>>
      /\ Last(RunLog(r)).type \in TerminalTypes

\* WHITEPAPER: "Every event emitted during task execution is recorded", and a
\* replay recovers "the full event stream".  onL0Event and the drain timer
\* emit and do not record.
ReplayIsTheStream ==
  \A r \in Request :
    req[r] = "ended" /\ connected[r] =>
      stream[r] = Append(RunLog(r), Ev("DONE", r))

\* WHITEPAPER, "Drain-Aware Abort": after the terminal events of its tasks the
\* worker "transitions to OFFLINE".  Nothing in the code takes it there.
DrainedGoesOffline ==
  state = "DRAINING" /\ (\A r \in Request : req[r] # "running")
    ~> state = "OFFLINE" \/ proc # "up"

\* WHITEPAPER, lifecycle: DRAINING is initiated "either by explicit request
\* or approaching function timeout ... No new tasks accepted".  POST
\* /api/drain prints worker.draining and leaves the state machine alone.
NoTaskAfterDrainRequest ==
  [][ (\E d \in Drain : drain[d] # "idle") => slots' \subseteq slots ]_vars
=============================================================================
