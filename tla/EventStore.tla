------------------------------ MODULE EventStore ------------------------------
(***************************************************************************)
(* The worker's memory of its runs: MemoryEventStore (src/store), a Map    *)
(* from task ids to the events recorded for them that may forget its       *)
(* oldest key, stamped by the clock, and what the Replayer (src/replay)    *)
(* and getOutputHash read out of it.                                       *)
(*                                                                         *)
(* A run is the sequence of events executeTaskWithEvents records for it:   *)
(* accepted, at most one first token, one terminal event.  Stamping,       *)
(* emitting and recording are one turn of the event loop.                  *)
(***************************************************************************)
EXTENDS MonotonicClock, Sequences, FiniteSets

CONSTANTS
  Task,        \* task ids
  EmptyId,     \* the task id "", a string like any other to the schema
  Hash,        \* output hashes
  NoHash,      \* null
  Capacities,  \* values of maxTasks; the worker leaves it at 0, no limit
  MaxEvents    \* bound: events recorded by one process

ASSUME StoreAssumption ==
  /\ NoHash \notin Hash
  /\ Capacities \subseteq Nat
  /\ MaxEvents \in Nat

VARIABLES
  maxTasks,  \* maxTasks of the store
  keys,      \* the Map's keys, in the order they were inserted
  log,       \* its values; empty where there is no key
  told,      \* every event recorded, kept or not
  phase      \* how far the run of each task is

memory == <<keys, log, told>>
storeVars == <<clockVars, maxTasks, memory, phase>>

Kinds == {"TASK_ACCEPTED", "FIRST_TOKEN", "TASK_COMPLETED", "TASK_FAILED"}
Event == [kind : Kinds, hash : Hash \union {NoHash}, ts : Nat]

Stored == {t \in Task : log[t] # <<>>}

StoreTypeOK ==
  /\ wall \in Nat /\ last \in Nat
  /\ maxTasks \in Capacities
  /\ keys \in Seq(Task)
  /\ \A t \in Task : (\E i \in DOMAIN keys : keys[i] = t) <=> t \in Stored
  /\ \A i, j \in DOMAIN keys : keys[i] = keys[j] => i = j
  /\ log \in [Task -> Seq(Event)]
  /\ told \in [Task -> Seq(Event)]
  /\ phase \in [Task -> {"idle", "accepted", "streaming"}]

EmptyMemory ==
  /\ keys = <<>>
  /\ log = [t \in Task |-> <<>>]
  /\ told = [t \in Task |-> <<>>]

StoreInit ==
  /\ ClockInit
  /\ maxTasks \in Capacities
  /\ EmptyMemory
  /\ phase = [t \in Task |-> "idle"]

-----------------------------------------------------------------------------
(* record                                                                  *)

\* Mutant: a full store is noticed one task late.
MustEvictLate(t) == maxTasks > 0 /\ t \notin Stored /\ Len(keys) > maxTasks

\* A new task finds the store full.
MustEvict(t) == maxTasks > 0 /\ t \notin Stored /\ Len(keys) >= maxTasks

\* Mutant: the key inserted last goes.
EvictedNewest(t) == IF MustEvict(t) THEN {keys[Len(keys)]} ELSE {}

\* The oldest key goes, but for "": it is falsy, and then none does.
Evicted(t) ==
  IF MustEvict(t) /\ keys # <<>> /\ Head(keys) # EmptyId
  THEN {Head(keys)} ELSE {}

\* Mutant: the log of the oldest task goes, its key stays.
KeysWithOldest(t) == IF t \in Stored THEN keys ELSE Append(keys, t)

KeysWith(t) ==
  CASE t \in Stored -> keys
    [] Evicted(t) # {} -> Append(Tail(keys), t)
    [] OTHER -> Append(keys, t)

\* Mutant: an event replaces the ones before it.
RecordOnly(t, e) ==
  /\ keys' = KeysWith(t)
  /\ log' = [u \in Task |-> CASE u = t -> <<e>>
                              [] u \in Evicted(t) -> <<>>
                              [] OTHER -> log[u]]
  /\ told' = [told EXCEPT ![t] = Append(@, e)]

Record(t, e) ==
  /\ keys' = KeysWith(t)
  /\ log' = [u \in Task |-> CASE u = t -> Append(log[u], e)
                              [] u \in Evicted(t) -> <<>>
                              [] OTHER -> log[u]]
  /\ told' = [told EXCEPT ![t] = Append(@, e)]

Recorded == UNION {{t} \X DOMAIN told[t] : t \in Task}

\* An event of task t: stamped, emitted, recorded.
Tell(t, kind, hash) ==
  /\ Cardinality(Recorded) < MaxEvents
  /\ Record(t, [kind |-> kind, hash |-> hash, ts |-> Now])
  /\ Stamp
  /\ UNCHANGED <<wall, maxTasks>>

-----------------------------------------------------------------------------
(* The runs                                                                *)

Begin(t) ==
  /\ phase[t] = "idle"
  /\ phase' = [phase EXCEPT ![t] = "accepted"]
  /\ Tell(t, "TASK_ACCEPTED", NoHash)

FirstToken(t) ==
  /\ phase[t] = "accepted"
  /\ phase' = [phase EXCEPT ![t] = "streaming"]
  /\ Tell(t, "FIRST_TOKEN", NoHash)

\* An empty output completes without a first token.
Complete(t, hash) ==
  /\ phase[t] # "idle"
  /\ phase' = [phase EXCEPT ![t] = "idle"]
  /\ Tell(t, "TASK_COMPLETED", hash)

Fail(t) ==
  /\ phase[t] # "idle"
  /\ phase' = [phase EXCEPT ![t] = "idle"]
  /\ Tell(t, "TASK_FAILED", NoHash)

\* The client has left: emit throws, for an event of the runtime or for one of
\* the worker, and again for the failure.  The worker's have been stamped by
\* then; none is recorded.
Lose(t) ==
  /\ phase[t] # "idle"
  /\ phase' = [phase EXCEPT ![t] = "idle"]
  /\ last' \in {Now, Now + 1}
  /\ UNCHANGED <<wall, maxTasks, memory>>

\* The system clock moves, or is set.
Tick(time) ==
  /\ wall' = time
  /\ UNCHANGED <<last, maxTasks, memory, phase>>

\* The process is gone and another one started: nothing is persisted.
Forget ==
  /\ last' = 0
  /\ keys' = <<>>
  /\ log' = [t \in Task |-> <<>>]
  /\ told' = [t \in Task |-> <<>>]
  /\ phase' = [t \in Task |-> "idle"]
  /\ UNCHANGED <<wall, maxTasks>>

-----------------------------------------------------------------------------
(* Reading                                                                 *)

Completions(events) ==
  {i \in DOMAIN events : events[i].kind = "TASK_COMPLETED"}

FirstHash(events) ==
  IF Completions(events) = {} THEN NoHash
  ELSE events[CHOOSE i \in Completions(events) :
                \A j \in Completions(events) : i <= j].hash

LastHash(events) ==
  IF Completions(events) = {} THEN NoHash
  ELSE events[CHOOSE i \in Completions(events) :
                \A j \in Completions(events) : j <= i].hash

\* Mutant: the hash of the first completion, as getOutputHash has it.
ReplayedFirstHash(t) == FirstHash(log[t])

\* The outputHash replayWithValidation is left with after its loop.
ReplayedHash(t) == LastHash(log[t])

\* Mutant: only the first terminal event is looked at.
OutputHashUnlessFailed(t) ==
  IF \E i \in DOMAIN log[t] : log[t][i].kind = "TASK_FAILED"
  THEN NoHash ELSE FirstHash(log[t])

\* getOutputHash
OutputHash(t) == FirstHash(log[t])

\* outputHashMatch; NoHash for an expected hash that is not given.
HashMatch(t, expected) ==
  IF expected = NoHash \/ ReplayedHash(t) = NoHash THEN "null"
  ELSE IF expected = ReplayedHash(t) THEN "true" ELSE "false"

-----------------------------------------------------------------------------
(* Properties                                                              *)

\* The clock only goes forward: the events of a task are stamped in the order
\* they are recorded in, and no two events of the worker share a stamp, though
\* the system clock stands still or goes back (utils/clock.ts:5).
StampsOrderEvents ==
  \A t, u \in Task : \A i \in DOMAIN told[t], j \in DOMAIN told[u] :
    /\ told[t][i].ts <= last
    /\ told[t][i].ts = told[u][j].ts => t = u /\ i = j
    /\ t = u /\ i < j => told[t][i].ts < told[u][j].ts

\* What the store has for a task is the last part of what was recorded for it,
\* in order and with nothing missing in between; all of it where the store has
\* no limit (replay "yields events exactly as they were originally emitted",
\* replayer.ts:37).
LogIsLatestPart ==
  \A t \in Task : \E n \in 0..Len(told[t]) :
    /\ log[t] = SubSeq(told[t], n + 1, Len(told[t]))
    /\ n > 0 => maxTasks > 0

\* A store with a limit keeps to it, unless the task id "" has come to be the
\* oldest key: it is never evicted and then nothing is (memory-store.ts:29).
StoreBounded ==
  maxTasks > 0 /\ Len(keys) > maxTasks => Head(keys) = EmptyId

\* The task that loses its log to a new one is the one whose log began first,
\* be its run over or not (memory-store.ts:20-32).
EvictsOldest ==
  \A t \in Task : log[t] # <<>> /\ log'[t] = <<>> /\ last' # 0 =>
    \A u \in Stored \ {t} : log[t][1].ts < log[u][1].ts

\* getOutputHash and a replay can only disagree on the output of a task that
\* completed more than once: the one takes the first completion, the other
\* the last (memory-store.ts:48, replayer.ts:75).
HashesAgreeUnlessRerun ==
  \A t \in Task : OutputHash(t) # ReplayedHash(t) =>
    Cardinality(Completions(told[t])) > 1

=============================================================================
