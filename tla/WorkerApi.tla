------------------------------ MODULE WorkerApi ------------------------------
(***************************************************************************)
(* The HTTP endpoints of one worker process, in both deployments: the      *)
(* handlers of src/api (serverless) and those of src/src/server.ts         *)
(* (standalone), each with its own order of checks, over the instance they *)
(* share: limit, hot configuration, runs and event store.                  *)
(*                                                                         *)
(* A handler runs in one turn of the event loop once its body has been     *)
(* read, except replay, which awaits the store twice: it is admitted, then *)
(* answered.  What a run does in between is EventStore's; how its events   *)
(* reach the client and how the process drains is L0Worker's.              *)
(*                                                                         *)
(* Limits are counted in halves: the schema takes any number.              *)
(***************************************************************************)
EXTENDS EventStore, Auth

CONSTANTS
  WorkerId,    \* config.workerId
  Requests,    \* what clients send
  NoAuth,      \* auth left out
  NoLimit,     \* max_concurrency left out
  NotSet,      \* no value in the environment
  Settings,    \* keys of resource_caps and feature_flags
  Deployments  \* which entry points serve, and the environment they find

Endpoints == {"submit", "status", "replay", "config", "drain"}

ASSUME ApiAssumption ==
  /\ NoLimit \notin Int
  /\ NotSet \notin Int
  /\ \A r \in Requests :
       /\ r.endpoint \in Endpoints
       /\ {r.method, r.parses, r.local, r.payload} \subseteq BOOLEAN
       /\ r.endpoint \in {"submit", "replay"} /\ r.parses => r.auth # NoAuth
       /\ r.max \in Int \union {NoLimit}
       /\ r.sets \subseteq Settings
       /\ r.endpoint \in {"submit", "replay"} => r.id \in Task
  /\ \A d \in Deployments :
       /\ {d.serverless, d.vercel, d.secret} \subseteq BOOLEAN
       /\ {d.maxConcurrency, d.functionTimeout, d.drainBuffer}
            \subseteq Int \union {NotSet}

VARIABLES
  env,        \* the entry points and the environment variables
  created,    \* getWorkerInstance() is not null
  accepting,  \* the state machine is READY or ACCEPTING
  limit,      \* runtime.maxConcurrency and the slot manager's, in halves
  settings,   \* keys that have been set in resourceCaps and featureFlags
  pending,    \* replays admitted and not answered; bound: one at a time
  reply       \* what the last handler answered; not part of the worker

instance == <<created, accepting, limit, settings>>
vars == <<storeVars, env, instance, pending, reply>>

-----------------------------------------------------------------------------
(* src/src/config.ts                                                       *)

LocalPreset == [limit |-> 128, timeout |-> 0, buffer |-> 5000, skip |-> TRUE]
VercelPreset ==
  [limit |-> 2, timeout |-> 60000, buffer |-> 5000, skip |-> FALSE]

Preset == IF env.vercel THEN VercelPreset ELSE LocalPreset

\* parseIntOrDefault: NotSet stands for unset, empty and not a number.
FromEnv(value, default) == IF value = NotSet THEN default ELSE value

ConfiguredLimit == FromEnv(env.maxConcurrency, Preset.limit)
FunctionTimeout == FromEnv(env.functionTimeout, Preset.timeout)
DrainBuffer == FromEnv(env.drainBuffer, Preset.buffer)
SkipAuth ==
  IF env.skipAuth = NotSet THEN Preset.skip ELSE env.skipAuth = "true"

\* A timer is set only where it would fire after the start and before the end.
DrainTimerIsSet == FunctionTimeout > 0 /\ FunctionTimeout > DrainBuffer

\* WorkerConfigSchema refuses a limit below 1; the constructor throws.
CanCreate == ConfiguredLimit >= 2

-----------------------------------------------------------------------------
(* What the handlers ask the instance                                      *)

Inflight == {t \in Task : phase[t] # "idle"}
HasSlot == 2 * Cardinality(Inflight) < limit
Authentic(r, id) ==
  /\ r.auth # NoAuth
  /\ ValidateAuth(r.auth, id, wall, SkipAuth, env.secret) = "valid"

\* updateConfig: the limit is tested before anything is changed.
UpdateIsLegal(r) == r.max = NoLimit \/ r.max >= 2

-----------------------------------------------------------------------------
(* src/api: answers by status code.  500 is the platform's for a handler   *)
(* that throws.                                                            *)

ServerlessSubmit(r) ==
  Outcome(<<Check(r.method, 405),
            Check(r.parses, 400),
            Check(Authentic(r, r.id), 401),
            Check(created \/ CanCreate, 500),
            Check(accepting, 503),
            Check(HasSlot, 503)>>, 200)

ServerlessStatus(r) ==
  Outcome(<<Check(r.method, 405), Check(created \/ CanCreate, 500)>>, 200)

ServerlessReplay(r) ==
  Outcome(<<Check(r.method, 405),
            Check(r.parses, 400),
            Check(Authentic(r, r.id), 401),
            Check(created, 503),
            Check(r.id \in Stored, 404)>>, 200)

ServerlessConfig(r) ==
  Outcome(<<Check(r.method, 405),
            Check(r.parses, 400),
            Check(r.auth # NoAuth, 401),
            Check(Authentic(r, r.id), 401),
            Check(created, 503),
            Check(r.id = WorkerId, 400),
            Check(UpdateIsLegal(r), 500)>>, 200)

\* There is no api/drain.ts.
Serverless(r) ==
  CASE r.endpoint = "submit" -> ServerlessSubmit(r)
    [] r.endpoint = "status" -> ServerlessStatus(r)
    [] r.endpoint = "replay" -> ServerlessReplay(r)
    [] r.endpoint = "config" -> ServerlessConfig(r)
    [] OTHER -> 404

-----------------------------------------------------------------------------
(* src/src/server.ts: the router has looked at the method, and turns an    *)
(* exception into 500.                                                     *)

StandaloneSubmit(r) ==
  Outcome(<<Check(r.parses, 400),
            Check(Authentic(r, r.id), 401),
            Check(accepting, 503),
            Check(HasSlot, 503)>>, 200)

StandaloneReplay(r) ==
  Outcome(<<Check(r.parses, 400),
            Check(Authentic(r, r.id), 401),
            Check(r.id \in Stored, 404)>>, 200)

\* Mutant: the worker id is compared before the envelope is validated.
StandaloneConfigUnlessLocal(r) ==
  Outcome(<<Check(r.parses, 400),
            Check(r.local \/ r.auth # NoAuth, 401),
            Check(r.id = WorkerId, 400),
            Check(r.local \/ Authentic(r, r.id), 401),
            Check(UpdateIsLegal(r), 500)>>, 200)

StandaloneConfig(r) ==
  Outcome(<<Check(r.parses, 400),
            Check(r.local \/ r.auth # NoAuth, 401),
            Check(r.local \/ Authentic(r, r.id), 401),
            Check(r.id = WorkerId, 400),
            Check(UpdateIsLegal(r), 500)>>, 200)

\* A body that does not parse is taken for none; the envelope in it has to be
\* signed for this worker.
StandaloneDrain(r) ==
  Outcome(<<Check(r.local \/ (r.parses /\ r.auth # NoAuth), 401),
            Check(r.local \/ Authentic(r, WorkerId), 401)>>, 200)

Standalone(r) ==
  CASE ~r.method -> 405
    [] r.method /\ r.endpoint = "submit" -> StandaloneSubmit(r)
    [] r.method /\ r.endpoint = "replay" -> StandaloneReplay(r)
    [] r.method /\ r.endpoint = "config" -> StandaloneConfig(r)
    [] r.method /\ r.endpoint = "drain" -> StandaloneDrain(r)
    [] OTHER -> 200

\* What the body of a status answer tells; each entry point builds its own.
StatusFields ==
  {"workerId", "state", "protocolVersion", "maxConcurrency", "availableSlots",
   "ts"}
    \union IF env.serverless THEN {"inflightTasks"} ELSE {"inflight", "uptimeMs"}

Answer(r) == IF env.serverless THEN Serverless(r) ELSE Standalone(r)

-----------------------------------------------------------------------------

NoReply == [code |-> 0, body |-> "none"]
Says(code, body) == reply' = [code |-> code, body |-> body]

Init ==
  /\ StoreInit
  /\ env \in Deployments
  /\ env.serverless \/ CanCreate   \* server.ts does not start otherwise
  /\ created = ~env.serverless
  /\ accepting = TRUE
  /\ limit = ConfiguredLimit
  /\ settings = {}
  /\ pending = {}
  /\ reply = NoReply

Refuse(r) ==
  /\ Answer(r) >= 400
  /\ Says(Answer(r), "refusal")
  /\ UNCHANGED <<storeVars, env, instance, pending>>

\* The stream is open; executeTaskWithEvents throws before it takes a slot.
SubmitErrs(r) ==
  /\ ~r.payload \/ r.id \in Inflight
  /\ Says(200, "error")
  /\ UNCHANGED storeVars

SubmitRuns(r) ==
  /\ r.payload
  /\ Begin(r.id)
  /\ Says(200, "run")

Submit(r) ==
  /\ r.endpoint = "submit"
  /\ \/ Refuse(r)
     \/ /\ Answer(r) = 200
        /\ created' = TRUE
        /\ SubmitErrs(r) \/ SubmitRuns(r)
        /\ UNCHANGED <<env, accepting, limit, settings, pending>>

Status(r) ==
  /\ r.endpoint = "status"
  /\ \/ Refuse(r)
     \/ /\ Answer(r) = 200
        /\ created' = TRUE
        /\ reply' = [code |-> 200, body |-> "status", fields |-> StatusFields]
        /\ UNCHANGED <<storeVars, env, accepting, limit, settings, pending>>

Config(r) ==
  /\ r.endpoint = "config"
  /\ \/ Refuse(r)
     \/ /\ Answer(r) = 200
        /\ limit' = IF r.max = NoLimit THEN limit ELSE r.max
        /\ settings' = settings \union r.sets
        /\ Says(200, "updated")
        /\ UNCHANGED <<storeVars, env, created, accepting, pending>>

Drain(r) ==
  /\ r.endpoint = "drain"
  /\ \/ Refuse(r)
     \/ /\ Answer(r) = 200
        /\ Says(200, "draining")
        /\ UNCHANGED <<storeVars, env, instance, pending>>

\* canReplay has found the task.
Replay(r) ==
  /\ r.endpoint = "replay"
  /\ \/ Refuse(r)
     \/ /\ Answer(r) = 200
        /\ pending = {}
        /\ pending' = {r}
        /\ Says(200, "admitted")
        /\ UNCHANGED <<storeVars, env, instance>>

\* replayWithValidation, on what the store has by now.
AnswerReplay(r) ==
  /\ r \in pending
  /\ pending' = pending \ {r}
  /\ reply' = [code |-> 200, body |-> "replayed", id |-> r.id,
               expected |-> r.expected, events |-> log[r.id],
               match |-> HashMatch(r.id, r.expected)]
  /\ UNCHANGED <<storeVars, env, instance>>

Handle(r) ==
  Submit(r) \/ Status(r) \/ Config(r) \/ Drain(r) \/ Replay(r)
    \/ AnswerReplay(r)

\* A run goes on or ends; only the standalone server's emit throws.
RunStep(t) ==
  /\ \/ FirstToken(t)
     \/ \E h \in Hash : Complete(t, h)
     \/ Fail(t)
     \/ ~env.serverless /\ Lose(t)
  /\ reply' = NoReply
  /\ UNCHANGED <<env, instance, pending>>

\* The first drain timer to fire; its event is stamped and not recorded.
DrainTimer ==
  /\ DrainTimerIsSet
  /\ Inflight # {}
  /\ accepting
  /\ accepting' = FALSE
  /\ Stamp
  /\ reply' = NoReply
  /\ UNCHANGED <<wall, maxTasks, memory, phase, env, created, limit, settings,
                 pending>>

ClockMoves ==
  /\ \E time \in Times : Tick(time)
  /\ reply' = NoReply
  /\ UNCHANGED <<env, instance, pending>>

\* The platform drops the process, or it crashes, or a drain has ended it.
Restart ==
  /\ Forget
  /\ created' = ~env.serverless
  /\ accepting' = TRUE
  /\ limit' = ConfiguredLimit
  /\ settings' = {}
  /\ pending' = {}
  /\ reply' = NoReply
  /\ UNCHANGED env

Next ==
  \/ \E r \in Requests : Handle(r)
  \/ \E t \in Task : RunStep(t)
  \/ DrainTimer
  \/ ClockMoves
  \/ Restart

Spec == Init /\ [][Next]_vars

-----------------------------------------------------------------------------
(* Properties                                                              *)

TypeOK ==
  /\ StoreTypeOK
  /\ env \in Deployments
  /\ {created, accepting} \subseteq BOOLEAN
  /\ limit \in Int
  /\ created => limit >= 2
  /\ settings \subseteq Settings
  /\ pending \subseteq Requests

\* The two deployments accept and refuse the same requests from elsewhere, for
\* the same reason, once there is an instance: api/*.ts and server.ts repeat
\* each other's checks in an order of their own.  It is the status codes that
\* agree; the bodies do not (StatusIsAsDocumented).
StatusCodesAgree ==
  created => \A r \in Requests :
    ~r.local /\ r.endpoint # "drain" => Serverless(r) = Standalone(r)

\* What the whitepaper says GET /api/status answers, in either deployment.
DocumentedStatus ==
  {"workerId", "state", "protocolVersion", "maxConcurrency", "inflightTasks",
   "availableSlots", "ts"}
StatusIsAsDocumented ==
  reply.body = "status" => DocumentedStatus \subseteq reply.fields

\* The verdict of a replay is about the last completed run of the task, also
\* when the task was run again, or is running, or has lost events since it
\* was admitted (replayer.ts:46-85).
ReplayJudgesLatestRun ==
  [][reply'.body = "replayed" =>
       LET latest == LastHash(told[reply'.id])
       IN  /\ reply'.match = "true" => reply'.expected = latest
           /\ reply'.match = "false" => reply'.expected # latest
           /\ reply'.match = "null" /\ reply'.expected # NoHash /\ maxTasks = 0
                => latest = NoHash]_vars

OldestGoesFirst == [][EvictsOldest]_vars

=============================================================================
