----------------------------- MODULE MCWorkerApi -----------------------------
(***************************************************************************)
(* An instance of WorkerApi for TLC.  Three task ids, "" among them, so    *)
(* that a store of two evicts; a clock that is set from 0 to 2 and back,   *)
(* with a skew of one, so that an envelope can be early, valid and         *)
(* expired; requests that fail each check of their handler, or two.        *)
(***************************************************************************)
EXTENDS WorkerApi, TLC

CONSTANTS e, t1, t2, h1, h2, worker

MCTask == {e, t1, t2}
MCHash == {h1, h2}

Issued(id, issued) ==
  [longEnough |-> TRUE, issued |-> issued, ttl |-> 1,
   signature |-> <<id, issued, 1>>]
Envelope(id) == Issued(id, 1)
Short == [longEnough |-> FALSE, issued |-> 1, ttl |-> 1, signature |-> <<>>]

Request(endpoint, id, auth) ==
  [endpoint |-> endpoint, id |-> id, auth |-> auth, method |-> TRUE,
   parses |-> TRUE, local |-> FALSE, payload |-> TRUE, expected |-> NoHash,
   max |-> NoLimit, sets |-> {}]

Submits == {Request("submit", t, Envelope(t)) : t \in MCTask}
Replays ==
  {[Request("replay", t1, Envelope(t1)) EXCEPT !.expected = h1]}
Update == Request("config", worker, Envelope(worker))
LocalUpdate == [Request("config", worker, NoAuth) EXCEPT !.local = TRUE]

MCRequests ==
  Submits \union Replays \union
  {Request("status", worker, NoAuth),
   [Request("status", worker, NoAuth) EXCEPT !.method = FALSE],
   [Request("submit", t1, Envelope(t1)) EXCEPT !.payload = FALSE],
   [Request("submit", t1, Envelope(t1)) EXCEPT !.parses = FALSE],
   Request("submit", t2, Envelope(t1)),
   Request("replay", t1, Issued(t1, 0)),
   Request("replay", t1, Issued(t1, 2)),
   [Update EXCEPT !.max = 1, !.sets = {"cap"}],
   [Update EXCEPT !.max = 3],
   [LocalUpdate EXCEPT !.max = 3, !.sets = {"cap"}],
   [LocalUpdate EXCEPT !.local = FALSE],
   Request("config", t1, Short),
   Request("config", t1, Envelope(worker)),
   [Request("drain", worker, NoAuth) EXCEPT !.local = TRUE],
   Request("drain", worker, Envelope(t1))}

Plain ==
  [serverless |-> TRUE, vercel |-> TRUE, secret |-> TRUE,
   maxConcurrency |-> NotSet, functionTimeout |-> NotSet,
   drainBuffer |-> NotSet, skipAuth |-> NotSet]

MCDeployments ==
  {Plain,
   [Plain EXCEPT !.serverless = FALSE, !.vercel = FALSE,
                 !.maxConcurrency = 4],
   [Plain EXCEPT !.serverless = FALSE, !.secret = FALSE,
                 !.drainBuffer = 60000],
   [Plain EXCEPT !.maxConcurrency = 0, !.skipAuth = "true"]}

(***************************************************************************)
(* Timestamps are only compared with one another and with the clock: the   *)
(* view keeps their order, and of the last one whether the system clock    *)
(* can still be ahead of it.                                               *)
(***************************************************************************)
Rank(event) ==
  [event EXCEPT !.ts = Cardinality({x \in Recorded : told[x[1]][x[2]].ts < @})]
Ranked(events) == [i \in DOMAIN events |-> Rank(events[i])]
View ==
  <<wall, IF last < 2 THEN last ELSE 2, maxTasks, keys, phase,
    [t \in Task |-> <<Ranked(log[t]), Ranked(told[t])>>],
    env, instance, pending>>
=============================================================================
