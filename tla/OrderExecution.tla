---------------------------- MODULE OrderExecution ----------------------------
(***************************************************************************)
(* How the executor (src/executor/executor.ts) carries out one inference   *)
(* order (src/inference/order.ts): which of its paths it takes, what it    *)
(* collects from the L0 runtime, what it reports and returns or throws,    *)
(* and how the worker classifies the error.                                *)
(*                                                                         *)
(* The runtime and the providers are external.  The runtime calls the      *)
(* stream factories it was given: the primary one and its retries, then    *)
(* the fallbacks', one call at a time; in a race or a fanout one operation *)
(* per model.  It delivers tokens while they arrive, so those of a call    *)
(* that breaks have been delivered by then.  A token is the number of its  *)
(* call: what it says does not matter, whose it is does.                   *)
(***************************************************************************)
EXTENDS Naturals, Sequences, FiniteSets

CONSTANTS
  Orders,     \* the orders and payloads of one run, as far as they matter
  MaxCalls,   \* bound: stream factories called for one order
  MaxTokens,  \* bound: tokens of one call
  Supported,  \* models of a provider in the registry
  Causes      \* what may be wrong: sets of words in an error's message

Words ==
  {"abort", "timeout", "rate limit", "context length", "network", "model",
   "invalid"}

Forms == {"object", "json", "prose"}

ASSUME OrderAssumption ==
  /\ MaxCalls \in Nat /\ MaxTokens \in Nat
  /\ Causes \subseteq SUBSET Words
  /\ \A o \in Orders :
       /\ Len(o.models) \in Nat \ {0}             \* ExecutionSpecSchema
       /\ DOMAIN o.models = 1..Len(o.models)
       /\ o.parallel \in {"none", "race", "fanout"}
       /\ o.output \in {"text", "tokens", "json"}

VARIABLES
  order,    \* what is executed
  stage,    \* "start", "running", "returned" or "thrown"
  calls,    \* the streams built so far, or the operations of a race or fanout
  object,   \* streamObjectResult: the call whose object is awaited, or 0
  content,  \* the tokens collected by the loop over result.stream
  tokenCount,
  firsts,   \* how often onFirstToken was called
  aborted,  \* the drain timer has fired the AbortSignal
  result    \* what was returned, or the failure class of what was thrown

vars == <<order, stage, calls, object, content, tokenCount, firsts, aborted,
          result>>

States == {"waiting", "open", "ended", "broken"}
Classes ==
  {"aborted", "timeout", "rate_limited", "context_length_exceeded",
   "network_error", "model_error", "invalid_input", "unknown"}

-----------------------------------------------------------------------------
(* The order                                                               *)

\* executeOrder: parallel comes before the kind of output.
Path ==
  CASE order.parallel # "none" -> order.parallel
    [] order.parallel = "none" /\ order.output = "json" -> "json"
    [] OTHER -> "text"

Sequential == Path \in {"text", "json"}

\* The streams l0() may call for: the primary model's, then the fallbacks'.
Chain == <<order.models[1]>> \o order.fallbacks

\* max of a fanout; without it, and in a race, everything runs at once.
Concurrency ==
  IF Path = "fanout" /\ order.max > 0 THEN order.max ELSE Len(order.models)

-----------------------------------------------------------------------------
(* Errors: classifyError and isRetryable of worker-instance.ts             *)

\* The tests of classifyError, in its order.
Tests ==
  <<[word |-> "abort", class |-> "aborted"],
    [word |-> "timeout", class |-> "timeout"],
    [word |-> "rate limit", class |-> "rate_limited"],
    [word |-> "context length", class |-> "context_length_exceeded"],
    [word |-> "network", class |-> "network_error"],
    [word |-> "model", class |-> "model_error"],
    [word |-> "invalid", class |-> "invalid_input"]>>

ClassifyError(words) ==
  LET hits == {i \in DOMAIN Tests : Tests[i].word \in words}
  IN  IF hits = {} THEN "unknown"
      ELSE Tests[CHOOSE i \in hits : \A j \in hits : i <= j].class

IsRetryable(class) == class \in {"timeout", "rate_limited", "network_error"}

Failure(class) == [class |-> class, retryable |-> IsRetryable(class)]

-----------------------------------------------------------------------------
(* The runtime's streams                                                   *)

Over(i) == calls[i].state \in {"ended", "broken"}
AllOver == \A i \in DOMAIN calls : Over(i)
Ended == {i \in DOMAIN calls : calls[i].state = "ended"}
Open == {i \in DOMAIN calls : calls[i].state = "open"}

\* A factory is called; getModel throws for a provider not in the registry.
Called(at, model) ==
  [at |-> at, tokens |-> 0, form |-> "prose",
   state |-> IF model \in Supported THEN "open" ELSE "broken"]

\* Where in the chain the next call may be: another try, or the next model.
NextPlaces ==
  IF calls = <<>> THEN {1}
  ELSE {calls[Len(calls)].at, calls[Len(calls)].at + 1} \intersect DOMAIN Chain

\* Mutant: every stream reports a first token of its own.
CollectPerCall(i) ==
  /\ content' = Append(content, i)
  /\ tokenCount' = tokenCount + 1
  /\ firsts' = IF calls[i].tokens = 0 THEN firsts + 1 ELSE firsts

\* onFirstToken is called by the first token of all calls together.
Collect(i) ==
  /\ content' = Append(content, i)
  /\ tokenCount' = tokenCount + 1
  /\ firsts' = IF content = <<>> THEN firsts + 1 ELSE firsts

Init ==
  /\ order \in Orders
  /\ stage = "start"
  /\ calls = <<>>
  /\ object = 0
  /\ content = <<>>
  /\ tokenCount = 0
  /\ firsts = 0
  /\ aborted = FALSE
  /\ result = Failure("unknown")

\* executeOrder up to its first await; a race and a fanout set up an operation
\* per model.
Start ==
  /\ stage = "start"
  /\ stage' = "running"
  /\ calls' = IF Sequential THEN <<>>
              ELSE [i \in DOMAIN order.models |->
                      [Called(i, order.models[i]) EXCEPT !.state = "waiting"]]
  /\ UNCHANGED <<order, object, content, tokenCount, firsts, aborted, result>>

\* Mutant: the loop starts afresh with every stream, the count does not.
BuildStreamAfresh ==
  /\ stage = "running"
  /\ Sequential
  /\ ~aborted
  /\ Len(calls) < MaxCalls
  /\ calls # <<>> => calls[Len(calls)].state = "broken"
  /\ \E at \in NextPlaces :
       /\ calls' = Append(calls, Called(at, Chain[at]))
       /\ object' = IF Path = "json" /\ Chain[at] \in Supported
                    THEN Len(calls) + 1 ELSE object
  /\ content' = <<>>
  /\ UNCHANGED <<order, stage, tokenCount, firsts, aborted, result>>

\* Mutant: only the primary model's factory keeps the stream it built.
BuildStreamOfPrimary ==
  /\ stage = "running"
  /\ Sequential
  /\ ~aborted
  /\ Len(calls) < MaxCalls
  /\ calls # <<>> => calls[Len(calls)].state = "broken"
  /\ \E at \in NextPlaces :
       /\ calls' = Append(calls, Called(at, Chain[at]))
       /\ object' = IF Path = "json" /\ Chain[at] \in Supported /\ at = 1
                    THEN Len(calls) + 1 ELSE object
  /\ UNCHANGED <<order, stage, content, tokenCount, firsts, aborted, result>>

\* l0() calls a factory: the first one, or after a call that broke.  Every
\* factory of a structured order leaves the stream it built in
\* streamObjectResult, unless getModel throws.
BuildStream ==
  /\ stage = "running"
  /\ Sequential
  /\ ~aborted
  /\ Len(calls) < MaxCalls
  /\ calls # <<>> => calls[Len(calls)].state = "broken"
  /\ \E at \in NextPlaces :
       /\ calls' = Append(calls, Called(at, Chain[at]))
       /\ object' = IF Path = "json" /\ Chain[at] \in Supported
                    THEN Len(calls) + 1 ELSE object
  /\ UNCHANGED <<order, stage, content, tokenCount, firsts, aborted, result>>

\* race() and parallel() start an operation.
StartOperation(i) ==
  /\ stage = "running"
  /\ ~Sequential
  /\ ~aborted
  /\ calls[i].state = "waiting"
  /\ Cardinality(Open) < Concurrency
  /\ calls' = [calls EXCEPT ![i] = Called(i, order.models[i])]
  /\ UNCHANGED <<order, stage, object, content, tokenCount, firsts, aborted,
                 result>>

\* Mutant: the first token of a race or a fanout is reported as it comes.
TokenCollectedAlways(i) ==
  /\ stage = "running"
  /\ calls[i].state = "open"
  /\ calls[i].tokens < MaxTokens
  /\ calls' = [calls EXCEPT ![i].tokens = @ + 1]
  /\ Collect(i)
  /\ UNCHANGED <<order, stage, object, aborted, result>>

\* A token; the loops over result.stream collect it, race() and parallel()
\* keep it in the operation's state.
Token(i) ==
  /\ stage = "running"
  /\ calls[i].state = "open"
  /\ calls[i].tokens < MaxTokens
  /\ calls' = [calls EXCEPT ![i].tokens = @ + 1]
  /\ IF Sequential THEN Collect(i)
     ELSE UNCHANGED <<content, tokenCount, firsts>>
  /\ UNCHANGED <<order, stage, object, aborted, result>>

\* A stream ends.  Its object resolves, or does not although the text is
\* JSON, or the text is not.  The other operations of a race are cancelled.
StreamEnds(i, form) ==
  /\ stage = "running"
  /\ calls[i].state = "open"
  /\ calls[i].tokens = 0 => form = "prose"
  /\ calls' = [j \in DOMAIN calls |->
                 CASE j = i -> [calls[j] EXCEPT !.state = "ended", !.form = form]
                   [] j # i /\ Path = "race" ->
                        [calls[j] EXCEPT !.state = "broken"]
                   [] OTHER -> calls[j]]
  /\ UNCHANGED <<order, stage, object, content, tokenCount, firsts, aborted,
                 result>>

\* An error, a timeout, a guardrail; also of a stream that was complete.
StreamBreaks(i) ==
  /\ stage = "running"
  /\ calls[i].state = "open"
  /\ calls' = [calls EXCEPT ![i].state = "broken"]
  /\ UNCHANGED <<order, stage, object, content, tokenCount, firsts, aborted,
                 result>>

\* The drain timer's abort reaches every stream, and those not started yet.
Abort ==
  /\ stage = "running"
  /\ ~aborted
  /\ aborted' = TRUE
  /\ calls' = [i \in DOMAIN calls |->
                 IF Over(i) THEN calls[i]
                 ELSE [calls[i] EXCEPT !.state = "broken"]]
  /\ UNCHANGED <<order, stage, object, content, tokenCount, firsts, result>>

-----------------------------------------------------------------------------
(* What executeOrder returns or throws                                     *)

Returns(output) ==
  /\ stage' = "returned"
  /\ result' = [output |-> output]
  /\ UNCHANGED <<order, calls, object, content, tokenCount, aborted>>

Throws(class) ==
  /\ stage' = "thrown"
  /\ result' = Failure(class)
  /\ UNCHANGED <<order, calls, object, content, tokenCount, firsts, aborted>>

Accepted == calls # <<>> /\ calls[Len(calls)].state = "ended"

ReturnText ==
  /\ stage = "running"
  /\ Path = "text"
  /\ Accepted
  /\ Returns(content)
  /\ UNCHANGED firsts

\* JSON.parse reads all that was collected.  The text of one stream that ended
\* parses if it is JSON; what several have said, or one that broke, may make
\* JSON together (a stream resumed after half an array) or not; nothing is not.
OnlyOf(i) == content # <<>> /\ \A n \in DOMAIN content : content[n] = i
MayParse ==
  content # <<>> /\ \A i \in Ended : OnlyOf(i) => calls[i].form # "prose"
MayNotParse == \A i \in Ended : OnlyOf(i) => calls[i].form = "prose"

Collected == {content[n] : n \in DOMAIN content}

ObjectResolves == calls[object].form = "object"

\* The awaited object, else the parsed text, else OutputValidationError.  Of
\* the JSON it matters which streams it comes from.
ReturnJson ==
  /\ stage = "running"
  /\ Path = "json"
  /\ Accepted
  /\ \/ ObjectResolves /\ Returns({object}) /\ UNCHANGED firsts
     \/ ~ObjectResolves /\ MayParse /\ Returns(Collected) /\ UNCHANGED firsts
     \/ ~ObjectResolves /\ MayNotParse /\ Throws("invalid_input")

Copies(i) == [n \in 1..calls[i].tokens |-> i]

\* The winner's content as it is, and the first token now that all have come.
ReturnRace ==
  /\ stage = "running"
  /\ Path = "race"
  /\ \E i \in Ended :
       /\ Returns(Copies(i))
       /\ firsts' = IF calls[i].tokens > 0 THEN firsts + 1 ELSE firsts

\* "" where an operation has no result.
FanoutOutputs ==
  [i \in DOMAIN calls |-> IF i \in Ended THEN Copies(i) ELSE <<>>]

\* failFast is off: whatever became of the operations, this is a result.
ReturnFanout ==
  /\ stage = "running"
  /\ Path = "fanout"
  /\ AllOver
  /\ Returns(FanoutOutputs)
  /\ UNCHANGED firsts

\* The runtime gives up: no operation of a race is left, or the last call of
\* the chain broke and there is no other try.
GiveUp ==
  /\ stage = "running"
  /\ Path # "fanout"
  /\ AllOver
  /\ Ended = {}
  /\ calls # <<>> \/ aborted
  /\ \E words \in Causes :
       Throws(ClassifyError(IF aborted THEN words \union {"abort"} ELSE words))

Next ==
  \/ Start
  \/ BuildStream
  \/ \E i \in DOMAIN calls :
       \/ StartOperation(i)
       \/ Token(i)
       \/ \E form \in Forms : StreamEnds(i, form)
       \/ StreamBreaks(i)
  \/ Abort
  \/ ReturnText
  \/ ReturnJson
  \/ ReturnRace
  \/ ReturnFanout
  \/ GiveUp

Spec == Init /\ [][Next]_vars

-----------------------------------------------------------------------------
(* Properties                                                              *)

TypeOK ==
  /\ order \in Orders
  /\ stage \in {"start", "running", "returned", "thrown"}
  /\ calls \in Seq([at : Nat, tokens : 0..MaxTokens, form : Forms,
                    state : States])
  /\ object \in 0..Len(calls)
  /\ content \in Seq(1..Len(calls))
  /\ tokenCount \in Nat
  /\ firsts \in 0..1
  /\ aborted \in BOOLEAN
  /\ stage = "thrown" => result \in [class : Classes, retryable : BOOLEAN]

\* Nothing the runtime delivered is lost, doubled or out of order, over
\* retries and fallbacks: the output and its token count are the tokens of all
\* calls, those of calls that broke included, one call after the other.
CollectedIsDelivered ==
  Sequential =>
    /\ tokenCount = Len(content)
    /\ \A i \in DOMAIN calls :
         calls[i].tokens = Cardinality({n \in DOMAIN content : content[n] = i})
    /\ \A m, n \in DOMAIN content : m <= n => content[m] <= content[n]
    /\ firsts = 0 <=> content = <<>>

\* Text of a stream that was retried comes into the JSON only when the last
\* stream, the one the runtime was content with, has no object of its own; and
\* a stream that has one, or that was the only one to say anything and parses,
\* is never refused.
JsonPrefersLastStream ==
  order.parallel = "none" /\ order.output = "json" =>
    /\ stage = "returned" /\ result.output # {Len(calls)} =>
         /\ calls[Len(calls)].form # "object"
         /\ \E i \in 1..(Len(calls) - 1) : calls[i].tokens > 0
    /\ stage = "thrown" /\ Accepted =>
         /\ calls[Len(calls)].form # "object"
         /\ calls[Len(calls)].form = "json" =>
              \E i \in 1..(Len(calls) - 1) : calls[i].tokens > 0

\* What the whitepaper says of structured output: a retry starts from scratch
\* and nothing is prepended to it, so no JSON is made of the text of two streams.
\* The loop over result.stream keeps what a stream that broke has said, and
\* JSON.parse reads it all.
JsonIsOfOneStream ==
  order.parallel = "none" /\ order.output = "json" /\ stage = "returned" =>
    Cardinality(result.output) = 1

\* The worker instance sees no more of all this than RunView says.
View == INSTANCE RunView WITH
  kind <- IF Sequential THEN "stream" ELSE Path,
  first <- firsts > 0,
  status <- CASE stage = "returned" -> "completed"
              [] stage = "thrown" -> "failed"
              [] OTHER -> "running"

RunViewSpec == View!Spec

=============================================================================
