------------------------- MODULE OrderExecution_proofs -------------------------
(***************************************************************************)
(* What the executor makes of an order is what the runtime delivered, for  *)
(* any orders, numbers of calls and of tokens, providers and errors; and   *)
(* it is no more than a worker instance may rely on (RunView).             *)
(*                                                                         *)
(* Calling is what strengthens the properties: in a sequential order every *)
(* call but the last is over and broken, an answer has a form only at its  *)
(* end, and the object awaited is the last call's unless that one broke.   *)
(***************************************************************************)
EXTENDS OrderExecution, TLAPS, SequenceTheorems, FiniteSetTheorems,
        NaturalsInduction

Call == [at : Nat, tokens : 0..MaxTokens, form : Forms, state : States]

Calling ==
  /\ stage = "start" => calls = <<>> /\ content = <<>> /\ firsts = 0
  /\ \A i \in DOMAIN calls :
       /\ calls[i].form # "prose" => calls[i].tokens > 0
       /\ Sequential => calls[i].state # "waiting"
       /\ Sequential /\ i # Len(calls) => calls[i].state = "broken"
       /\ Path = "json" /\ i = Len(calls) /\ calls[i].state # "broken"
            => object = Len(calls)
  /\ ~Sequential => /\ content = <<>>
                    /\ stage = "running" => firsts = 0
                    /\ stage # "start" => DOMAIN calls = DOMAIN order.models

OrderInv ==
  /\ TypeOK
  /\ Calling
  /\ CollectedIsDelivered
  /\ JsonPrefersLastStream

-----------------------------------------------------------------------------
(* Sequences and orders                                                    *)

LEMMA FunctionIsSeq ==
  ASSUME NEW S, NEW n \in Nat, NEW f \in [1..n -> S]
  PROVE  f \in Seq(S) /\ Len(f) = n /\ DOMAIN f = 1..n
<1>1. f \in Seq(S)
  BY SeqDef
<1>2. DOMAIN f = 1..n
  OBVIOUS
<1> QED
  BY <1>1, <1>2

\* A set of natural numbers has a least element.
LEMMA LeastOf ==
  ASSUME NEW T \in SUBSET Nat, T # {}
  PROVE  \E x \in T : \A y \in T : x <= y
<1>1. IsWellFoundedOn(OpToRel(<, Nat), Nat)
  BY NatLessThanWellFounded
<1>2. PICK x \in T : \A y \in T : ~ (<<y, x>> \in OpToRel(<, Nat))
  BY <1>1, WFMin
<1>3. \A y \in T : ~ (y < x)
  BY <1>2 DEF OpToRel
<1> QED
  BY <1>3

LEMMA Paths ==
  ASSUME order \in Orders
  PROVE  /\ Path \in {"race", "fanout", "json", "text"}
         /\ Sequential <=> order.parallel = "none"
         /\ Path = "race" <=> order.parallel = "race"
         /\ Path = "fanout" <=> order.parallel = "fanout"
         /\ Path = "json" <=> order.parallel = "none" /\ order.output = "json"
BY OrderAssumption DEF Path, Sequential

\* An order does not change, nor does what follows from it.
LEMMA SameOrder ==
  ASSUME order' = order
  PROVE  Path' = Path /\ Sequential' = Sequential
BY DEF Path, Sequential

LEMMA CallsAreCalls ==
  ASSUME TypeOK
  PROVE  /\ calls \in Seq(Call) /\ Len(calls) \in Nat
         /\ DOMAIN calls = 1..Len(calls)
         /\ \A i \in DOMAIN calls : calls[i] \in Call
BY LenProperties, ElementOfSeq DEF TypeOK, Call

LEMMA Classified ==
  ASSUME NEW words
  PROVE  Failure(ClassifyError(words)) \in [class : Classes, retryable : BOOLEAN]
<1> DEFINE hits == {i \in DOMAIN Tests : Tests[i].word \in words}
<1>1. DOMAIN Tests = 1..7 /\ \A i \in DOMAIN Tests : Tests[i].class \in Classes
  <2>1. DOMAIN Tests = 1..7
    BY DEF Tests
  <2>2. \A i \in DOMAIN Tests : i \in {1, 2, 3, 4, 5, 6, 7}
    BY <2>1
  <2>3. /\ Tests[1].class = "aborted" /\ Tests[2].class = "timeout"
        /\ Tests[3].class = "rate_limited" /\ Tests[4].class = "context_length_exceeded"
        /\ Tests[5].class = "network_error" /\ Tests[6].class = "model_error"
        /\ Tests[7].class = "invalid_input"
    BY DEF Tests
  <2> QED
    BY <2>1, <2>2, <2>3 DEF Classes
<1>2. ClassifyError(words) \in Classes
  <2>1. CASE hits = {}
    BY <2>1 DEF ClassifyError, Classes
  <2>2. CASE hits # {}
    <3>1. hits \in SUBSET Nat
      BY <1>1
    <3>2. PICK m \in hits : \A j \in hits : m <= j
      <4> HIDE DEF hits
      <4> QED
        BY <2>2, <3>1, LeastOf
    <3>3. (CHOOSE i \in hits : \A j \in hits : i <= j) \in hits
      BY <3>2
    <3> QED
      BY <1>1, <2>2, <3>3 DEF ClassifyError
  <2> QED
    BY <2>1, <2>2
<1> QED
  BY <1>2 DEF Failure, IsRetryable

-----------------------------------------------------------------------------
(* The initial states                                                      *)

LEMMA InitOrder ==
  ASSUME Init
  PROVE  OrderInv
<1> USE DEF Init
<1>1. TypeOK
  <2>1. order \in Orders /\ stage \in {"start", "running", "returned", "thrown"}
    OBVIOUS
  <2>2. calls = <<>> /\ content = <<>>
    OBVIOUS
  <2>3. /\ calls \in Seq([at : Nat, tokens : 0..MaxTokens, form : Forms,
                          state : States])
        /\ content \in Seq(1..Len(calls)) /\ Len(calls) = 0
    BY <2>2, EmptySeq
  <2>4. object \in 0..Len(calls) /\ tokenCount \in Nat /\ firsts \in 0..1
    BY <2>3
  <2>5. aborted \in BOOLEAN /\ stage # "thrown"
    OBVIOUS
  <2> QED
    BY <2>1, <2>3, <2>4, <2>5 DEF TypeOK
<1>2. Calling
  BY DEF Calling
<1>3. CollectedIsDelivered
  BY DEF CollectedIsDelivered
<1>4. JsonPrefersLastStream
  BY DEF JsonPrefersLastStream
<1> QED
  BY <1>1, <1>2, <1>3, <1>4 DEF OrderInv

-----------------------------------------------------------------------------
(* Steps                                                                   *)

LEMMA StutterOrder ==
  ASSUME OrderInv, UNCHANGED vars
  PROVE  OrderInv'
<1>1. Path' = Path /\ Sequential' = Sequential
  BY SameOrder DEF vars
<1>2. TypeOK'
  BY DEF OrderInv, TypeOK, vars
<1>3. Calling'
  BY <1>1 DEF OrderInv, Calling, vars
<1>4. CollectedIsDelivered'
  BY <1>1 DEF OrderInv, CollectedIsDelivered, vars
<1>5. JsonPrefersLastStream'
  BY DEF OrderInv, JsonPrefersLastStream, Accepted, vars
<1> QED
  BY <1>2, <1>3, <1>4, <1>5 DEF OrderInv

\* While an order runs nothing has been returned or thrown.
LEMMA NothingReturned ==
  ASSUME stage' = "running"
  PROVE  JsonPrefersLastStream'
BY DEF JsonPrefersLastStream

\* The calls that are there change, but deliver nothing.
LEMMA CallsMoveOn ==
  ASSUME OrderInv, stage = "running", stage' = "running",
         UNCHANGED <<order, object, content, tokenCount, firsts>>,
         aborted' \in BOOLEAN,
         NEW f \in [DOMAIN calls -> Call], calls' = f,
         Sequential => \A i \in DOMAIN calls : f[i].tokens = calls[i].tokens,
         Calling'
  PROVE  OrderInv'
<1> USE DEF OrderInv
<1>1. /\ Len(calls) \in Nat /\ DOMAIN calls = 1..Len(calls)
  BY CallsAreCalls
<1>2. calls' \in Seq(Call) /\ Len(calls') = Len(calls) /\ DOMAIN calls' = DOMAIN calls
  BY <1>1, FunctionIsSeq
<1>3. TypeOK'
  BY <1>2 DEF TypeOK, Call
<1>4. CollectedIsDelivered'
  BY <1>2, SameOrder DEF CollectedIsDelivered
<1> QED
  BY <1>3, <1>4, NothingReturned

LEMMA StartSound ==
  ASSUME OrderInv, Start
  PROVE  OrderInv'
<1> USE DEF OrderInv, Start
<1>1. calls = <<>> /\ content = <<>> /\ firsts = 0 /\ object = 0
  BY EmptySeq DEF Calling, TypeOK
<1>2. Path' = Path /\ Sequential' = Sequential
  BY SameOrder
<1> DEFINE n == Len(order.models)
<1>3. order \in Orders /\ n \in Nat /\ DOMAIN order.models = 1..n
  BY OrderAssumption DEF TypeOK
<1>4. CASE Sequential
  <2>1. calls' = <<>> /\ content' = <<>>
    BY <1>1, <1>4
  <2>2. Len(calls') = 0 /\ DOMAIN calls' = {} /\ calls' \in Seq(Call)
    BY <2>1, EmptySeq
  <2>3. TypeOK'
    BY <1>1, <2>1, <2>2, EmptySeq DEF TypeOK, Call
  <2>4. Calling'
    BY <1>2, <1>4, <2>2 DEF Calling
  <2>5. CollectedIsDelivered'
    BY <1>2, <2>2 DEF CollectedIsDelivered
  <2> QED
    BY <2>3, <2>4, <2>5, NothingReturned
<1>5. CASE ~Sequential
  <2>1. calls' = [i \in 1..n |-> [at |-> i, tokens |-> 0, form |-> "prose",
                                  state |-> "waiting"]]
    BY <1>3, <1>5 DEF Called
  <2>2. calls' \in [1..n -> Call]
    BY <1>3, <2>1, OrderAssumption DEF Call, Forms, States
  <2>3. calls' \in Seq(Call) /\ Len(calls') = n /\ DOMAIN calls' = 1..n
    BY <1>3, <2>2, FunctionIsSeq
  <2>4. TypeOK'
    BY <1>1, <1>3, <2>3, EmptySeq DEF TypeOK, Call
  <2>5. Calling'
    <3>1. Path # "json"
      BY <1>5 DEF Sequential
    <3>2. order' = order /\ stage' = "running" /\ content' = <<>> /\ firsts' = 0
      BY <1>1
    <3>3. \A i \in DOMAIN calls' : /\ calls'[i].state = "waiting"
                                   /\ calls'[i].form = "prose"
      BY <2>1
    <3> QED
      BY <1>2, <1>3, <1>5, <2>3, <3>1, <3>2, <3>3 DEF Calling
  <2>6. CollectedIsDelivered'
    BY <1>2, <1>5 DEF CollectedIsDelivered
  <2> QED
    BY <2>4, <2>5, <2>6, NothingReturned
<1> QED
  BY <1>4, <1>5

LEMMA BuildStreamSound ==
  ASSUME OrderInv, BuildStream
  PROVE  OrderInv'
<1> USE DEF OrderInv, BuildStream
<1> DEFINE n == Len(calls)
<1>1. /\ calls \in Seq(Call) /\ n \in Nat /\ DOMAIN calls = 1..n
      /\ \A i \in DOMAIN calls : calls[i] \in Call
  BY CallsAreCalls
<1>2. PICK at \in NextPlaces :
        /\ calls' = Append(calls, Called(at, Chain[at]))
        /\ object' = IF Path = "json" /\ Chain[at] \in Supported
                     THEN n + 1 ELSE object
  OBVIOUS
<1> DEFINE c == Called(at, Chain[at])
<1>3. at \in Nat
  <2>1. CASE calls = <<>>
    BY <2>1 DEF NextPlaces
  <2>2. CASE calls # <<>>
    <3>1. n \in DOMAIN calls
      BY <1>1, <2>2, EmptySeq, LenProperties
    <3>2. calls[n].at \in Nat
      BY <1>1, <3>1 DEF Call
    <3> QED
      BY <2>2, <3>2 DEF NextPlaces
  <2> QED
    BY <2>1, <2>2
<1>4. /\ c \in Call /\ c.tokens = 0 /\ c.form = "prose"
      /\ c.state \in {"open", "broken"}
      /\ Chain[at] \notin Supported => c.state = "broken"
  BY <1>3, OrderAssumption DEF Called, Call, Forms, States
<1> HIDE DEF c
<1>5. /\ calls' \in Seq(Call) /\ Len(calls') = n + 1 /\ DOMAIN calls' = 1..(n + 1)
      /\ calls'[n + 1] = c /\ \A i \in 1..n : calls'[i] = calls[i]
  BY <1>1, <1>2, <1>4, AppendProperties DEF c
<1>6. Path' = Path /\ Sequential' = Sequential
  BY SameOrder
<1>7. TypeOK'
  <2>1. content' \in Seq(1..Len(calls'))
    <3>1. content \in Seq(1..n)
      BY DEF TypeOK
    <3>2. content \in [1..Len(content) -> 1..(n + 1)] /\ Len(content) \in Nat
      BY <1>1, <3>1, LenProperties, ElementOfSeq
    <3> QED
      BY <1>5, <3>2, FunctionIsSeq
  <2>2. object' \in 0..Len(calls')
    BY <1>1, <1>2, <1>5 DEF TypeOK
  <2> QED
    BY <1>5, <2>1, <2>2 DEF TypeOK, Call
<1>8. Calling'
  <2>1. \A i \in 1..n : calls[i].state = "broken"
    BY <1>1 DEF Calling
  <2>2. \A i \in DOMAIN calls' :
          /\ calls'[i].form # "prose" => calls'[i].tokens > 0
          /\ calls'[i].state # "waiting"
          /\ i # n + 1 => calls'[i].state = "broken"
    <3> TAKE i \in DOMAIN calls'
    <3>1. CASE i = n + 1
      BY <1>4, <1>5, <3>1
    <3>2. CASE i \in 1..n
      BY <1>1, <1>5, <2>1, <3>2 DEF Calling
    <3> QED
      BY <1>1, <1>5, <3>1, <3>2
  <2>3. Path = "json" /\ calls'[n + 1].state # "broken" => object' = n + 1
    BY <1>2, <1>4, <1>5
  <2> QED
    BY <1>5, <1>6, <2>2, <2>3 DEF Calling
<1>9. CollectedIsDelivered'
  <2>1. content' = content /\ tokenCount' = tokenCount /\ firsts' = firsts
    OBVIOUS
  <2>2. content \in Seq(1..n)
    BY DEF TypeOK
  <2>3. \A m \in DOMAIN content : content[m] \in 1..n
    BY <2>2, ElementOfSeq
  <2>4. {m \in DOMAIN content : content[m] = n + 1} = {}
    BY <1>1, <2>3
  <2>5. \A i \in DOMAIN calls' :
          calls'[i].tokens = Cardinality({m \in DOMAIN content : content[m] = i})
    <3> TAKE i \in DOMAIN calls'
    <3>1. CASE i = n + 1
      BY <1>4, <1>5, <2>4, <3>1, FS_EmptySet
    <3>2. CASE i \in 1..n
      BY <1>1, <1>5, <3>2 DEF CollectedIsDelivered
    <3> QED
      BY <1>1, <1>5, <3>1, <3>2
  <2> QED
    BY <1>6, <2>1, <2>5 DEF CollectedIsDelivered
<1> QED
  BY <1>7, <1>8, <1>9, NothingReturned

LEMMA StartOperationSound ==
  ASSUME OrderInv, NEW k \in DOMAIN calls, StartOperation(k)
  PROVE  OrderInv'
<1> USE DEF OrderInv, StartOperation
<1>1. /\ DOMAIN calls = 1..Len(calls) /\ Len(calls) \in Nat
      /\ \A i \in DOMAIN calls : calls[i] \in Call
  BY CallsAreCalls
<1> DEFINE c == Called(k, order.models[k])
<1>2. /\ c \in Call /\ c.form = "prose" /\ c.state \in {"open", "broken"}
  BY <1>1, OrderAssumption DEF Called, Call, Forms, States
<1> HIDE DEF c
<1>3. calls' = [i \in DOMAIN calls |-> IF i = k THEN c ELSE calls[i]]
  BY <1>1, CallsAreCalls DEF c
<1>4. calls' \in [DOMAIN calls -> Call]
  BY <1>1, <1>2, <1>3
<1>5. Path' = Path /\ Sequential' = Sequential /\ Path # "json"
  BY SameOrder DEF Sequential
<1>6. Calling'
  <2>1. \A i \in DOMAIN calls' :
          calls'[i].form # "prose" => calls'[i].tokens > 0
    BY <1>2, <1>3 DEF Calling
  <2> QED
    BY <1>3, <1>5, <2>1 DEF Calling
<1>7. aborted' \in BOOLEAN
  BY DEF TypeOK
<1> QED
  BY <1>3, <1>4, <1>6, <1>7, CallsMoveOn

\* In a sequential order only the last call is not over.
LEMMA OnlyLastIsOpen ==
  ASSUME OrderInv, Sequential, NEW i \in DOMAIN calls, calls[i].state # "broken"
  PROVE  i = Len(calls)
BY DEF OrderInv, Calling

LEMMA StreamEndsSound ==
  ASSUME OrderInv, NEW k \in DOMAIN calls, NEW form \in Forms,
         StreamEnds(k, form)
  PROVE  OrderInv'
<1> USE DEF OrderInv, StreamEnds
<1>1. /\ DOMAIN calls = 1..Len(calls) /\ Len(calls) \in Nat
      /\ \A i \in DOMAIN calls : calls[i] \in Call
  BY CallsAreCalls
<1> DEFINE c(j) == CASE j = k -> [calls[j] EXCEPT !.state = "ended", !.form = form]
                     [] j # k /\ Path = "race" -> [calls[j] EXCEPT !.state = "broken"]
                     [] OTHER -> calls[j]
<1>2. calls' = [j \in DOMAIN calls |-> c(j)]
  OBVIOUS
<1>3. \A j \in DOMAIN calls : /\ c(j) \in Call /\ c(j).tokens = calls[j].tokens
                              /\ j = k => c(j).state = "ended" /\ c(j).form = form
                              /\ j # k => /\ c(j).form = calls[j].form
                                          /\ c(j).state \in {calls[j].state, "broken"}
                              /\ j # k /\ Path # "race" => c(j) = calls[j]
  BY <1>1 DEF Call, States, Forms
<1> HIDE DEF c
<1>4. calls' \in [DOMAIN calls -> Call]
  BY <1>2, <1>3
<1>5. Path' = Path /\ Sequential' = Sequential /\ (Sequential => Path # "race")
  BY SameOrder DEF Sequential
<1>6. Calling'
  <2>1. form # "prose" => calls[k].tokens > 0
    <3>1. MaxTokens \in Nat
      BY OrderAssumption
    <3>2. calls[k].tokens \in 0..MaxTokens
      BY <1>1 DEF Call
    <3>3. calls[k].tokens = 0 => form = "prose"
      OBVIOUS
    <3> HIDE DEF OrderInv, StreamEnds
    <3> QED
      BY <3>1, <3>2, <3>3
  <2>2. \A i \in DOMAIN calls :
          calls'[i].form # "prose" => calls'[i].tokens > 0
    <3> TAKE i \in DOMAIN calls
    <3>1. CASE i = k
      <4>1. calls'[i] = c(k) /\ c(k).form = form /\ c(k).tokens = calls[k].tokens
        BY <1>2, <1>3, <3>1
      <4> QED
        BY <2>1, <4>1
    <3>2. CASE i # k
      BY <1>2, <1>3, <1>1, <3>2 DEF Calling
    <3> QED
      BY <3>1, <3>2
  <2>3. Sequential => k = Len(calls)
    BY OnlyLastIsOpen
  <2>4. Sequential =>
          \A i \in DOMAIN calls :
            /\ calls'[i].state # "waiting"
            /\ i # Len(calls) => calls'[i].state = "broken"
    BY <1>2, <1>3, <1>5, <2>3 DEF Calling
  <2>5. Path = "json" => object = Len(calls)
    <3>1. Path = "json" => Sequential
      BY DEF Sequential
    <3> QED
      BY <1>1, <2>3, <3>1 DEF Calling
  <2>6. Len(calls') = Len(calls) /\ DOMAIN calls' = DOMAIN calls
    BY <1>1, <1>4, FunctionIsSeq
  <2> QED
    BY <1>5, <2>2, <2>4, <2>5, <2>6 DEF Calling
<1>7. aborted' \in BOOLEAN
  BY DEF TypeOK
<1>8. \A j \in DOMAIN calls : calls'[j].tokens = calls[j].tokens
  BY <1>2, <1>3
<1>9. /\ stage = "running" /\ stage' = "running"
      /\ UNCHANGED <<order, object, content, tokenCount, firsts>>
  OBVIOUS
<1> HIDE DEF OrderInv, StreamEnds
<1> QED
  BY <1>4, <1>6, <1>7, <1>8, <1>9, CallsMoveOn

\* Calls that were not over break.
LEMMA CallsBreak ==
  ASSUME OrderInv, stage = "running", stage' = "running",
         UNCHANGED <<order, object, content, tokenCount, firsts>>,
         aborted' \in BOOLEAN,
         NEW S \in SUBSET DOMAIN calls, \A i \in S : ~Over(i),
         calls' = [i \in DOMAIN calls |->
                     IF i \in S THEN [calls[i] EXCEPT !.state = "broken"]
                     ELSE calls[i]]
  PROVE  OrderInv'
<1> USE DEF OrderInv
<1>1. /\ DOMAIN calls = 1..Len(calls) /\ Len(calls) \in Nat
      /\ \A i \in DOMAIN calls : calls[i] \in Call
  BY CallsAreCalls
<1> DEFINE c(j) == IF j \in S THEN [calls[j] EXCEPT !.state = "broken"]
                   ELSE calls[j]
<1>2. calls' = [j \in DOMAIN calls |-> c(j)]
  OBVIOUS
<1>3. \A j \in DOMAIN calls : /\ c(j) \in Call /\ c(j).tokens = calls[j].tokens
                              /\ c(j).form = calls[j].form
                              /\ j \in S => c(j).state = "broken"
                              /\ j \notin S => c(j) = calls[j]
  BY <1>1 DEF Call, States
<1> HIDE DEF c
<1>4. calls' \in [DOMAIN calls -> Call]
  BY <1>2, <1>3
<1>5. Path' = Path /\ Sequential' = Sequential
  BY SameOrder
<1>6. Calling'
  <2>2. \A i \in DOMAIN calls :
          calls'[i].form # "prose" => calls'[i].tokens > 0
    BY <1>2, <1>3 DEF Calling
  <2>3. Sequential =>
          \A i \in DOMAIN calls :
            /\ calls'[i].state # "waiting"
            /\ i # Len(calls) => calls'[i].state = "broken"
    BY <1>2, <1>3 DEF Calling
  <2>4. Path = "json" =>
          \A i \in DOMAIN calls :
            i = Len(calls) /\ calls'[i].state # "broken" => object = Len(calls)
    BY <1>2, <1>3 DEF Calling
  <2>5. Len(calls') = Len(calls) /\ DOMAIN calls' = DOMAIN calls
    BY <1>1, <1>4, FunctionIsSeq
  <2> QED
    BY <1>5, <2>2, <2>3, <2>4, <2>5 DEF Calling
<1> QED
  BY <1>2, <1>3, <1>4, <1>6, CallsMoveOn

LEMMA StreamBreaksSound ==
  ASSUME OrderInv, NEW k \in DOMAIN calls, StreamBreaks(k)
  PROVE  OrderInv'
<1>1. calls' = [i \in DOMAIN calls |->
                  IF i \in {k} THEN [calls[i] EXCEPT !.state = "broken"]
                  ELSE calls[i]]
  BY CallsAreCalls DEF StreamBreaks, OrderInv
<1>2. \A i \in {k} : ~Over(i)
  BY DEF StreamBreaks, Over
<1>3. aborted' \in BOOLEAN
  BY DEF StreamBreaks, OrderInv, TypeOK
<1> QED
  BY <1>1, <1>2, <1>3, CallsBreak DEF StreamBreaks

LEMMA AbortSound ==
  ASSUME OrderInv, Abort
  PROVE  OrderInv'
<1> DEFINE S == {i \in DOMAIN calls : ~Over(i)}
<1>1. calls' = [i \in DOMAIN calls |->
                  IF i \in S THEN [calls[i] EXCEPT !.state = "broken"]
                  ELSE calls[i]]
  BY DEF Abort
<1> QED
  BY <1>1, CallsBreak DEF Abort

\* A token is the last call's, and comes after all that was collected.
LEMMA TokenCollected ==
  ASSUME OrderInv, NEW k \in DOMAIN calls, Token(k), Sequential,
         DOMAIN calls' = DOMAIN calls,
         \A i \in DOMAIN calls :
           calls'[i].tokens = IF i = k THEN calls[k].tokens + 1
                              ELSE calls[i].tokens
  PROVE  /\ content' \in Seq(1..Len(calls))
         /\ firsts' \in 0..1
         /\ tokenCount' \in Nat
         /\ CollectedIsDelivered'
<1> DEFINE L == Len(content)
           n == Len(calls)
           At(c, i) == {m \in DOMAIN c : c[m] = i}
<1>1. n \in Nat /\ DOMAIN calls = 1..n /\ k = n
  BY CallsAreCalls, OnlyLastIsOpen DEF OrderInv, Token
<1>2. /\ content \in Seq(1..n) /\ L \in Nat /\ DOMAIN content = 1..L
      /\ \A m \in 1..L : content[m] \in 1..n
  <2>1. content \in Seq(1..n)
    BY DEF OrderInv, TypeOK
  <2> QED
    BY <2>1, LenProperties, ElementOfSeq
<1>3. /\ content' = Append(content, k) /\ tokenCount' = tokenCount + 1
      /\ firsts' = IF content = <<>> THEN firsts + 1 ELSE firsts
  BY DEF Token, Collect
<1>4. /\ content' \in Seq(1..n) /\ Len(content') = L + 1
      /\ DOMAIN content' = 1..(L + 1) /\ content'[L + 1] = k
      /\ \A m \in 1..L : content'[m] = content[m]
  <2>1. k \in 1..n
    BY <1>1
  <2> HIDE DEF n
  <2> QED
    BY <1>2, <1>3, <2>1, AppendProperties
<1>5. /\ tokenCount = L
      /\ \A i \in DOMAIN calls : calls[i].tokens = Cardinality(At(content, i))
      /\ firsts = 0 <=> content = <<>>
      /\ firsts \in 0..1 /\ tokenCount \in Nat
  BY DEF OrderInv, CollectedIsDelivered, TypeOK
<1>6. firsts' \in 0..1 /\ firsts' # 0
  BY <1>3, <1>5
<1>7. content' # <<>>
  BY <1>2, <1>4
<1>8. \A i \in DOMAIN calls : calls'[i].tokens = Cardinality(At(content', i))
  <2> TAKE i \in DOMAIN calls
  <2>1. IsFiniteSet(At(content, i)) /\ L + 1 \notin At(content, i)
    <3>1. IsFiniteSet(1..L) /\ At(content, i) \subseteq 1..L
      BY <1>2, FS_Interval
    <3> QED
      BY <1>2, <3>1, FS_Subset
  <2>2. CASE i = k
    <3>1. At(content', k) = At(content, k) \cup {L + 1}
      BY <1>2, <1>4
    <3>2. Cardinality(At(content', k)) = Cardinality(At(content, k)) + 1
      <4> HIDE DEF At
      <4> QED
        BY <2>1, <2>2, <3>1, FS_AddElement
    <3> HIDE DEF At
    <3> QED
      BY <1>5, <2>2, <3>2
  <2>3. CASE i # k
    <3>1. At(content', i) = At(content, i)
      BY <1>2, <1>4, <2>3
    <3> HIDE DEF At
    <3> QED
      BY <1>5, <2>3, <3>1
  <2> QED
    BY <2>2, <2>3
<1>9. \A l, m \in DOMAIN content' : l <= m => content'[l] <= content'[m]
  <2> SUFFICES ASSUME NEW l \in 1..(L + 1), NEW m \in 1..(L + 1), l <= m
               PROVE  content'[l] <= content'[m]
    BY <1>4
  <2>1. CASE m = L + 1
    <3>1. content'[l] \in 1..n
      BY <1>1, <1>2, <1>4, ElementOfSeq
    <3> QED
      BY <1>1, <1>4, <2>1, <3>1
  <2>2. CASE m # L + 1
    <3>1. l \in 1..L /\ m \in 1..L
      BY <1>2, <2>2
    <3>2. content[l] <= content[m]
      BY <1>2, <3>1 DEF OrderInv, CollectedIsDelivered
    <3> QED
      BY <1>4, <3>1, <3>2
  <2> QED
    BY <2>1, <2>2
<1>10. tokenCount' = Len(content') /\ tokenCount' \in Nat
  BY <1>2, <1>3, <1>4, <1>5
<1>11. (firsts' = 0) <=> (content' = <<>>)
  BY <1>6, <1>7
<1> QED
  BY <1>4, <1>6, <1>8, <1>9, <1>10, <1>11 DEF CollectedIsDelivered

LEMMA TokenSound ==
  ASSUME OrderInv, NEW k \in DOMAIN calls, Token(k)
  PROVE  OrderInv'
<1>1. /\ DOMAIN calls = 1..Len(calls) /\ Len(calls) \in Nat
      /\ \A i \in DOMAIN calls : calls[i] \in Call
  BY CallsAreCalls DEF OrderInv
<1>2. /\ stage = "running" /\ stage' = "running"
      /\ UNCHANGED <<order, object, aborted>>
      /\ calls[k].tokens < MaxTokens
      /\ calls' = [calls EXCEPT ![k].tokens = @ + 1]
      /\ calls[k].state = "open"
  BY DEF Token
<1> DEFINE c == [calls[k] EXCEPT !.tokens = @ + 1]
<1>3. /\ c \in Call /\ c.tokens = calls[k].tokens + 1 /\ c.tokens > 0
      /\ c.state = calls[k].state /\ c.form = calls[k].form
  <2>1. calls[k] \in Call /\ MaxTokens \in Nat
    BY <1>1, OrderAssumption
  <2> QED
    BY <1>2, <2>1 DEF Call
<1> HIDE DEF c
<1>4. calls' = [i \in DOMAIN calls |-> IF i = k THEN c ELSE calls[i]]
  BY <1>1, <1>2, CallsAreCalls DEF c, OrderInv
<1>5. calls' \in [DOMAIN calls -> Call]
  BY <1>1, <1>3, <1>4
<1>6. calls' \in Seq(Call) /\ Len(calls') = Len(calls) /\ DOMAIN calls' = DOMAIN calls
  BY <1>1, <1>5, FunctionIsSeq
<1>7. Path' = Path /\ Sequential' = Sequential
  BY <1>2, SameOrder
<1>8. ~Sequential => UNCHANGED <<content, tokenCount, firsts>>
  BY DEF Token
<1>9. Calling'
  <2>1. \A i \in DOMAIN calls :
          /\ calls'[i].form # "prose" => calls'[i].tokens > 0
          /\ calls'[i].state = calls[i].state
    BY <1>3, <1>4 DEF OrderInv, Calling
  <2> QED
    BY <1>2, <1>6, <1>7, <1>8, <2>1 DEF OrderInv, Calling
<1>10. CASE ~Sequential
  <2>1. aborted' \in BOOLEAN
    BY <1>2 DEF OrderInv, TypeOK
  <2> QED
    BY <1>2, <1>5, <1>8, <1>9, <1>10, <2>1, CallsMoveOn
<1>11. CASE Sequential
  <2>1. /\ content' \in Seq(1..Len(calls)) /\ firsts' \in 0..1
        /\ tokenCount' \in Nat /\ CollectedIsDelivered'
    BY <1>3, <1>4, <1>11, TokenCollected
  <2>2. TypeOK'
    BY <1>2, <1>6, <2>1 DEF OrderInv, TypeOK, Call
  <2> QED
    BY <1>2, <1>9, <2>1, <2>2, NothingReturned DEF OrderInv
<1> QED
  BY <1>10, <1>11

-----------------------------------------------------------------------------
(* What is returned or thrown                                              *)

\* An order that ends changes nothing but its outcome.
LEMMA OrderEnds ==
  ASSUME OrderInv, stage = "running", stage' \in {"returned", "thrown"},
         UNCHANGED <<order, calls, object, content, tokenCount, aborted>>,
         firsts' \in 0..1, Sequential => firsts' = firsts,
         stage' = "thrown" => result' \in [class : Classes, retryable : BOOLEAN],
         JsonPrefersLastStream'
  PROVE  OrderInv'
<1>1. Path' = Path /\ Sequential' = Sequential
  BY SameOrder
<1>2. TypeOK'
  BY DEF OrderInv, TypeOK
<1>3. Calling'
  BY <1>1 DEF OrderInv, Calling
<1>4. CollectedIsDelivered'
  BY <1>1 DEF OrderInv, CollectedIsDelivered
<1> QED
  BY <1>2, <1>3, <1>4 DEF OrderInv

\* What one stream said is what was collected of it.
LEMMA SaidIsCollected ==
  ASSUME OrderInv, Sequential, NEW i \in DOMAIN calls
  PROVE  calls[i].tokens > 0 <=> \E m \in DOMAIN content : content[m] = i
<1> DEFINE T == {m \in DOMAIN content : content[m] = i}
<1>1. calls[i].tokens = Cardinality(T)
  BY DEF OrderInv, CollectedIsDelivered
<1>2. IsFiniteSet(T)
  <2>1. Len(content) \in Nat /\ DOMAIN content = 1..Len(content)
    BY LenProperties DEF OrderInv, TypeOK
  <2>2. IsFiniteSet(1..Len(content)) /\ T \subseteq 1..Len(content)
    BY <2>1, FS_Interval
  <2> QED
    BY <2>2, FS_Subset
<1>3. Cardinality(T) \in Nat /\ (Cardinality(T) = 0 <=> T = {})
  <2> HIDE DEF T
  <2> QED
    BY <1>2, FS_EmptySet, FS_CardinalityType
<1> QED
  BY <1>1, <1>3

\* The last call of a sequential order, once it was accepted.
LEMMA LastAccepted ==
  ASSUME OrderInv, Path = "json", Accepted
  PROVE  /\ Sequential /\ Len(calls) \in DOMAIN calls
         /\ object = Len(calls)
         /\ Ended = {Len(calls)}
<1>1. Sequential
  BY DEF Sequential
<1>2. Len(calls) \in Nat /\ DOMAIN calls = 1..Len(calls)
  BY CallsAreCalls DEF OrderInv
<1>3. Len(calls) \in DOMAIN calls
  <2>1. calls # <<>> /\ calls \in Seq(Call)
    BY CallsAreCalls DEF Accepted, OrderInv
  <2> QED
    BY <1>2, <2>1, EmptySeq
<1>4. calls[Len(calls)].state = "ended"
  BY DEF Accepted
<1>5. object = Len(calls)
  BY <1>3, <1>4 DEF OrderInv, Calling
<1>6. \A i \in DOMAIN calls : calls[i].state = "ended" => i = Len(calls)
  BY <1>1, OnlyLastIsOpen
<1> QED
  BY <1>1, <1>3, <1>4, <1>5, <1>6 DEF Ended

LEMMA ReturnTextSound ==
  ASSUME OrderInv, ReturnText
  PROVE  OrderInv'
<1>1. /\ stage = "running" /\ stage' = "returned" /\ Path = "text"
      /\ UNCHANGED <<order, calls, object, content, tokenCount, aborted, firsts>>
  BY DEF ReturnText, Returns
<1>2. order \in Orders /\ firsts \in 0..1
  BY DEF OrderInv, TypeOK
<1>3. order.parallel = "none" /\ order.output # "json"
  <2>1. Sequential
    BY <1>1 DEF Sequential
  <2> QED
    BY <1>1, <1>2, <2>1, Paths
<1>4. JsonPrefersLastStream'
  BY <1>1, <1>3 DEF JsonPrefersLastStream
<1> QED
  BY <1>1, <1>2, <1>4, OrderEnds

LEMMA ReturnJsonSound ==
  ASSUME OrderInv, ReturnJson
  PROVE  OrderInv'
<1> DEFINE n == Len(calls)
<1>1. /\ stage = "running" /\ Path = "json" /\ Accepted
      /\ stage' \in {"returned", "thrown"}
      /\ UNCHANGED <<order, calls, object, content, tokenCount, aborted, firsts>>
  BY DEF ReturnJson, Returns, Throws
<1>2. order \in Orders /\ firsts \in 0..1
  BY DEF OrderInv, TypeOK
<1>3. order.parallel = "none"
  BY <1>1, <1>2, Paths
<1>4. Sequential /\ n \in DOMAIN calls /\ object = n /\ Ended = {n}
  BY <1>1, LastAccepted
<1>5. n \in Nat /\ DOMAIN calls = 1..n
  BY CallsAreCalls DEF OrderInv
<1>6. \A i \in DOMAIN calls : calls[i].form # "prose" => calls[i].tokens > 0
  BY DEF OrderInv, Calling
<1>7. \A m \in DOMAIN content :
        content[m] \in 1..n /\ calls[content[m]].tokens > 0
  <2> TAKE m \in DOMAIN content
  <2>1. content \in Seq(1..n)
    BY DEF OrderInv, TypeOK
  <2>2. content[m] \in 1..n
    BY <2>1, ElementOfSeq
  <2> QED
    BY <1>4, <1>5, <2>2, SaidIsCollected
\* Text of another stream is among what was collected.
<1>8. ASSUME NEW m \in DOMAIN content, content[m] # n
      PROVE  \E i \in 1..(n - 1) : calls[i].tokens > 0
  <2>1. content[m] \in 1..(n - 1)
    BY <1>5, <1>7, <1>8
  <2> QED
    BY <1>7, <2>1
<1>9. ASSUME stage' = "returned", result'.output # {n}
      PROVE  /\ calls[n].form # "object"
             /\ \E i \in 1..(n - 1) : calls[i].tokens > 0
  <2>1. ~ObjectResolves /\ MayParse /\ result' = [output |-> Collected]
    <3>1. CASE ObjectResolves /\ Returns({object})
      BY <1>4, <1>9, <3>1 DEF Returns
    <3>2. CASE Throws("invalid_input")
      BY <1>9, <3>2 DEF Throws
    <3> QED
      BY <3>1, <3>2 DEF ReturnJson, Returns
  <2>2. calls[n].form # "object"
    BY <1>4, <2>1 DEF ObjectResolves
  <2>3. Collected # {n}
    BY <1>9, <2>1
  <2>4. 1 \in DOMAIN content
    <3>1. content \in Seq(1..n) /\ content # <<>>
      BY <2>1 DEF MayParse, OrderInv, TypeOK
    <3> QED
      BY <3>1, EmptySeq, LenProperties
  <2>5. \E m \in DOMAIN content : content[m] # n
    BY <2>3, <2>4 DEF Collected
  <2> QED
    BY <1>8, <2>2, <2>5
<1>10. ASSUME stage' = "thrown"
       PROVE  /\ result' \in [class : Classes, retryable : BOOLEAN]
              /\ calls[n].form # "object"
              /\ calls[n].form = "json" =>
                   \E i \in 1..(n - 1) : calls[i].tokens > 0
  <2>1. ~ObjectResolves /\ MayNotParse /\ Throws("invalid_input")
    BY <1>10 DEF ReturnJson, Returns
  <2>2. result' \in [class : Classes, retryable : BOOLEAN]
    <3>1. Failure("invalid_input") \in [class : Classes, retryable : BOOLEAN]
      BY DEF Failure, Classes, IsRetryable
    <3> QED
      BY <2>1, <3>1 DEF Throws
  <2>3. calls[n].form # "object"
    BY <1>4, <2>1 DEF ObjectResolves
  <2>4. ASSUME calls[n].form = "json"
        PROVE  \E i \in 1..(n - 1) : calls[i].tokens > 0
    <3>1. ~OnlyOf(n)
      BY <1>4, <2>1, <2>4 DEF MayNotParse
    <3>2. \E m \in DOMAIN content : content[m] = n
      BY <1>4, <1>6, <2>4, SaidIsCollected
    <3>3. content # <<>>
      BY <3>2, EmptySeq
    <3>4. \E m \in DOMAIN content : content[m] # n
      BY <3>1, <3>3 DEF OnlyOf
    <3> QED
      BY <1>8, <3>4
  <2> QED
    BY <2>2, <2>3, <2>4
<1>11. JsonPrefersLastStream'
  <2>1. Len(calls') = n /\ calls' = calls
    BY <1>1
  <2> QED
    BY <1>9, <1>10, <2>1 DEF JsonPrefersLastStream
<1> QED
  BY <1>1, <1>2, <1>10, <1>11, OrderEnds

LEMMA ReturnRaceSound ==
  ASSUME OrderInv, ReturnRace
  PROVE  OrderInv'
<1>1. PICK i \in Ended :
        /\ Returns(Copies(i))
        /\ firsts' = IF calls[i].tokens > 0 THEN firsts + 1 ELSE firsts
  BY DEF ReturnRace
<1>2. /\ stage = "running" /\ stage' = "returned" /\ Path = "race"
      /\ UNCHANGED <<order, calls, object, content, tokenCount, aborted>>
      /\ result' = [output |-> Copies(i)]
  BY <1>1 DEF ReturnRace, Returns
<1>3. order.parallel = "race" /\ ~Sequential
  <2>1. order \in Orders
    BY DEF OrderInv, TypeOK
  <2> QED
    BY <1>2, <2>1, Paths
<1>4. firsts' \in 0..1
  BY <1>1, <1>2, <1>3 DEF OrderInv, Calling
<1>5. JsonPrefersLastStream'
  BY <1>2, <1>3 DEF JsonPrefersLastStream
<1> QED
  BY <1>2, <1>3, <1>4, <1>5, OrderEnds

LEMMA ReturnFanoutSound ==
  ASSUME OrderInv, ReturnFanout
  PROVE  OrderInv'
<1>1. /\ stage = "running" /\ stage' = "returned" /\ Path = "fanout"
      /\ UNCHANGED <<order, calls, object, content, tokenCount, aborted, firsts>>
      /\ result' = [output |-> FanoutOutputs]
  BY DEF ReturnFanout, Returns
<1>2. order \in Orders /\ firsts \in 0..1
  BY DEF OrderInv, TypeOK
<1>3. order.parallel = "fanout" /\ ~Sequential
  BY <1>1, <1>2, Paths
<1>4. JsonPrefersLastStream'
  BY <1>1, <1>3 DEF JsonPrefersLastStream
<1> QED
  BY <1>1, <1>2, <1>4, OrderEnds

LEMMA GiveUpSound ==
  ASSUME OrderInv, GiveUp
  PROVE  OrderInv'
<1>1. /\ stage = "running" /\ stage' = "thrown" /\ Ended = {}
      /\ UNCHANGED <<order, calls, object, content, tokenCount, aborted, firsts>>
  BY DEF GiveUp, Throws
<1>2. result' \in [class : Classes, retryable : BOOLEAN]
  BY Classified DEF GiveUp, Throws
<1>3. firsts \in 0..1
  BY DEF OrderInv, TypeOK
<1>4. ~Accepted
  <2>1. calls # <<>> => Len(calls) \in DOMAIN calls
    <3>1. calls \in Seq(Call) /\ Len(calls) \in Nat /\ DOMAIN calls = 1..Len(calls)
      BY CallsAreCalls DEF OrderInv
    <3> QED
      BY <3>1, EmptySeq
  <2> QED
    BY <1>1, <2>1 DEF Accepted, Ended
<1>5. JsonPrefersLastStream'
  BY <1>1, <1>4 DEF JsonPrefersLastStream, Accepted
<1> QED
  BY <1>1, <1>2, <1>3, <1>5, OrderEnds

-----------------------------------------------------------------------------
(* The theorems                                                            *)

LEMMA OrderStep ==
  ASSUME OrderInv, [Next]_vars
  PROVE  OrderInv'
<1>1. CASE \E i \in DOMAIN calls :
             \/ StartOperation(i)
             \/ Token(i)
             \/ \E form \in Forms : StreamEnds(i, form)
             \/ StreamBreaks(i)
  BY <1>1, StartOperationSound, TokenSound, StreamEndsSound, StreamBreaksSound
<1>2. CASE Start \/ BuildStream \/ Abort
  BY <1>2, StartSound, BuildStreamSound, AbortSound
<1>3. CASE ReturnText \/ ReturnJson \/ ReturnRace \/ ReturnFanout \/ GiveUp
  BY <1>3, ReturnTextSound, ReturnJsonSound, ReturnRaceSound,
     ReturnFanoutSound, GiveUpSound
<1>4. CASE UNCHANGED vars
  BY <1>4, StutterOrder
<1> QED
  BY <1>1, <1>2, <1>3, <1>4 DEF Next

LEMMA OrderAlways == Spec => []OrderInv
BY InitOrder, OrderStep, PTL DEF Spec

\* However many streams an order needs, the executor's state stays well typed,
\* and what it throws is a failure the worker can classify.
THEOREM TypesAlwaysHold == Spec => []TypeOK
BY OrderAlways, PTL DEF OrderInv

\* The loops over result.stream lose, double and reorder nothing, for any
\* number of retries and fallbacks.
THEOREM AllIsCollected == Spec => []CollectedIsDelivered
BY OrderAlways, PTL DEF OrderInv

\* For any number of retries and fallbacks: text of a stream that was retried
\* comes into structured output only when the last stream has no object, and a
\* stream that has one, or alone has said JSON, is never refused.
THEOREM LastStreamIsPreferred == Spec => []JsonPrefersLastStream
BY OrderAlways, PTL DEF OrderInv

LEMMA InitView ==
  ASSUME Init
  PROVE  View!Init
<1>1. order \in Orders
  BY DEF Init
<1>2. Path \in {"race", "fanout", "json", "text"}
  BY <1>1, Paths
<1>3. (IF Sequential THEN "stream" ELSE Path) \in {"stream", "race", "fanout"}
  BY <1>2 DEF Sequential
<1> QED
  BY <1>3 DEF Init, View!Init

LEMMA ViewStep ==
  ASSUME OrderInv, [Next]_vars
  PROVE  [View!Next]_View!vars
<1>1. order' = order
  BY DEF Next, Start, BuildStream, StartOperation, Token, StreamEnds,
         StreamBreaks, Abort, ReturnText, ReturnJson, ReturnRace, ReturnFanout,
         GiveUp, Returns, Throws, vars
<1>2. Path' = Path /\ Sequential' = Sequential
  BY <1>1, SameOrder
<1>3. firsts \in 0..1 /\ (Sequential => (firsts = 0 <=> content = <<>>))
  BY DEF OrderInv, TypeOK, CollectedIsDelivered
<1>4. CASE /\ UNCHANGED firsts
           /\ {stage, stage'} \subseteq {"start", "running"}
  BY <1>2, <1>4 DEF View!vars
<1>5. ASSUME NEW i \in DOMAIN calls, Token(i)
      PROVE  [View!Next]_View!vars
  <2>1. stage = "running" /\ stage' = "running"
    BY <1>5 DEF Token
  <2>2. CASE Sequential /\ content = <<>>
    <3>1. firsts = 0 /\ firsts' = 1
      BY <1>3, <1>5, <2>2 DEF Token, Collect
    <3> QED
      BY <1>2, <2>1, <2>2, <3>1 DEF View!Next, View!FirstToken
  <2>3. CASE ~(Sequential /\ content = <<>>)
    <3>1. firsts' = firsts
      BY <1>5, <2>3 DEF Token, Collect
    <3> QED
      BY <1>4, <2>1, <3>1
  <2> QED
    BY <2>2, <2>3
<1>6. CASE /\ stage = "running" /\ stage' = "returned"
           /\ Path = "race" \/ UNCHANGED firsts
  <2> DEFINE f == firsts > 0
             g == firsts' > 0
  <2>1. (IF Sequential THEN "stream" ELSE Path) = "race" \/ g = f
    BY <1>6 DEF Sequential
  <2>2. g = TRUE \/ g = FALSE
    <3>1. firsts' \in 0..1
      BY OrderStep DEF OrderInv, TypeOK
    <3> QED
      BY <3>1
  <2>3. g \in IF (IF Sequential THEN "stream" ELSE Path) = "race"
              THEN {FALSE, TRUE} ELSE {f}
    <3> HIDE DEF f, g
    <3> QED
      BY <2>1, <2>2
  <2>4. View!Complete
    BY <1>2, <1>6, <2>3 DEF View!Complete
  <2> QED
    BY <2>4 DEF View!Next
<1>7. CASE stage = "running" /\ stage' = "thrown" /\ UNCHANGED firsts
  BY <1>2, <1>7 DEF View!Next, View!Fail
<1>8. CASE \E i \in DOMAIN calls :
             \/ StartOperation(i)
             \/ Token(i)
             \/ \E form \in Forms : StreamEnds(i, form)
             \/ StreamBreaks(i)
  BY <1>4, <1>5, <1>8 DEF StartOperation, StreamEnds, StreamBreaks
<1>9. CASE Start \/ BuildStream \/ Abort
  BY <1>4, <1>9 DEF Start, BuildStream, Abort
<1>10. CASE ReturnText \/ ReturnJson \/ ReturnRace \/ ReturnFanout
  BY <1>6, <1>7, <1>10 DEF ReturnText, ReturnJson, ReturnRace, ReturnFanout,
                           Returns, Throws
<1>11. CASE GiveUp
  BY <1>7, <1>11 DEF GiveUp, Throws
<1>12. CASE UNCHANGED vars
  BY <1>2, <1>12 DEF View!vars, vars
<1> QED
  BY <1>8, <1>9, <1>10, <1>11, <1>12 DEF Next

\* The executor implements RunView: what L0Worker relies on of a run holds for
\* every order, number of calls and of tokens.
THEOREM ViewIsImplemented == Spec => RunViewSpec
BY OrderAlways, InitView, ViewStep, InitOrder, PTL
   DEF Spec, RunViewSpec, View!Spec

===========================================================================
