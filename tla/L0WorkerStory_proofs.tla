------------------------ MODULE L0WorkerStory_proofs -------------------------
(***************************************************************************)
(* What a run tells: its events in the log, on its client's stream, and    *)
(* the lines the worker announces its drain with.  For every set of        *)
(* requests, tasks and shutdown triggers and both deployments.             *)
(*                                                                         *)
(* Stories are picked out of a log that several runs share, by Only.  The  *)
(* first two sections prove what Only does; it is a recursive function, so *)
(* they go by induction on sequences, with the predicate given as a set.   *)
(*                                                                         *)
(* The invariants need one another.  That the last words of a run make a   *)
(* proper end rests on what has been told so far, and for a race on no     *)
(* first token having been told early (FirstTokenIsStreamed).  That the    *)
(* stream says what the log says rests on nobody leaving before the worker *)
(* has answered, and that a staying client's stream ends with the end      *)
(* rests on its having been open until then (ClientInv).  StoryKinds       *)
(* reduces every action to what it sends, what it records and where its    *)
(* request stands then, and the invariants are proved over that.           *)
(***************************************************************************)
EXTENDS L0Worker_proofs, FunctionTheorems, SequenceTheorems, NaturalsInduction

-----------------------------------------------------------------------------
(* Induction *)

\* A set of natural numbers that holds 0 and all successors of its members
\* holds them all.
LEMMA NatSetInduction ==
  ASSUME NEW P, 0 \in P, \A n \in Nat : n \in P => n + 1 \in P
  PROVE  Nat \subseteq P
<1> DEFINE rest == Nat \ P
<1> SUFFICES ASSUME rest # {} PROVE FALSE
  OBVIOUS
<1>1. IsWellFoundedOn(OpToRel(<, Nat), Nat)
  BY NatLessThanWellFounded
<1>2. PICK n \in rest : \A m \in rest : ~ (<<m, n>> \in OpToRel(<, Nat))
  BY <1>1, WFMin
<1>3. \A m \in rest : ~ (m < n)
  BY <1>2 DEF OpToRel
<1>4. n # 0 /\ n - 1 \in Nat /\ n - 1 < n /\ (n - 1) + 1 = n
  OBVIOUS
<1>5. n - 1 \in P
  BY <1>3, <1>4
<1> QED
  BY <1>4, <1>5

\* A set that holds <<>> and every extension of its members by one element of
\* S holds every sequence over S.
LEMMA SeqSetInduction ==
  ASSUME NEW S, NEW P, <<>> \in P,
         \A s \in Seq(S) : s \in P => \A e \in S : Append(s, e) \in P
  PROVE  Seq(S) \subseteq P
<1> DEFINE N == {n \in Nat : \A s \in Seq(S) : Len(s) = n => s \in P}
<1>1. 0 \in N
  <2>1. \A s \in Seq(S) : Len(s) = 0 => s = <<>>
    OBVIOUS
  <2> QED
    BY <2>1
<1>2. ASSUME NEW n \in Nat, n \in N PROVE n + 1 \in N
  <2> SUFFICES ASSUME NEW s \in Seq(S), Len(s) = n + 1 PROVE s \in P
    OBVIOUS
  <2> DEFINE front == SubSeq(s, 1, n)
  <2>1. front \in Seq(S) /\ Len(front) = n
    OBVIOUS
  <2>2. s[n + 1] \in S /\ s = Append(front, s[n + 1])
    OBVIOUS
  <2>3. front \in P
    BY <1>2, <2>1
  <2> HIDE DEF front
  <2>4. Append(front, s[n + 1]) \in P
    BY <2>1, <2>2, <2>3
  <2> QED
    BY <2>2, <2>4
<1> HIDE DEF N
<1>3. Nat \subseteq N
  BY <1>1, <1>2, NatSetInduction
<1>4. ASSUME NEW s \in Seq(S) PROVE s \in P
  <2>1. Len(s) \in N
    BY <1>3
  <2> QED
    BY <2>1 DEF N
<1> QED
  BY <1>4

-----------------------------------------------------------------------------
(* Only *)

\* f is the function that Only builds for s.
Picks(s, T, f) ==
  f = [n \in 0..Len(s) |->
         IF n = 0 THEN <<>>
         ELSE IF s[n] \in T THEN Append(f[n - 1], s[n])
         ELSE f[n - 1]]

\* The function in Only exists.
LEMMA PickExists ==
  ASSUME NEW S, NEW T, NEW s \in Seq(S)
  PROVE  \E f : Picks(s, T, f)
<1> DEFINE P == {x \in Seq(S) : \E f : Picks(x, T, f)}
<1>1. <<>> \in P
  <2> DEFINE f == [n \in 0..0 |-> <<>>]
  <2>1. Picks(<<>>, T, f)
    BY DEF Picks
  <2> QED
    BY <2>1
<1>2. ASSUME NEW x \in Seq(S), x \in P, NEW e \in S PROVE Append(x, e) \in P
  <2>1. PICK f : Picks(x, T, f)
    BY <1>2
  <2> DEFINE k == Len(x)
             last == IF e \in T THEN Append(f[k], e) ELSE f[k]
             g == [n \in 0..(k + 1) |-> IF n = k + 1 THEN last ELSE f[n]]
             y == Append(x, e)
  <2>2. k \in Nat /\ Len(y) = k + 1 /\ y[k + 1] = e /\ \A n \in 1..k : y[n] = x[n]
    OBVIOUS
  <2>3. \A n \in 0..k : f[n] = IF n = 0 THEN <<>>
                               ELSE IF x[n] \in T THEN Append(f[n - 1], x[n])
                               ELSE f[n - 1]
    BY <2>1 DEF Picks
  <2> HIDE DEF k, last, y
  <2>4. g[k + 1] = last /\ \A n \in 0..k : g[n] = f[n]
    BY <2>2
  <2>5. ASSUME NEW n \in 0..(k + 1)
        PROVE  g[n] = IF n = 0 THEN <<>>
                      ELSE IF y[n] \in T THEN Append(g[n - 1], y[n])
                      ELSE g[n - 1]
    <3> HIDE DEF g
    <3>1. CASE n = k + 1
      BY <2>2, <2>4, <3>1 DEF last
    <3>2. CASE n # k + 1 /\ n # 0
      <4>1. n \in 0..k /\ n \in 1..k /\ n - 1 \in 0..k
        BY <2>2, <3>2
      <4> QED
        BY <2>2, <2>3, <2>4, <3>2, <4>1
    <3>3. CASE n = 0
      BY <2>2, <2>3, <2>4, <3>3
    <3> QED
      BY <3>1, <3>2, <3>3
  <2>6. Picks(y, T, g)
    BY <2>2, <2>5 DEF Picks
  <2> QED
    BY <2>6 DEF y
<1> HIDE DEF P
<1>3. Seq(S) \subseteq P
  BY <1>1, <1>2, SeqSetInduction
<1> QED
  BY <1>3 DEF P

\* One element more changes nothing before it.
LEMMA PickOfPrefix ==
  ASSUME NEW S, NEW T, NEW s \in Seq(S), NEW e \in S,
         NEW f, NEW g, Picks(s, T, f), Picks(Append(s, e), T, g)
  PROVE  f[Len(s)] = g[Len(s)]
<1> DEFINE t == Append(s, e)
           N == {n \in Nat : n <= Len(s) => f[n] = g[n]}
<1>1. \A n \in 0..Len(s) : f[n] = IF n = 0 THEN <<>>
                                  ELSE IF s[n] \in T THEN Append(f[n - 1], s[n])
                                  ELSE f[n - 1]
  BY DEF Picks
<1>2. \A n \in 0..Len(t) : g[n] = IF n = 0 THEN <<>>
                                  ELSE IF t[n] \in T THEN Append(g[n - 1], t[n])
                                  ELSE g[n - 1]
  BY DEF Picks
<1>3. /\ Len(s) \in Nat /\ Len(t) = Len(s) + 1
      /\ \A i \in 1..Len(s) : s[i] = t[i]
  OBVIOUS
<1> HIDE DEF t
<1>4. 0 \in N
  BY <1>1, <1>2, <1>3
<1>5. ASSUME NEW n \in Nat, n \in N PROVE n + 1 \in N
  <2> SUFFICES ASSUME n + 1 <= Len(s) PROVE f[n + 1] = g[n + 1]
    OBVIOUS
  <2>1. /\ n + 1 \in 0..Len(s) /\ n + 1 \in 0..Len(t) /\ n + 1 \in 1..Len(s)
        /\ n + 1 # 0 /\ (n + 1) - 1 = n /\ n <= Len(s)
    BY <1>3
  <2>2. f[n] = g[n]
    BY <1>5, <2>1
  <2>3. s[n + 1] = t[n + 1]
    BY <1>3, <2>1
  <2> HIDE DEF N
  <2> QED
    BY <1>1, <1>2, <2>1, <2>2, <2>3
<1> HIDE DEF N
<1>6. Nat \subseteq N
  BY <1>4, <1>5, NatSetInduction
<1> QED
  BY <1>3, <1>6 DEF N

LEMMA OnlyIsPick ==
  ASSUME NEW S, NEW T, NEW s \in Seq(S)
  PROVE  \E f : Picks(s, T, f) /\ Only(s, T) = f[Len(s)]
<1>1. PICK g : Picks(s, T, g)
  BY PickExists
<1> QED
  BY <1>1 DEF Only, Picks

LEMMA OnlyEmpty ==
  ASSUME NEW T
  PROVE  Only(<<>>, T) = <<>>
<1>1. <<>> \in Seq({})
  OBVIOUS
<1>2. PICK f : Picks(<<>>, T, f) /\ Only(<<>>, T) = f[Len(<<>>)]
  BY <1>1, OnlyIsPick
<1>3. Len(<<>>) = 0
  OBVIOUS
<1> QED
  BY <1>2, <1>3 DEF Picks

\* One event more.
LEMMA OnlyAppend ==
  ASSUME NEW S, NEW T, NEW s \in Seq(S), NEW e \in S
  PROVE  Only(Append(s, e), T) =
           IF e \in T THEN Append(Only(s, T), e) ELSE Only(s, T)
<1> DEFINE t == Append(s, e)
           k == Len(s)
<1>1. /\ t \in Seq(S) /\ k \in Nat /\ Len(t) = k + 1 /\ t[k + 1] = e
      /\ \A i \in 1..k : s[i] = t[i]
  OBVIOUS
<1> HIDE DEF t, k
<1>2. PICK f : Picks(s, T, f) /\ Only(s, T) = f[k]
  BY OnlyIsPick DEF k
<1>3. PICK g : Picks(t, T, g) /\ Only(t, T) = g[k + 1]
  BY <1>1, OnlyIsPick
<1>4. f[k] = g[k]
  BY <1>2, <1>3, PickOfPrefix DEF k, t
<1>5. g[k + 1] = IF t[k + 1] \in T THEN Append(g[k], t[k + 1]) ELSE g[k]
  <2>1. k + 1 \in 0..Len(t) /\ k + 1 # 0 /\ (k + 1) - 1 = k
    BY <1>1
  <2> QED
    BY <1>3, <2>1 DEF Picks
<1> QED
  BY <1>1, <1>2, <1>3, <1>4, <1>5 DEF t

\* It takes members of S that are in T.
LEMMA OnlyType ==
  ASSUME NEW S, NEW T, NEW s \in Seq(S)
  PROVE  Only(s, T) \in Seq(S \cap T)
<1> DEFINE P == {x \in Seq(S) : Only(x, T) \in Seq(S \cap T)}
<1>1. <<>> \in P
  <2>1. Only(<<>>, T) = <<>>
    BY OnlyEmpty
  <2>2. <<>> \in Seq(S \cap T) /\ <<>> \in Seq(S)
    OBVIOUS
  <2> QED
    BY <2>1, <2>2, Zenon
<1>2. ASSUME NEW x \in Seq(S), x \in P, NEW e \in S PROVE Append(x, e) \in P
  <2>1. Only(Append(x, e), T) =
          IF e \in T THEN Append(Only(x, T), e) ELSE Only(x, T)
    BY OnlyAppend
  <2>2. Append(x, e) \in Seq(S)
    OBVIOUS
  <2>3. e \in T => Append(Only(x, T), e) \in Seq(S \cap T)
    BY <1>2
  <2> QED
    BY <1>2, <2>1, <2>2, <2>3
<1> HIDE DEF P
<1>3. Seq(S) \subseteq P
  BY <1>1, <1>2, SeqSetInduction
<1> QED
  BY <1>3 DEF P

\* It passes concatenation.
LEMMA OnlyConcat ==
  ASSUME NEW S, NEW T, NEW s \in Seq(S), NEW u \in Seq(S)
  PROVE  Only(s \o u, T) = Only(s, T) \o Only(u, T)
<1> DEFINE P == {x \in Seq(S) : Only(s \o x, T) = Only(s, T) \o Only(x, T)}
<1>1. Only(s, T) \in Seq(S)
  <2>1. Seq(S \cap T) \subseteq Seq(S)
    OBVIOUS
  <2> QED
    BY <2>1, OnlyType
<1>2. <<>> \in P
  <2>1. s \o <<>> = s /\ Only(s, T) \o <<>> = Only(s, T)
    BY <1>1
  <2>2. Only(<<>>, T) = <<>>
    BY OnlyEmpty
  <2>3. <<>> \in Seq(S)
    OBVIOUS
  <2> QED
    BY <2>1, <2>2, <2>3, Zenon
<1>3. ASSUME NEW x \in Seq(S), x \in P, NEW e \in S PROVE Append(x, e) \in P
  <2> DEFINE os == Only(s, T)
             ox == Only(x, T)
             y == s \o x
  <2>1. s \o Append(x, e) = Append(y, e) /\ y \in Seq(S)
    OBVIOUS
  <2>2. ox \in Seq(S)
    <3>1. Seq(S \cap T) \subseteq Seq(S)
      OBVIOUS
    <3> QED
      BY <3>1, OnlyType
  <2>3. Only(Append(y, e), T) =
          IF e \in T THEN Append(Only(y, T), e) ELSE Only(y, T)
    <3> HIDE DEF y
    <3> QED
      BY <2>1, OnlyAppend
  <2>4. Only(Append(x, e), T) = IF e \in T THEN Append(ox, e) ELSE ox
    BY OnlyAppend
  <2>5. Only(y, T) = os \o ox
    BY <1>3
  <2> HIDE DEF os, ox, y
  <2>6. Append(os \o ox, e) = os \o Append(ox, e)
    BY <1>1, <2>2 DEF os
  <2>7. Only(s \o Append(x, e), T) = os \o Only(Append(x, e), T)
    BY <2>1, <2>3, <2>4, <2>5, <2>6
  <2>8. Append(x, e) \in Seq(S)
    OBVIOUS
  <2> QED
    BY <2>7, <2>8 DEF os
<1> HIDE DEF P
<1>4. Seq(S) \subseteq P
  BY <1>2, <1>3, SeqSetInduction
<1> QED
  BY <1>4 DEF P

\* It takes all of a sequence over T, and nothing where nothing is in T.
LEMMA OnlyAll ==
  ASSUME NEW T, NEW u \in Seq(T)
  PROVE  Only(u, T) = u
<1> DEFINE P == {x \in Seq(T) : Only(x, T) = x}
<1>1. <<>> \in P
  BY OnlyEmpty
<1>2. ASSUME NEW x \in Seq(T), x \in P, NEW e \in T PROVE Append(x, e) \in P
  <2>1. Only(Append(x, e), T) = Append(Only(x, T), e)
    BY OnlyAppend
  <2> QED
    BY <1>2, <2>1
<1> HIDE DEF P
<1>3. Seq(T) \subseteq P
  BY <1>1, <1>2, SeqSetInduction
<1> QED
  BY <1>3 DEF P

LEMMA OnlyNone ==
  ASSUME NEW S, NEW T, S \cap T = {}, NEW u \in Seq(S)
  PROVE  Only(u, T) = <<>>
<1>1. Only(u, T) \in Seq({})
  BY OnlyType
<1> QED
  BY <1>1

\* What it takes is in the sequence.
LEMMA OnlyFrom ==
  ASSUME NEW S, NEW T, NEW s \in Seq(S), NEW i \in 1..Len(Only(s, T))
  PROVE  \E j \in 1..Len(s) : s[j] = Only(s, T)[i]
<1> DEFINE R == {s[j] : j \in 1..Len(s)}
<1>1. s \in Seq(R)
  OBVIOUS
<1> HIDE DEF R
<1>2. Only(s, T) \in Seq(R \cap T)
  BY <1>1, OnlyType
<1>3. Only(s, T)[i] \in R
  BY <1>2
<1> QED
  BY <1>3 DEF R

\* What is in the sequence and in T, it takes.
LEMMA OnlyHas ==
  ASSUME NEW S, NEW T, NEW s \in Seq(S), NEW j \in 1..Len(s), s[j] \in T
  PROVE  Only(s, T) # <<>>
<1> DEFINE P == {x \in Seq(S) :
                   (\E i \in 1..Len(x) : x[i] \in T) => Only(x, T) # <<>>}
<1>1. <<>> \in P
  OBVIOUS
<1>2. ASSUME NEW x \in Seq(S), x \in P, NEW e \in S PROVE Append(x, e) \in P
  <2>1. Only(Append(x, e), T) =
          IF e \in T THEN Append(Only(x, T), e) ELSE Only(x, T)
    BY OnlyAppend
  <2>2. Append(x, e) \in Seq(S)
    OBVIOUS
  <2>3. Only(x, T) \in Seq(S \cap T)
    BY OnlyType
  <2> SUFFICES ASSUME NEW i \in 1..Len(Append(x, e)), Append(x, e)[i] \in T
               PROVE  Only(Append(x, e), T) # <<>>
    BY <2>2
  <2>4. CASE e \in T
    <3> DEFINE o == Only(x, T)
    <3> HIDE DEF o
    <3>1. Append(o, e) # <<>>
      BY <2>3, <2>4 DEF o
    <3> QED
      BY <2>1, <2>4, <3>1 DEF o
  <2>5. CASE e \notin T
    <3>1. i \in 1..Len(x) /\ x[i] \in T
      BY <2>5
    <3> QED
      BY <1>2, <2>1, <2>5, <3>1
  <2> QED
    BY <2>4, <2>5
<1> HIDE DEF P
<1>3. Seq(S) \subseteq P
  BY <1>1, <1>2, SeqSetInduction
<1> QED
  BY <1>3 DEF P

-----------------------------------------------------------------------------
(* What the invariants say, strengthened *)

\* RunLogWellFormed of one run, with its recorded events y and its standing v.
Tale(y, v) ==
  /\ (y = <<>>) <=> (v \in {"idle", "refused"})
  /\ \A i \in 1..Len(y) :
       /\ (y[i].type = "TASK_ACCEPTED") <=> (i = 1)
       /\ y[i].type = "FIRST_TOKEN" => i = 2
       /\ y[i].type \in TerminalTypes => i = Len(y) /\ v = "ended"

\* The recorded events of a run that its stream carried.
Sent(r) == Only(stream[r], RecordedEvent)

\* Only an order that is read token by token reports a first token early.
FirstTokenIsStreamed ==
  \A r \in Request :
    req[r] = "running" /\ OrderKind[r] # "stream" => Len(RunLog(r)) = 1

StoryInv ==
  /\ RunLogWellFormed
  /\ FirstTokenIsStreamed
  /\ StreamMatchesLog

\* Nobody leaves before the worker answers, timers are those of runs in
\* progress, and the stream of a run in progress is open.
ClientInv ==
  /\ \A r \in Request : req[r] \in {"idle", "refused"} => connected[r]
  /\ \A r \in armed : req[r] = "running"
  /\ \A r \in Request : req[r] \in {"idle", "running"} =>
       \A i \in 1..Len(stream[r]) :
         stream[r][i].type \notin TerminalTypes \cup {"DONE"}
  /\ StayingClientSeesTheEnd

DrainNote == [type : {"WORKER_DRAINING"}, req : Request]

Announced(r) == Only(stream[r], DrainNote)

\* Who was told of the drain was told by the one timer that began it.
AnnounceInv ==
  /\ \A r \in Request : Len(Announced(r)) \in {0, 1}
  /\ \A r, s \in Request : Announced(r) # <<>> /\ Announced(s) # <<>> => r = s
  /\ (\E r \in Request : Announced(r) # <<>>) => state = "DRAINING"
  /\ state = "DRAINING" /\ (\A r \in Request : connected[r])
       => \E r \in Request : Announced(r) # <<>>
  /\ \A r \in Request : \A i \in 1..Len(stream[r]) : stream[r][i].req = r
  /\ state \in {"READY", "ACCEPTING", "DRAINING"}

-----------------------------------------------------------------------------
(* Recording and sending *)

LEMMA RunEvents ==
  ASSUME NEW r \in Request
  PROVE  /\ RunEvent(r) \subseteq RecordedEvent
         /\ RunEvent(r) \subseteq StreamEvent
         /\ RecordedEvent \subseteq StreamEvent
         /\ Seq(RunEvent(r)) \subseteq Seq(RecordedEvent)
         /\ Seq(RunEvent(r)) \subseteq Seq(StreamEvent)
<1>1. RecordedTypes \subseteq StreamTypes
  BY DEF StreamTypes
<1>2. /\ RunEvent(r) \subseteq RecordedEvent
      /\ RunEvent(r) \subseteq StreamEvent
      /\ RecordedEvent \subseteq StreamEvent
  BY <1>1 DEF RunEvent, RecordedEvent, StreamEvent
<1> QED
  BY <1>2

\* What is recorded of a run is added to its story and to no other.
LEMMA LogTold ==
  ASSUME TypeOK, NEW r \in Request, NEW events \in Seq(RunEvent(r)),
         Record(r, events)
  PROVE  \A x \in Request :
           RunLog(x)' = IF x = r THEN RunLog(r) \o events ELSE RunLog(x)
<1> DEFINE t == TaskOf[r]
<1>1. t \in Task /\ \A x \in Request : TaskOf[x] \in Task
  BY ConstantsAssumption
<1>2. \A u \in Task : log[u] \in Seq(RecordedEvent)
  BY DEF TypeOK
<1>3. /\ log'[t] = log[t] \o events
      /\ \A u \in Task : u # t => log'[u] = log[u]
  BY <1>1 DEF Record, TypeOK
<1>4. events \in Seq(RecordedEvent)
  BY RunEvents
<1> SUFFICES ASSUME NEW x \in Request
             PROVE  Only(log'[TaskOf[x]], RunEvent(x)) =
                      IF x = r THEN Only(log[t], RunEvent(r)) \o events
                      ELSE Only(log[TaskOf[x]], RunEvent(x))
  BY DEF RunLog
<1>5. CASE TaskOf[x] # t
  BY <1>1, <1>3, <1>5
<1>6. CASE TaskOf[x] = t
  <2>1. Only(log'[t], RunEvent(x)) =
          Only(log[t], RunEvent(x)) \o Only(events, RunEvent(x))
    <3>1. log[t] \in Seq(RecordedEvent)
      BY <1>1, <1>2
    <3> HIDE DEF t
    <3>2. Only(log[t] \o events, RunEvent(x)) =
            Only(log[t], RunEvent(x)) \o Only(events, RunEvent(x))
      BY <1>4, <3>1, OnlyConcat
    <3> QED
      BY <1>3, <3>2
  <2>2. CASE x = r
    <3>1. Only(events, RunEvent(r)) = events
      BY OnlyAll
    <3> QED
      BY <1>6, <2>1, <2>2, <3>1
  <2>3. CASE x # r
    <3>1. RunEvent(r) \cap RunEvent(x) = {}
      BY <2>3 DEF RunEvent
    <3>2. Only(events, RunEvent(x)) = <<>>
      BY <3>1, OnlyNone
    <3>3. Only(log[t], RunEvent(x)) \in Seq(RecordedEvent \cap RunEvent(x))
      BY <1>1, <1>2, OnlyType
    <3>4. Only(log[t], RunEvent(x)) \o <<>> = Only(log[t], RunEvent(x))
      BY <3>3
    <3> QED
      BY <1>6, <2>1, <2>3, <3>2, <3>4
  <2> QED
    BY <2>2, <2>3
<1> QED
  BY <1>5, <1>6

LEMMA RunLogType ==
  ASSUME TypeOK, NEW r \in Request
  PROVE  RunLog(r) \in Seq(RunEvent(r))
<1>1. log[TaskOf[r]] \in Seq(RecordedEvent)
  BY ConstantsAssumption DEF TypeOK
<1>2. Only(log[TaskOf[r]], RunEvent(r)) \in Seq(RecordedEvent \cap RunEvent(r))
  BY <1>1, OnlyType
<1> QED
  BY <1>2 DEF RunLog

\* What is sent to a client goes to no other, and to nobody once it has left.
LEMMA StreamTold ==
  ASSUME TypeOK, NEW r \in Request, NEW events \in Seq(StreamEvent),
         Send(r, events)
  PROVE  /\ \A x \in Request :
              stream'[x] = IF x = r /\ connected[r] THEN stream[r] \o events
                           ELSE stream[x]
         /\ \A x \in Request : Sent(x)' =
              IF x = r /\ connected[r] THEN Sent(r) \o Only(events, RecordedEvent)
              ELSE Sent(x)
         /\ \A x \in Request : Announced(x)' =
              IF x = r /\ connected[r]
              THEN Announced(r) \o Only(events, DrainNote)
              ELSE Announced(x)
<1>1. \A x \in Request :
        stream'[x] = IF x = r /\ connected[r] THEN stream[r] \o events
                     ELSE stream[x]
  BY DEF Send, TypeOK
<1>2. ASSUME NEW T, connected[r]
      PROVE  Only(stream'[r], T) = Only(stream[r], T) \o Only(events, T)
  <2>1. stream[r] \in Seq(StreamEvent)
    BY DEF TypeOK
  <2>2. Only(stream[r] \o events, T) = Only(stream[r], T) \o Only(events, T)
    BY <2>1, OnlyConcat
  <2>3. stream'[r] = stream[r] \o events
    BY <1>1, <1>2
  <2> QED
    BY <2>2, <2>3
<1> QED
  BY <1>1, <1>2 DEF Sent, Announced

\* Nothing sent.
LEMMA SendNothing ==
  ASSUME TypeOK, NEW r \in Request, UNCHANGED stream
  PROVE  Send(r, <<>>)
<1>1. stream[r] \o <<>> = stream[r]
  BY DEF TypeOK
<1> QED
  BY <1>1 DEF Send, TypeOK

-----------------------------------------------------------------------------
(* How a story grows *)

LEMMA ConcatIs ==
  ASSUME NEW S, NEW s \in Seq(S), NEW u \in Seq(S)
  PROVE  /\ s \o u \in Seq(S)
         /\ Len(s \o u) = Len(s) + Len(u)
         /\ \A i \in 1..Len(s) : (s \o u)[i] = s[i]
         /\ \A i \in 1..Len(u) : (s \o u)[Len(s) + i] = u[i]
  OBVIOUS

LEMMA LenZero ==
  ASSUME NEW S, NEW s \in Seq(S)
  PROVE  Len(s) \in Nat /\ (s = <<>> <=> Len(s) = 0)
  OBVIOUS

LEMMA TaleBegins ==
  ASSUME NEW r \in Request
  PROVE  /\ <<Ev("TASK_ACCEPTED", r)>> \in Seq(RunEvent(r))
         /\ Tale(<<Ev("TASK_ACCEPTED", r)>>, "running")
<1> DEFINE e == Ev("TASK_ACCEPTED", r)
<1>1. e \in RunEvent(r) /\ e.type = "TASK_ACCEPTED"
  BY DEF Ev, RunEvent, RecordedTypes
<1> HIDE DEF e
<1>2. <<e>> \in Seq(RunEvent(r)) /\ Tale(<<e>>, "running")
  BY <1>1 DEF Tale, TerminalTypes
<1> QED
  BY <1>2 DEF e

LEMMA TaleGoes ==
  ASSUME NEW r \in Request, NEW y \in Seq(RunEvent(r)), Len(y) = 1,
         Tale(y, "running")
  PROVE  /\ <<Ev("FIRST_TOKEN", r)>> \in Seq(RunEvent(r))
         /\ Tale(y \o <<Ev("FIRST_TOKEN", r)>>, "running")
<1> DEFINE e == Ev("FIRST_TOKEN", r)
<1>1. e \in RunEvent(r) /\ e.type = "FIRST_TOKEN"
  BY DEF Ev, RunEvent, RecordedTypes
<1> HIDE DEF e
<1> DEFINE z == y \o <<e>>
<1>2. Len(z) = 2 /\ z[1] = y[1] /\ z[2] = e /\ z # <<>>
  <2>1. <<e>> \in Seq(RunEvent(r)) /\ Len(<<e>>) = 1 /\ <<e>>[1] = e
    BY <1>1
  <2>2. /\ z \in Seq(RunEvent(r))
        /\ Len(z) = Len(y) + Len(<<e>>)
        /\ \A i \in 1..Len(y) : z[i] = y[i]
        /\ \A i \in 1..Len(<<e>>) : z[Len(y) + i] = <<e>>[i]
    BY <2>1, ConcatIs
  <2> HIDE DEF z
  <2>3. z # <<>>
    BY <2>1, <2>2, LenZero
  <2> QED
    BY <2>1, <2>2, <2>3
<1> HIDE DEF z
<1>3. Tale(z, "running")
  BY <1>1, <1>2 DEF Tale, TerminalTypes
<1> QED
  BY <1>1, <1>3 DEF e, z

\* A run ends with one event, or with the first token and one event if it had
\* not reported a first token before.
LastWords(r) == CompletionEvents(r) \cup {<<Ev("TASK_FAILED", r)>>}

LEMMA TaleEnds ==
  ASSUME NEW r \in Request, NEW y \in Seq(RunEvent(r)), Tale(y, "running"),
         NEW events \in LastWords(r), OrderKind[r] = "race" => Len(y) = 1
  PROVE  /\ events \in Seq(RunEvent(r))
         /\ Tale(y \o events, "ended")
         /\ events # <<>>
         /\ events[Len(events)].type \in TerminalTypes
         /\ \A i \in 1..Len(events) - 1 : events[i].type \notin TerminalTypes
<1> DEFINE first == Ev("FIRST_TOKEN", r)
<1>1. /\ first \in RunEvent(r) /\ first.type = "FIRST_TOKEN"
      /\ \A type \in TerminalTypes :
           Ev(type, r) \in RunEvent(r) /\ Ev(type, r).type = type
  BY DEF Ev, RunEvent, RecordedTypes, TerminalTypes
<1>2. \E type \in TerminalTypes :
        \/ events = <<Ev(type, r)>>
        \/ OrderKind[r] = "race" /\ events = <<first, Ev(type, r)>>
  BY DEF LastWords, CompletionEvents, TerminalTypes
<1>3. PICK e \in RunEvent(r) :
        /\ e.type \in TerminalTypes
        /\ \/ events = <<e>>
           \/ OrderKind[r] = "race" /\ events = <<first, e>>
  BY <1>1, <1>2
<1>4. y # <<>>
  BY DEF Tale
<1> HIDE DEF first
<1> DEFINE z == y \o events
<1>5. events \in Seq(RunEvent(r))
  <2>1. <<e>> \in Seq(RunEvent(r)) /\ <<first, e>> \in Seq(RunEvent(r))
    BY <1>1
  <2> QED
    BY <1>3, <2>1
<1>6. /\ Len(y) \in Nat /\ Len(y) > 0 /\ Len(events) \in Nat
      /\ Len(z) = Len(y) + Len(events)
      /\ \A i \in 1..Len(y) : z[i] = y[i]
      /\ \A i \in 1..Len(events) : z[Len(y) + i] = events[i]
      /\ Len(events) > 0 => z # <<>> /\ events # <<>>
  <2>1. /\ z \in Seq(RunEvent(r))
        /\ Len(z) = Len(y) + Len(events)
        /\ \A i \in 1..Len(y) : z[i] = y[i]
        /\ \A i \in 1..Len(events) : z[Len(y) + i] = events[i]
    BY <1>5, ConcatIs
  <2>2. Len(y) \in Nat /\ Len(y) # 0 /\ Len(events) \in Nat
    BY <1>4, <1>5, LenZero
  <2> HIDE DEF z
  <2> QED
    BY <1>5, <2>1, <2>2, LenZero
<1> HIDE DEF z
<1>7. CASE events = <<e>>
  <2>1. Len(events) = 1 /\ events[1] = e /\ events \in Seq(RunEvent(r))
    BY <1>1, <1>7
  <2>2. /\ Len(z) = Len(y) + 1 /\ z[Len(y) + 1] = e
        /\ \A i \in 1..Len(y) : z[i] = y[i]
        /\ z # <<>> /\ Len(y) \in Nat /\ Len(y) > 0
    BY <1>5, <1>6, <2>1
  <2>3. Tale(z, "ended")
    <3>1. z[Len(z)].type \in TerminalTypes /\ Len(z) > 1
      BY <1>3, <2>2
    <3>2. ASSUME NEW i \in 1..Len(z), i # Len(z)
          PROVE  i \in 1..Len(y) /\ z[i] = y[i]
      BY <2>2, <3>2
    <3> QED
      BY <2>2, <3>1, <3>2 DEF Tale, TerminalTypes
  <2> QED
    BY <1>3, <1>6, <2>1, <2>3 DEF z
<1>8. CASE OrderKind[r] = "race" /\ events = <<first, e>>
  <2>1. /\ Len(events) = 2 /\ events[1] = first /\ events[2] = e
        /\ events \in Seq(RunEvent(r))
    BY <1>1, <1>8
  <2>2. /\ Len(z) = 3 /\ z[1] = y[1] /\ z[2] = first /\ z[3] = e
        /\ Len(y) = 1 /\ z # <<>>
    <3>1. Len(y) = 1
      BY <1>8, Zenon
    <3>2. z[1] = y[1] /\ z[Len(y) + 1] = events[1] /\ z[Len(y) + 2] = events[2]
      BY <1>6, <2>1, <3>1
    <3> QED
      BY <1>6, <2>1, <3>1, <3>2
  <2>3. y[1].type = "TASK_ACCEPTED"
    BY <2>2 DEF Tale
  <2>4. Tale(z, "ended")
    BY <1>1, <1>3, <2>2, <2>3 DEF Tale, TerminalTypes
  <2> QED
    BY <1>1, <1>3, <1>6, <2>1, <2>4 DEF z, TerminalTypes
<1> QED
  BY <1>3, <1>7, <1>8

\* A run that stops without a word has told no end.
LEMMA TaleStops ==
  ASSUME NEW y, Tale(y, "running")
  PROVE  Tale(y, "ended")
BY DEF Tale

\* Before its first token a run has told no more than that it was accepted.
LEMMA BeforeFirstToken ==
  ASSUME TypeOK, NEW r \in Request, Tale(RunLog(r), "running"),
         ~FirstTokenEmitted(r)
  PROVE  Len(RunLog(r)) = 1
<1> DEFINE y == RunLog(r)
           l == log[TaskOf[r]]
<1>1. y \in Seq(RunEvent(r))
  BY RunLogType
<1>2. l \in Seq(RecordedEvent)
  BY ConstantsAssumption DEF TypeOK
<1>3. y = Only(l, RunEvent(r))
  BY DEF RunLog
<1> HIDE DEF y, l
<1>4. ASSUME 2 \in 1..Len(y)
      PROVE  FALSE
  <2>1. y[2] \in RunEvent(r)
    BY <1>1, <1>4
  <2>2. y[2].type = "FIRST_TOKEN"
    <3>1. /\ y[2].type # "TASK_ACCEPTED"
          /\ y[2].type \notin TerminalTypes
      BY <1>4 DEF Tale, y
    <3> QED
      BY <2>1, <3>1 DEF RunEvent, RecordedTypes, TerminalTypes
  <2>3. y[2] = Ev("FIRST_TOKEN", r)
    BY <2>1, <2>2 DEF RunEvent, Ev
  <2>4. PICK j \in 1..Len(l) : l[j] = y[2]
    BY <1>2, <1>3, <1>4, OnlyFrom
  <2> QED
    BY <1>2, <2>3, <2>4 DEF FirstTokenEmitted, ToSet, l
<1>5. y # <<>>
  BY DEF Tale, y
<1>6. Len(y) \in Nat /\ Len(y) # 0
  BY <1>1, <1>5, LenZero
<1>7. Len(y) = 1
  BY <1>4, <1>6
<1> QED
  BY <1>7 DEF y

-----------------------------------------------------------------------------
(* What a step does to the stories *)

\* A step of request r: sent goes to its client, logged to its task's log.
Told(r, was, sent, logged, now) ==
  /\ req[r] = was
  /\ Send(r, sent)
  /\ Record(r, logged)
  /\ req' = [req EXCEPT ![r] = now]
  /\ UNCHANGED connected

Opens(r) ==
  Told(r, "idle", <<Ev("TASK_ACCEPTED", r)>>, <<Ev("TASK_ACCEPTED", r)>>, "running")

Turns(r) ==
  \E sent \in {<<>>, <<Ev("ERROR", r)>>, <<Ev("DUPLICATE_TASK", r)>>} :
    Told(r, "idle", sent, <<>>, "refused")

Speaks(r) ==
  /\ OrderKind[r] = "stream"
  /\ ~FirstTokenEmitted(r)
  /\ ~EmitThrows(r)
  /\ Told(r, "running", <<Ev("FIRST_TOKEN", r)>>, <<Ev("FIRST_TOKEN", r)>>, "running")

Mentions(r) == Told(r, "running", <<Ev("L0_EVENT", r)>>, <<>>, "running")

Announces(r) ==
  /\ state # "DRAINING"
  /\ state' = "DRAINING"
  /\ Told(r, "running", <<Ev("WORKER_DRAINING", r)>>, <<>>, "running")

Closes(r) ==
  /\ ~EmitThrows(r)
  /\ \E events \in LastWords(r) :
       Told(r, "running", Append(events, Ev("DONE", r)), events, "ended")

Breaks(r) == EmitThrows(r) /\ Told(r, "running", <<>>, <<>>, "ended")

Leaves(r) ==
  /\ req[r] = "running"
  /\ connected' = [connected EXCEPT ![r] = FALSE]
  /\ UNCHANGED <<req, stream, log>>

\* The timer of a request whose client left takes the process down.
Dies(r) ==
  /\ ~connected[r]
  /\ state' = "DRAINING"
  /\ UNCHANGED <<req, connected, stream, log>>

\* The worker neither begins to drain nor leaves off.
StateKept == state' = state \/ (state = "READY" /\ state' = "ACCEPTING")

\* An emit that throws in the middle of a run breaks it off.
LEMMA AbandonBreaks ==
  ASSUME TypeOK, NEW r \in Request, req[r] = "running", EmitThrows(r),
         Abandon(r), UNCHANGED connected
  PROVE  Breaks(r)
<1>1. Send(r, <<>>)
  BY SendNothing DEF Abandon
<1>2. Record(r, <<>>)
  BY RecordNothing DEF Abandon
<1> QED
  BY <1>1, <1>2 DEF Breaks, Told, Abandon, Finish

\* Every step is one of these, or says nothing to anybody.
LEMMA StoryKinds ==
  ASSUME TypeOK, ClientInv, [Next]_vars
  PROVE  \/ \E r \in Request : Announces(r) \/ Dies(r)
         \/ /\ StateKept
            /\ \E r \in Request : \/ Opens(r) \/ Turns(r) \/ Speaks(r) \/ Mentions(r)
                                \/ Closes(r) \/ Breaks(r) \/ Leaves(r)
         \/ StateKept /\ UNCHANGED <<req, connected, stream, log>>
<1>1. ASSUME NEW r \in Request, Accept(r)
      PROVE  StateKept /\ Opens(r)
  BY <1>1 DEF Accept, Transition, Opens, Told, StateKept
<1>2. ASSUME NEW r \in Request, RefuseBusy(r)
      PROVE  StateKept /\ Turns(r)
  <2>1. Send(r, <<>>)
    BY <1>2, SendNothing DEF RefuseBusy
  <2>2. Record(r, <<>>)
    BY <1>2, RecordNothing DEF RefuseBusy
  <2> QED
    BY <1>2, <2>1, <2>2 DEF RefuseBusy, Turns, Told, StateKept
<1>3. ASSUME NEW r \in Request, RefusePayload(r) \/ RefuseDuplicate(r)
      PROVE  StateKept /\ Turns(r)
  <2>1. PICK type \in {"ERROR", "DUPLICATE_TASK"} : RefuseOnStream(r, type)
    BY <1>3 DEF RefusePayload, RefuseDuplicate
  <2>2. Record(r, <<>>)
    BY <2>1, RecordNothing DEF RefuseOnStream
  <2>3. Told(r, "idle", <<Ev(type, r)>>, <<>>, "refused")
    BY <2>1, <2>2 DEF RefuseOnStream, Told
  <2> QED
    BY <2>1, <2>3 DEF RefuseOnStream, Turns, StateKept
<1>4. ASSUME NEW r \in Request, req[r] = "running", UNCHANGED req
      PROVE  req' = [req EXCEPT ![r] = "running"]
  BY <1>4 DEF TypeOK
<1>5. ASSUME NEW r \in Request, L0Event(r)
      PROVE  StateKept /\ Mentions(r)
  <2>1. Record(r, <<>>)
    BY <1>5, RecordNothing DEF L0Event
  <2> QED
    BY <1>4, <1>5, <2>1 DEF L0Event, Told, Mentions, StateKept
<1>6. ASSUME NEW r \in Request, FirstToken(r)
      PROVE  StateKept /\ (Speaks(r) \/ Breaks(r))
  <2>1. CASE EmitThrows(r)
    BY <1>6, <2>1, AbandonBreaks DEF FirstToken, StateKept
  <2>2. CASE ~EmitThrows(r)
    BY <1>4, <1>6, <2>2 DEF FirstToken, Speaks, Told, StateKept
  <2> QED
    BY <2>1, <2>2
<1>7. ASSUME NEW r \in Request, Complete(r) \/ Fail(r)
      PROVE  StateKept /\ (Closes(r) \/ Breaks(r))
  <2>1. PICK events \in LastWords(r) : Settle(r, events)
    BY <1>7 DEF Complete, Fail, LastWords
  <2>2. req[r] = "running" /\ UNCHANGED connected /\ StateKept
    BY <1>7 DEF Complete, Fail, StateKept
  <2>3. CASE EmitThrows(r)
    BY <2>1, <2>2, <2>3, AbandonBreaks DEF Settle
  <2>4. CASE ~EmitThrows(r)
    <3>1. Told(r, "running", Append(events, Ev("DONE", r)), events, "ended")
      BY <2>1, <2>2, <2>4 DEF Settle, Finish, Told
    <3> QED
      BY <2>2, <2>4, <3>1 DEF Closes
  <2> QED
    BY <2>3, <2>4
<1>8. ASSUME NEW r \in Request, Disconnect(r)
      PROVE  StateKept /\ Leaves(r)
  BY <1>8 DEF Disconnect, Leaves, StateKept
<1>9. ASSUME NEW r \in Request, DrainTimerFires(r)
      PROVE  \/ Announces(r) \/ Dies(r)
             \/ StateKept /\ UNCHANGED <<req, connected, stream, log>>
  <2>1. CASE state = "DRAINING"
    BY <1>9, <2>1 DEF DrainTimerFires, StateKept
  <2>2. CASE state # "DRAINING" /\ EmitThrows(r)
    BY <1>9, <2>2 DEF DrainTimerFires, Transition, EmitThrows, Dies
  <2>3. CASE state # "DRAINING" /\ ~EmitThrows(r)
    <3>1. Record(r, <<>>)
      BY <1>9, RecordNothing DEF DrainTimerFires
    <3>2. req[r] = "running"
      BY <1>9 DEF DrainTimerFires, ClientInv
    <3> QED
      BY <1>4, <1>9, <2>3, <3>1, <3>2 DEF DrainTimerFires, Transition, Told, Announces
  <2> QED
    BY <2>1, <2>2, <2>3
<1>10. ASSUME NEW n \in CapUpdate, UpdateConfig(n)
       PROVE  StateKept /\ UNCHANGED <<req, connected, stream, log>>
  BY <1>10 DEF UpdateConfig, StateKept
<1>11. ASSUME NEW d \in Drain, StartDrain(d) \/ EndDrain(d)
       PROVE  StateKept /\ UNCHANGED <<req, connected, stream, log>>
  BY <1>11 DEF StartDrain, EndDrain, taskVars, StateKept
<1>12. CASE UNCHANGED vars
  BY <1>12 DEF vars, StateKept
<1> QED
  BY <1>1, <1>2, <1>3, <1>5, <1>6, <1>7, <1>8, <1>9, <1>10, <1>11, <1>12
     DEF Next, SubmitStep, RunStep

-----------------------------------------------------------------------------
(* The stories stay well formed and are told as they are recorded *)

LEMMA PrefixGrows ==
  ASSUME NEW S, NEW s \in Seq(S), NEW t \in Seq(S), NEW u \in Seq(S)
  PROVE  /\ IsPrefix(t, t)
         /\ IsPrefix(s, t) => IsPrefix(s, t \o u)
<1>1. IsPrefix(t, t)
  BY DEF IsPrefix
<1>2. ASSUME IsPrefix(s, t) PROVE IsPrefix(s, t \o u)
  BY <1>2 DEF IsPrefix
<1> QED
  BY <1>1, <1>2

LEMMA StoryKept ==
  ASSUME TypeOK, StoryInv,
         NEW r \in Request, NEW was, NEW now,
         NEW sent \in Seq(StreamEvent), NEW logged \in Seq(RunEvent(r)),
         Told(r, was, sent, logged, now),
         Only(sent, RecordedEvent) = logged,
         connected[r] \/ Deployment # "standalone" \/ logged = <<>>,
         Tale(RunLog(r) \o logged, now),
         now = "running" /\ OrderKind[r] # "stream"
           => Len(RunLog(r) \o logged) = 1
  PROVE  StoryInv'
<1>1. \A x \in Request :
        RunLog(x)' = IF x = r THEN RunLog(r) \o logged ELSE RunLog(x)
  BY LogTold DEF Told
<1>2. \A x \in Request : Sent(x)' =
        IF x = r /\ connected[r] THEN Sent(r) \o logged ELSE Sent(x)
  BY StreamTold DEF Told
<1>3. \A x \in Request : req'[x] = IF x = r THEN now ELSE req[x]
  BY DEF Told, TypeOK
<1>4. RunLogWellFormed'
  <2> SUFFICES ASSUME NEW x \in Request PROVE Tale(RunLog(x)', req'[x])
    BY DEF RunLogWellFormed, Tale
  <2>1. Tale(RunLog(x), req[x])
    BY DEF StoryInv, RunLogWellFormed, Tale
  <2> QED
    BY <1>1, <1>3, <2>1
<1>5. FirstTokenIsStreamed'
  <2> SUFFICES ASSUME NEW x \in Request, req'[x] = "running",
                      OrderKind[x] # "stream"
               PROVE  Len(RunLog(x)') = 1
    BY DEF FirstTokenIsStreamed
  <2> QED
    BY <1>1, <1>3 DEF StoryInv, FirstTokenIsStreamed
<1>6. StreamMatchesLog'
  <2> SUFFICES ASSUME NEW x \in Request
               PROVE  /\ IsPrefix(Sent(x)', RunLog(x)')
                      /\ connected[x] \/ Deployment = "standalone"
                           => Sent(x)' = RunLog(x)'
    BY DEF StreamMatchesLog, Sent, Told
  <2>1. /\ IsPrefix(Sent(x), RunLog(x))
        /\ connected[x] \/ Deployment = "standalone" => Sent(x) = RunLog(x)
    BY DEF StoryInv, StreamMatchesLog, Sent
  <2>2. RunLog(x) \in Seq(StreamEvent) /\ logged \in Seq(StreamEvent)
    BY RunLogType, RunEvents
  <2>3. Sent(x) \in Seq(StreamEvent)
    <3>1. stream[x] \in Seq(StreamEvent)
      BY DEF TypeOK
    <3>2. Sent(x) \in Seq(StreamEvent \cap RecordedEvent)
      BY <3>1, OnlyType DEF Sent
    <3> QED
      BY <3>2
  <2>4. CASE x # r
    BY <1>1, <1>2, <2>1, <2>4
  <2>5. CASE x = r /\ connected[r]
    <3>1. Sent(r) = RunLog(r)
      BY <2>1, <2>5
    <3>2. Sent(r)' = RunLog(r)'
      BY <1>1, <1>2, <2>5, <3>1, Zenon
    <3>3. RunLog(r)' \in Seq(StreamEvent)
      <4>1. RunLog(r) \o logged \in Seq(StreamEvent)
        BY <2>2, <2>5, ConcatIs
      <4>2. RunLog(r)' = RunLog(r) \o logged
        BY <1>1
      <4> QED
        BY <4>1, <4>2, Zenon
    <3>4. IsPrefix(RunLog(r)', RunLog(r)')
      BY <3>3, PrefixGrows
    <3> QED
      BY <2>5, <3>2, <3>4, Zenon
  <2>6. CASE x = r /\ ~connected[r]
    <3>1. Sent(r)' = Sent(r)
      BY <1>2, <2>6
    <3>2. RunLog(r)' = RunLog(r) \o logged
      BY <1>1
    <3>3. IsPrefix(Sent(r), RunLog(r) \o logged)
      BY <2>1, <2>2, <2>3, <2>6, PrefixGrows
    <3>4. ASSUME Deployment = "standalone" PROVE Sent(r)' = RunLog(r)'
      <4>1. logged = <<>>
        BY <2>6, <3>4
      <4>2. RunLog(r) \o <<>> = RunLog(r)
        BY <2>2, <2>6
      <4> QED
        BY <2>1, <2>6, <3>1, <3>2, <3>4, <4>1, <4>2
    <3> QED
      BY <2>6, <3>1, <3>2, <3>3, <3>4
  <2> QED
    BY <2>4, <2>5, <2>6
<1> QED
  BY <1>4, <1>5, <1>6 DEF StoryInv

\* Nothing was recorded of a request that did not get to run.
LEMMA StoryBegins ==
  ASSUME StoryInv, NEW r \in Request
  PROVE  /\ Tale(RunLog(r), req[r])
         /\ req[r] = "idle" => RunLog(r) = <<>>
BY DEF StoryInv, RunLogWellFormed, Tale

\* Only recorded events, and all of them, are of the recorded types.
LEMMA OnlyOfMarks ==
  ASSUME NEW r \in Request, NEW type \in StreamTypes \ RecordedTypes
  PROVE  /\ <<Ev(type, r)>> \in Seq(StreamEvent)
         /\ Only(<<Ev(type, r)>>, RecordedEvent) = <<>>
<1> DEFINE e == Ev(type, r)
<1>1. e \in StreamEvent /\ {e} \cap RecordedEvent = {}
  BY DEF Ev, StreamEvent, RecordedEvent
<1> HIDE DEF e
<1>2. <<e>> \in Seq({e}) /\ <<e>> \in Seq(StreamEvent)
  BY <1>1
<1>3. Only(<<e>>, RecordedEvent) = <<>>
  BY <1>1, <1>2, OnlyNone
<1> QED
  BY <1>2, <1>3 DEF e

LEMMA OnlyOfRecorded ==
  ASSUME NEW r \in Request, NEW logged \in Seq(RunEvent(r))
  PROVE  /\ logged \in Seq(StreamEvent)
         /\ Only(logged, RecordedEvent) = logged
         /\ Append(logged, Ev("DONE", r)) \in Seq(StreamEvent)
         /\ Only(Append(logged, Ev("DONE", r)), RecordedEvent) = logged
<1> DEFINE e == Ev("DONE", r)
<1>1. e \in StreamEvent /\ e \notin RecordedEvent
  BY DEF Ev, StreamEvent, StreamTypes, RecordedEvent, RecordedTypes
<1> HIDE DEF e
<1>2. logged \in Seq(StreamEvent) /\ logged \in Seq(RecordedEvent)
  BY RunEvents
<1>3. Only(logged, RecordedEvent) = logged
  BY <1>2, OnlyAll
<1>4. Only(Append(logged, e), RecordedEvent) = Only(logged, RecordedEvent)
  BY <1>1, <1>2, OnlyAppend
<1>5. Append(logged, e) \in Seq(StreamEvent)
  BY <1>1, <1>2
<1> QED
  BY <1>2, <1>3, <1>4, <1>5 DEF e

LEMMA StoryStep ==
  ASSUME TypeOK, StoryInv, ClientInv, [Next]_vars
  PROVE  StoryInv'
<1>1. ASSUME NEW r \in Request, Opens(r)
      PROVE  StoryInv'
  <2> DEFINE logged == <<Ev("TASK_ACCEPTED", r)>>
  <2>1. logged \in Seq(RunEvent(r)) /\ Tale(logged, "running") /\ Len(logged) = 1
    BY TaleBegins
  <2>2. Told(r, "idle", logged, logged, "running")
    BY <1>1 DEF Opens
  <2> HIDE DEF logged
  <2>3. RunLog(r) = <<>> /\ connected[r]
    BY <2>2, StoryBegins DEF Told, ClientInv
  <2>4. RunLog(r) \o logged = logged
    BY <2>1, <2>3
  <2>5. logged \in Seq(StreamEvent) /\ Only(logged, RecordedEvent) = logged
    BY <2>1, OnlyOfRecorded
  <2>6. Tale(RunLog(r) \o logged, "running") /\ Len(RunLog(r) \o logged) = 1
    BY <2>1, <2>4, Zenon
  <2> QED
    BY <2>1, <2>2, <2>3, <2>5, <2>6, StoryKept
<1>2. ASSUME NEW r \in Request, NEW was, NEW now, NEW sent \in Seq(StreamEvent),
             Only(sent, RecordedEvent) = <<>>, Told(r, was, sent, <<>>, now),
             Tale(RunLog(r), now),
             now = "running" /\ OrderKind[r] # "stream" => Len(RunLog(r)) = 1
      PROVE  StoryInv'
  <2>1. RunLog(r) \o <<>> = RunLog(r)
    BY RunLogType
  <2>2. <<>> \in Seq(RunEvent(r))
    OBVIOUS
  <2> DEFINE none == <<>>
  <2> HIDE DEF none
  <2>3. none \in Seq(RunEvent(r)) /\ none = <<>>
    BY <2>2 DEF none
  <2>4. /\ Told(r, was, sent, none, now)
        /\ Only(sent, RecordedEvent) = none
        /\ Tale(RunLog(r) \o none, now)
        /\ now = "running" /\ OrderKind[r] # "stream" => Len(RunLog(r) \o none) = 1
    BY <1>2, <2>1, <2>3, Zenon
  <2> QED
    BY <2>3, <2>4, StoryKept
<1>3. Only(<<>>, RecordedEvent) = <<>> /\ <<>> \in Seq(StreamEvent)
  BY OnlyEmpty
<1>4. ASSUME NEW r \in Request, Turns(r)
      PROVE  StoryInv'
  <2>1. PICK sent \in {<<>>, <<Ev("ERROR", r)>>, <<Ev("DUPLICATE_TASK", r)>>} :
          Told(r, "idle", sent, <<>>, "refused")
    BY <1>4 DEF Turns
  <2>2. sent \in Seq(StreamEvent) /\ Only(sent, RecordedEvent) = <<>>
    <3>1. "ERROR" \in StreamTypes \ RecordedTypes
          /\ "DUPLICATE_TASK" \in StreamTypes \ RecordedTypes
      BY DEF StreamTypes, RecordedTypes, TerminalTypes
    <3> QED
      BY <1>3, <2>1, <3>1, OnlyOfMarks, Zenon
  <2>3. RunLog(r) = <<>>
    BY <2>1, StoryBegins DEF Told
  <2>4. Tale(RunLog(r), "refused")
    BY <2>3 DEF Tale
  <2> QED
    BY <1>2, <2>1, <2>2, <2>4
<1>5. ASSUME NEW r \in Request, Speaks(r)
      PROVE  StoryInv'
  <2> DEFINE logged == <<Ev("FIRST_TOKEN", r)>>
  <2>1. Told(r, "running", logged, logged, "running")
    BY <1>5 DEF Speaks
  <2>2. Tale(RunLog(r), "running")
    BY <2>1, StoryBegins DEF Told
  <2>3. Len(RunLog(r)) = 1 /\ RunLog(r) \in Seq(RunEvent(r))
    BY <1>5, <2>2, BeforeFirstToken, RunLogType DEF Speaks
  <2>4. logged \in Seq(RunEvent(r)) /\ Tale(RunLog(r) \o logged, "running")
    BY <2>2, <2>3, TaleGoes
  <2>5. OrderKind[r] = "stream" /\ (connected[r] \/ Deployment # "standalone")
    BY <1>5 DEF Speaks, EmitThrows
  <2> HIDE DEF logged
  <2>6. logged \in Seq(StreamEvent) /\ Only(logged, RecordedEvent) = logged
    BY <2>4, OnlyOfRecorded
  <2> QED
    BY <2>1, <2>4, <2>5, <2>6, StoryKept
<1>6. ASSUME NEW r \in Request, Mentions(r) \/ Announces(r)
      PROVE  StoryInv'
  <2>1. PICK type \in {"L0_EVENT", "WORKER_DRAINING"} :
          Told(r, "running", <<Ev(type, r)>>, <<>>, "running")
    BY <1>6 DEF Mentions, Announces
  <2>2. type \in StreamTypes \ RecordedTypes
    BY <2>1 DEF StreamTypes, RecordedTypes, TerminalTypes
  <2>3. /\ <<Ev(type, r)>> \in Seq(StreamEvent)
        /\ Only(<<Ev(type, r)>>, RecordedEvent) = <<>>
    BY <2>2, OnlyOfMarks
  <2>4. Tale(RunLog(r), "running")
    BY <2>1, StoryBegins DEF Told
  <2>5. OrderKind[r] # "stream" => Len(RunLog(r)) = 1
    BY <2>1 DEF Told, StoryInv, FirstTokenIsStreamed
  <2> DEFINE sent == <<Ev(type, r)>>
  <2> HIDE DEF sent
  <2>6. /\ sent \in Seq(StreamEvent) /\ Only(sent, RecordedEvent) = <<>>
        /\ Told(r, "running", sent, <<>>, "running")
    BY <2>1, <2>3, Zenon DEF sent
  <2> QED
    BY <1>2, <2>4, <2>5, <2>6
<1>7. ASSUME NEW r \in Request, Closes(r)
      PROVE  StoryInv'
  <2>1. PICK events \in LastWords(r) :
          Told(r, "running", Append(events, Ev("DONE", r)), events, "ended")
    BY <1>7 DEF Closes
  <2>2. Tale(RunLog(r), "running") /\ RunLog(r) \in Seq(RunEvent(r))
    BY <2>1, StoryBegins, RunLogType DEF Told
  <2>3. OrderKind[r] = "race" => Len(RunLog(r)) = 1
    BY <2>1 DEF Told, StoryInv, FirstTokenIsStreamed
  <2>4. events \in Seq(RunEvent(r)) /\ Tale(RunLog(r) \o events, "ended")
    BY <2>2, <2>3, TaleEnds
  <2> DEFINE sent == Append(events, Ev("DONE", r))
  <2>5. sent \in Seq(StreamEvent) /\ Only(sent, RecordedEvent) = events
    BY <2>4, OnlyOfRecorded
  <2> HIDE DEF sent
  <2>6. Told(r, "running", sent, events, "ended")
    BY <2>1 DEF sent
  <2>7. connected[r] \/ Deployment # "standalone"
    BY <1>7 DEF Closes, EmitThrows
  <2> QED
    BY <2>4, <2>5, <2>6, <2>7, StoryKept
<1>8. ASSUME NEW r \in Request, Breaks(r)
      PROVE  StoryInv'
  <2>1. Told(r, "running", <<>>, <<>>, "ended")
    BY <1>8 DEF Breaks
  <2>2. Tale(RunLog(r), "ended")
    BY <2>1, StoryBegins, TaleStops DEF Told
  <2> DEFINE sent == <<>>
  <2> HIDE DEF sent
  <2>3. /\ sent \in Seq(StreamEvent) /\ Only(sent, RecordedEvent) = <<>>
        /\ Told(r, "running", sent, <<>>, "ended")
    BY <1>3, <2>1, Zenon DEF sent
  <2> QED
    BY <1>2, <2>2, <2>3
<1>9. ASSUME NEW r \in Request, Leaves(r)
      PROVE  StoryInv'
  <2>1. \A x \in Request : connected'[x] => connected[x]
    BY <1>9 DEF Leaves, TypeOK
  <2> QED
    BY <1>9, <2>1 DEF Leaves, StoryInv, RunLogWellFormed, FirstTokenIsStreamed,
       StreamMatchesLog, RunLog
<1>10. CASE UNCHANGED <<req, connected, stream, log>>
  BY <1>10 DEF StoryInv, RunLogWellFormed, FirstTokenIsStreamed,
     StreamMatchesLog, RunLog
<1> QED
  BY <1>1, <1>4, <1>5, <1>6, <1>7, <1>8, <1>9, <1>10, StoryKinds DEF Dies

-----------------------------------------------------------------------------
(* The stream stays open while the run goes on, and ends with its end *)

\* No terminal event and no [DONE] yet.
Open(s) == \A i \in 1..Len(s) : s[i].type \notin TerminalTypes \cup {"DONE"}

\* A terminal event and [DONE], and nothing after them.
Closed(s) ==
  LET n == Len(s) IN
  /\ n >= 2
  /\ s[n].type = "DONE"
  /\ s[n - 1].type \in TerminalTypes
  /\ \A i \in 1..(n - 2) : s[i].type \notin TerminalTypes \cup {"DONE"}

LEMMA OpenGrows ==
  ASSUME NEW s \in Seq(StreamEvent), Open(s), NEW r \in Request,
         NEW type \in StreamTypes \ (TerminalTypes \cup {"DONE"})
  PROVE  Open(s \o <<Ev(type, r)>>)
<1> DEFINE e == Ev(type, r)
           z == s \o <<e>>
<1>1. e \in StreamEvent /\ e.type = type
  BY DEF Ev, StreamEvent
<1> HIDE DEF e
<1>2. Len(z) = Len(s) + 1 /\ z[Len(s) + 1] = e /\ Len(s) \in Nat
      /\ \A i \in 1..Len(s) : z[i] = s[i]
  <2>1. <<e>> \in Seq(StreamEvent) /\ Len(<<e>>) = 1 /\ <<e>>[1] = e
    BY <1>1
  <2>2. /\ Len(z) = Len(s) + Len(<<e>>)
        /\ \A i \in 1..Len(s) : z[i] = s[i]
        /\ \A i \in 1..Len(<<e>>) : z[Len(s) + i] = <<e>>[i]
    BY <2>1, ConcatIs
  <2> HIDE DEF z
  <2> QED
    BY <2>1, <2>2
<1> HIDE DEF z
<1>3. Open(z)
  BY <1>1, <1>2 DEF Open
<1> QED
  BY <1>3 DEF z, e

LEMMA OpenCloses ==
  ASSUME NEW s \in Seq(StreamEvent), Open(s), NEW r \in Request,
         NEW events \in Seq(RunEvent(r)), events # <<>>,
         events[Len(events)].type \in TerminalTypes,
         \A i \in 1..Len(events) - 1 : events[i].type \notin TerminalTypes
  PROVE  Closed(s \o Append(events, Ev("DONE", r)))
<1> DEFINE e == Ev("DONE", r)
           u == Append(events, e)
           z == s \o u
           k == Len(s)
           m == Len(events)
<1>1. e \in StreamEvent /\ e.type = "DONE"
  BY DEF Ev, StreamEvent, StreamTypes
<1>2. \A i \in 1..m : events[i].type # "DONE"
  <2>1. \A x \in RunEvent(r) : x.type # "DONE"
    BY DEF RunEvent, RecordedTypes
  <2> QED
    BY <2>1
<1> HIDE DEF e
<1>3. events \in Seq(StreamEvent)
  BY RunEvents
<1>4. k \in Nat /\ m \in Nat /\ m > 0
  BY <1>3, LenZero
<1>5. /\ u \in Seq(StreamEvent) /\ Len(u) = m + 1 /\ u[m + 1] = e
      /\ \A i \in 1..m : u[i] = events[i]
  BY <1>1, <1>3
<1> HIDE DEF u
<1>6. /\ Len(z) = k + Len(u)
      /\ \A i \in 1..k : z[i] = s[i]
      /\ \A i \in 1..Len(u) : z[k + i] = u[i]
  <2>1. u \in Seq(StreamEvent)
    BY <1>5
  <2>2. /\ Len(s \o u) = Len(s) + Len(u)
        /\ \A i \in 1..Len(s) : (s \o u)[i] = s[i]
        /\ \A i \in 1..Len(u) : (s \o u)[Len(s) + i] = u[i]
    BY <2>1, ConcatIs
  <2> QED
    BY <2>2, Zenon
<1> HIDE DEF z
<1>7. Len(z) = k + m + 1 /\ z[k + m + 1] = e /\ z[k + m] = events[m]
  <2>1. m + 1 \in 1..Len(u) /\ m \in 1..Len(u) /\ m \in 1..m
    BY <1>4, <1>5
  <2>2. z[k + (m + 1)] = u[m + 1] /\ z[k + m] = u[m] /\ u[m] = events[m]
    BY <1>5, <1>6, <2>1
  <2> QED
    BY <1>4, <1>5, <1>6, <2>2
<1>8. ASSUME NEW i \in 1..(k + m - 1)
      PROVE  z[i].type \notin TerminalTypes \cup {"DONE"}
  <2>1. CASE i <= k
    BY <1>4, <1>6, <2>1 DEF Open
  <2>2. CASE i > k
    <3> DEFINE j == i - k
    <3>1. j \in 1..m - 1 /\ j \in 1..m /\ j \in 1..Len(u) /\ k + j = i
      BY <1>4, <1>5, <2>2
    <3> HIDE DEF j
    <3>2. z[k + j] = u[j] /\ u[j] = events[j]
      BY <1>5, <1>6, <3>1
    <3>3. events[j].type \notin TerminalTypes /\ events[j].type # "DONE"
      BY <1>2, <3>1
    <3> QED
      BY <3>1, <3>2, <3>3
  <2> QED
    BY <1>4, <2>1, <2>2
<1>9. Len(z) - 1 = k + m /\ Len(z) - 2 = k + m - 1 /\ Len(z) >= 2
  BY <1>4, <1>7
<1> HIDE DEF k, m
<1>10. Closed(z)
  BY <1>1, <1>7, <1>8, <1>9 DEF Closed, m
<1> QED
  BY <1>10 DEF z, u, e

\* What ClientInv says of a request of standing v, its client c and stream s,
\* the timers apart.
Fine(v, c, s) ==
  /\ v \in {"idle", "refused"} => c
  /\ v \in {"idle", "running"} => Open(s)
  /\ v = "ended" /\ c => Closed(s)

\* The timers that are set are those of runs in progress.
LEMMA ArmedStep ==
  ASSUME TypeOK, ClientInv, [Next]_vars
  PROVE  \A r \in armed' : req'[r] = "running"
<1> USE DEF ClientInv
<1>1. ASSUME NEW r \in Request, Accept(r)
      PROVE  \A x \in armed' : req'[x] = "running"
  BY <1>1 DEF Accept, TypeOK
<1>2. ASSUME NEW r \in Request, RefuseBusy(r) \/ RefusePayload(r) \/ RefuseDuplicate(r)
      PROVE  \A x \in armed' : req'[x] = "running"
  <2>1. req[r] = "idle" /\ req' = [req EXCEPT ![r] = "refused"] /\ UNCHANGED armed
    BY <1>2 DEF RefuseBusy, RefusePayload, RefuseDuplicate, RefuseOnStream
  <2> QED
    BY <2>1 DEF TypeOK
<1>3. ASSUME NEW r \in Request, Finish(r)
      PROVE  \A x \in armed' : req'[x] = "running"
  BY <1>3 DEF Finish, TypeOK
<1>4. ASSUME NEW r \in Request, RunStep(r)
      PROVE  \/ Finish(r)
             \/ UNCHANGED req /\ armed' \subseteq armed
  BY <1>4 DEF RunStep, L0Event, FirstToken, Complete, Fail, Settle, Abandon,
     Disconnect, DrainTimerFires
<1>5. ASSUME NEW n \in CapUpdate, UpdateConfig(n)
      PROVE  UNCHANGED <<req, armed>>
  BY <1>5 DEF UpdateConfig
<1>6. ASSUME NEW d \in Drain, StartDrain(d) \/ EndDrain(d)
      PROVE  UNCHANGED <<req, armed>>
  BY <1>6 DEF StartDrain, EndDrain, taskVars
<1>7. CASE UNCHANGED vars
  BY <1>7 DEF vars
<1> QED
  BY <1>1, <1>2, <1>3, <1>4, <1>5, <1>6, <1>7 DEF Next, SubmitStep

LEMMA ClientStep ==
  ASSUME TypeOK, StoryInv, ClientInv, [Next]_vars
  PROVE  ClientInv'
<1>1. \A r \in armed' : req'[r] = "running"
  BY ArmedStep
<1>2. \A x \in Request : Fine(req[x], connected[x], stream[x])
  BY DEF ClientInv, StayingClientSeesTheEnd, Open, Closed, Fine
<1>3. SUFFICES \A x \in Request : Fine(req'[x], connected'[x], stream'[x])
  BY <1>1 DEF ClientInv, StayingClientSeesTheEnd, Open, Closed, Fine
\* A step of one request's concerns that request alone.
<1>4. ASSUME NEW r \in Request, NEW was, NEW now, NEW sent \in Seq(StreamEvent),
             NEW logged, Told(r, was, sent, logged, now),
             Fine(now, connected[r],
                  IF connected[r] THEN stream[r] \o sent ELSE stream[r])
      PROVE  \A x \in Request : Fine(req'[x], connected'[x], stream'[x])
  <2>1. \A x \in Request : req'[x] = IF x = r THEN now ELSE req[x]
    BY <1>4 DEF Told, TypeOK
  <2>2. \A x \in Request :
          stream'[x] = IF x = r /\ connected[r] THEN stream[r] \o sent
                       ELSE stream[x]
    BY <1>4, StreamTold DEF Told
  <2>3. UNCHANGED connected
    BY <1>4 DEF Told
  <2> SUFFICES ASSUME NEW x \in Request
               PROVE  Fine(req'[x], connected'[x], stream'[x])
    OBVIOUS
  <2>4. CASE x # r
    <3>1. req'[x] = req[x] /\ connected'[x] = connected[x] /\ stream'[x] = stream[x]
      BY <2>1, <2>2, <2>3, <2>4
    <3> QED
      BY <1>2, <3>1, Zenon
  <2>5. CASE x = r
    <3>1. /\ req'[r] = now /\ connected'[r] = connected[r]
          /\ stream'[r] = IF connected[r] THEN stream[r] \o sent ELSE stream[r]
      BY <2>1, <2>2, <2>3
    <3> QED
      BY <1>4, <2>5, <3>1, Zenon
  <2> QED
    BY <2>4, <2>5
<1>5. \A x \in Request : stream[x] \in Seq(StreamEvent)
  BY DEF TypeOK
\* An event that ends nothing, on an open stream.
<1>6. ASSUME NEW r \in Request, req[r] \in {"idle", "running"},
             NEW type \in StreamTypes \ (TerminalTypes \cup {"DONE"})
      PROVE  /\ <<Ev(type, r)>> \in Seq(StreamEvent)
             /\ Fine("running", connected[r],
                     IF connected[r] THEN stream[r] \o <<Ev(type, r)>> ELSE stream[r])
  <2>1. Ev(type, r) \in StreamEvent
    BY EventTypes
  <2>2. Open(stream[r])
    BY <1>2, <1>6 DEF Fine
  <2>3. Open(stream[r] \o <<Ev(type, r)>>)
    BY <1>5, <2>2, OpenGrows
  <2> DEFINE e == Ev(type, r)
  <2> HIDE DEF e
  <2>4. <<e>> \in Seq(StreamEvent)
    BY <2>1 DEF e
  <2> QED
    BY <2>2, <2>3, <2>4 DEF Fine, e
<1>7. {"TASK_ACCEPTED", "FIRST_TOKEN", "L0_EVENT", "WORKER_DRAINING"}
        \subseteq StreamTypes \ (TerminalTypes \cup {"DONE"})
  BY DEF StreamTypes, RecordedTypes, TerminalTypes
<1>8. ASSUME NEW r \in Request,
             Opens(r) \/ Speaks(r) \/ Mentions(r) \/ Announces(r)
      PROVE  \A x \in Request : Fine(req'[x], connected'[x], stream'[x])
  <2>1. PICK type \in {"TASK_ACCEPTED", "FIRST_TOKEN", "L0_EVENT", "WORKER_DRAINING"},
             was \in {"idle", "running"} :
          \E logged : Told(r, was, <<Ev(type, r)>>, logged, "running")
    BY <1>8 DEF Opens, Speaks, Mentions, Announces
  <2>2. req[r] \in {"idle", "running"}
    BY <2>1 DEF Told
  <2>3. type \in StreamTypes \ (TerminalTypes \cup {"DONE"})
    BY <1>7
  <2> DEFINE sent == <<Ev(type, r)>>
  <2>4. /\ sent \in Seq(StreamEvent)
        /\ Fine("running", connected[r],
                IF connected[r] THEN stream[r] \o sent ELSE stream[r])
    BY <1>6, <2>2, <2>3
  <2>5. PICK logged : Told(r, was, sent, logged, "running")
    BY <2>1
  <2> HIDE DEF sent
  <2> QED
    BY <1>4, <2>4, <2>5
<1>9. ASSUME NEW r \in Request, Turns(r)
      PROVE  \A x \in Request : Fine(req'[x], connected'[x], stream'[x])
  <2>1. PICK sent \in {<<>>, <<Ev("ERROR", r)>>, <<Ev("DUPLICATE_TASK", r)>>} :
          Told(r, "idle", sent, <<>>, "refused")
    BY <1>9 DEF Turns
  <2>2. sent \in Seq(StreamEvent)
    <3>1. "ERROR" \in StreamTypes \ RecordedTypes
          /\ "DUPLICATE_TASK" \in StreamTypes \ RecordedTypes
      BY DEF StreamTypes, RecordedTypes, TerminalTypes
    <3>2. <<>> \in Seq(StreamEvent)
      OBVIOUS
    <3> QED
      BY <2>1, <3>1, <3>2, OnlyOfMarks, Zenon
  <2>3. connected[r]
    BY <1>2, <2>1 DEF Told, Fine
  <2>4. Fine("refused", connected[r],
             IF connected[r] THEN stream[r] \o sent ELSE stream[r])
    BY <2>3 DEF Fine
  <2> QED
    BY <1>4, <2>1, <2>2, <2>4
<1>10. ASSUME NEW r \in Request, Closes(r)
       PROVE  \A x \in Request : Fine(req'[x], connected'[x], stream'[x])
  <2>1. PICK events \in LastWords(r) :
          Told(r, "running", Append(events, Ev("DONE", r)), events, "ended")
    BY <1>10 DEF Closes
  <2>2. Tale(RunLog(r), "running") /\ RunLog(r) \in Seq(RunEvent(r))
    BY <2>1, StoryBegins, RunLogType DEF Told
  <2>3. OrderKind[r] = "race" => Len(RunLog(r)) = 1
    BY <2>1 DEF Told, StoryInv, FirstTokenIsStreamed
  <2>4. /\ events \in Seq(RunEvent(r))
        /\ events # <<>>
        /\ events[Len(events)].type \in TerminalTypes
        /\ \A i \in 1..Len(events) - 1 : events[i].type \notin TerminalTypes
    BY <2>2, <2>3, TaleEnds
  <2>5. Open(stream[r])
    BY <1>2, <2>1 DEF Fine, Told
  <2> DEFINE sent == Append(events, Ev("DONE", r))
  <2>6. sent \in Seq(StreamEvent)
    BY <2>4, OnlyOfRecorded
  <2>7. Closed(stream[r] \o sent)
    BY <1>5, <2>4, <2>5, OpenCloses
  <2>8. Told(r, "running", sent, events, "ended")
    BY <2>1
  <2> HIDE DEF sent
  <2>9. Fine("ended", connected[r],
             IF connected[r] THEN stream[r] \o sent ELSE stream[r])
    BY <2>7 DEF Fine
  <2> QED
    BY <1>4, <2>6, <2>8, <2>9
<1>11. ASSUME NEW r \in Request, Breaks(r)
       PROVE  \A x \in Request : Fine(req'[x], connected'[x], stream'[x])
  <2> DEFINE sent == <<>>
  <2>1. Told(r, "running", sent, <<>>, "ended") /\ ~connected[r]
    BY <1>11 DEF Breaks, EmitThrows
  <2>2. sent \in Seq(StreamEvent)
    OBVIOUS
  <2> HIDE DEF sent
  <2>3. Fine("ended", connected[r],
             IF connected[r] THEN stream[r] \o sent ELSE stream[r])
    BY <2>1 DEF Fine
  <2> QED
    BY <1>4, <2>1, <2>2, <2>3
<1>12. ASSUME NEW r \in Request, Leaves(r)
       PROVE  \A x \in Request : Fine(req'[x], connected'[x], stream'[x])
  <2>1. /\ UNCHANGED <<req, stream>> /\ req[r] = "running"
        /\ \A x \in Request : connected'[x] = IF x = r THEN FALSE ELSE connected[x]
    BY <1>12 DEF Leaves, TypeOK
  <2> QED
    BY <1>2, <2>1 DEF Fine
<1>13. CASE UNCHANGED <<req, connected, stream, log>>
  BY <1>2, <1>13
<1> QED
  BY <1>8, <1>9, <1>10, <1>11, <1>12, <1>13, StoryKinds DEF Dies

-----------------------------------------------------------------------------
(* The drain is announced on one stream at most *)

\* What else request r's client may be sent.
Other(r) == [type : StreamTypes \ {"WORKER_DRAINING"}, req : {r}]

\* Nothing in it announces a drain.
LEMMA OtherSays ==
  ASSUME NEW r \in Request, NEW sent \in Seq(Other(r))
  PROVE  /\ sent \in Seq(StreamEvent)
         /\ Only(sent, DrainNote) = <<>>
         /\ \A i \in 1..Len(sent) : sent[i].req = r
<1>1. Other(r) \subseteq StreamEvent /\ Other(r) \cap DrainNote = {}
  BY DEF Other, StreamEvent, DrainNote
<1>2. \A e \in Other(r) : e.req = r
  BY DEF Other
<1> QED
  BY <1>1, <1>2, OnlyNone

\* Of a step that tells a client anything but the drain.
LEMMA AnnounceKept ==
  ASSUME TypeOK, AnnounceInv, StateKept, UNCHANGED connected,
         NEW r \in Request, NEW sent \in Seq(Other(r)), Send(r, sent)
  PROVE  AnnounceInv'
<1>1. /\ sent \in Seq(StreamEvent)
      /\ Only(sent, DrainNote) = <<>>
      /\ \A i \in 1..Len(sent) : sent[i].req = r
  BY OtherSays
<1>2. \A x \in Request : Announced(x)' = Announced(x)
  <2>1. \A x \in Request : Announced(x)' =
          IF x = r /\ connected[r] THEN Announced(r) \o Only(sent, DrainNote)
          ELSE Announced(x)
    BY <1>1, StreamTold
  <2>2. Announced(r) \o <<>> = Announced(r)
    <3>1. stream[r] \in Seq(StreamEvent)
      BY DEF TypeOK
    <3>2. Announced(r) \in Seq(StreamEvent \cap DrainNote)
      BY <3>1, OnlyType DEF Announced
    <3> QED
      BY <3>2
  <2> QED
    BY <1>1, <2>1, <2>2
<1>3. \A x \in Request : \A i \in 1..Len(stream'[x]) : stream'[x][i].req = x
  <2> SUFFICES ASSUME NEW x \in Request, NEW i \in 1..Len(stream'[x])
               PROVE  stream'[x][i].req = x
    OBVIOUS
  <2>1. \A j \in 1..Len(stream[x]) : stream[x][j].req = x
    BY DEF AnnounceInv
  <2>2. stream'[x] = IF x = r /\ connected[r] THEN stream[r] \o sent ELSE stream[x]
    BY <1>1, StreamTold
  <2>3. CASE x = r /\ connected[r]
    <3>1. /\ stream[r] \in Seq(StreamEvent)
          /\ stream'[r] = stream[r] \o sent
      BY <2>2, <2>3 DEF TypeOK
    <3> QED
      BY <1>1, <2>1, <2>3, <3>1
  <2>4. CASE ~(x = r /\ connected[r])
    BY <2>1, <2>2, <2>4
  <2> QED
    BY <2>3, <2>4
<1> QED
  BY <1>2, <1>3 DEF AnnounceInv, StateKept

LEMMA AnnounceStep ==
  ASSUME TypeOK, StoryInv, ClientInv, AnnounceInv, [Next]_vars
  PROVE  AnnounceInv'
<1>1. ASSUME NEW r \in Request, NEW type \in StreamTypes \ {"WORKER_DRAINING"}
      PROVE  Ev(type, r) \in Other(r) /\ <<Ev(type, r)>> \in Seq(Other(r))
  <2> DEFINE e == Ev(type, r)
  <2>1. e \in Other(r)
    BY DEF Ev, Other
  <2> HIDE DEF e
  <2>2. <<e>> \in Seq(Other(r))
    BY <2>1
  <2> QED
    BY <2>1, <2>2 DEF e
<1>2. {"TASK_ACCEPTED", "FIRST_TOKEN", "L0_EVENT", "ERROR", "DUPLICATE_TASK", "DONE"}
        \subseteq StreamTypes \ {"WORKER_DRAINING"}
  BY DEF StreamTypes, RecordedTypes
<1>3. ASSUME NEW r \in Request, StateKept,
             Opens(r) \/ Turns(r) \/ Speaks(r) \/ Mentions(r) \/ Closes(r) \/ Breaks(r)
      PROVE  AnnounceInv'
  <2>1. \E sent \in Seq(Other(r)) : \E was, logged, now :
          Told(r, was, sent, logged, now)
    <3>1. <<>> \in Seq(Other(r))
      OBVIOUS
    <3>2. CASE Opens(r)
      BY <1>1, <1>2, <3>2, Zenon DEF Opens
    <3>3. CASE Turns(r)
      BY <1>1, <1>2, <3>1, <3>3, Zenon DEF Turns
    <3>4. CASE Speaks(r)
      BY <1>1, <1>2, <3>4, Zenon DEF Speaks
    <3>5. CASE Mentions(r)
      BY <1>1, <1>2, <3>5, Zenon DEF Mentions
    <3>6. CASE Breaks(r)
      BY <3>1, <3>6, Zenon DEF Breaks
    <3>7. CASE Closes(r)
      <4>1. PICK events \in LastWords(r) :
              Told(r, "running", Append(events, Ev("DONE", r)), events, "ended")
        BY <3>7 DEF Closes
      <4>2. Tale(RunLog(r), "running") /\ RunLog(r) \in Seq(RunEvent(r))
        BY <4>1, StoryBegins, RunLogType DEF Told
      <4>3. OrderKind[r] = "race" => Len(RunLog(r)) = 1
        BY <4>1 DEF Told, StoryInv, FirstTokenIsStreamed
      <4>4. events \in Seq(RunEvent(r))
        BY <4>2, <4>3, TaleEnds
      <4>5. RunEvent(r) \subseteq Other(r)
        BY DEF RunEvent, Other, StreamTypes, RecordedTypes
      <4>6. Ev("DONE", r) \in Other(r)
        BY <1>1, <1>2
      <4> DEFINE e == Ev("DONE", r)
                 sent == Append(events, e)
      <4> HIDE DEF e
      <4>7. sent \in Seq(Other(r))
        BY <4>4, <4>5, <4>6 DEF e
      <4> QED
        BY <4>1, <4>7, Zenon DEF e
    <3> QED
      BY <1>3, <3>2, <3>3, <3>4, <3>5, <3>6, <3>7
  <2>2. PICK sent \in Seq(Other(r)) : \E was, logged, now :
          Told(r, was, sent, logged, now)
    BY <2>1
  <2> QED
    BY <1>3, <2>2, AnnounceKept DEF Told
<1>4. ASSUME NEW r \in Request, Announces(r)
      PROVE  AnnounceInv'
  <2> DEFINE e == Ev("WORKER_DRAINING", r)
  <2>1. e \in StreamEvent /\ e \in DrainNote /\ e.req = r
    BY DEF Ev, StreamEvent, StreamTypes, DrainNote
  <2>2. Send(r, <<e>>) /\ UNCHANGED connected
    BY <1>4 DEF Announces, Told
  <2>3. state # "DRAINING" /\ state' = "DRAINING"
    BY <1>4 DEF Announces
  <2> HIDE DEF e
  <2>4. <<e>> \in Seq(StreamEvent) /\ <<e>> \in Seq(DrainNote)
        /\ Len(<<e>>) = 1 /\ <<e>> # <<>>
    BY <2>1
  <2>5. Only(<<e>>, DrainNote) = <<e>>
    BY <2>4, OnlyAll
  <2>6. \A x \in Request : Announced(x) = <<>>
    BY <2>3 DEF AnnounceInv
  <2>7. \A x \in Request : Announced(x)' =
          IF x = r /\ connected[r] THEN Announced(r) \o Only(<<e>>, DrainNote)
          ELSE Announced(x)
    BY <2>2, <2>4, StreamTold
  <2>8. <<>> \o <<e>> = <<e>>
    BY <2>4
  <2>9. \A x \in Request : Announced(x)' =
          IF x = r /\ connected[r] THEN <<e>> ELSE <<>>
    BY <2>5, <2>6, <2>7, <2>8, Zenon
  <2>10. \A x \in Request : \A i \in 1..Len(stream'[x]) : stream'[x][i].req = x
    <3> SUFFICES ASSUME NEW x \in Request, NEW i \in 1..Len(stream'[x])
                 PROVE  stream'[x][i].req = x
      OBVIOUS
    <3>1. \A j \in 1..Len(stream[x]) : stream[x][j].req = x
      BY DEF AnnounceInv
    <3>2. stream'[x] = IF x = r /\ connected[r] THEN stream[r] \o <<e>> ELSE stream[x]
      BY <2>2, <2>4, StreamTold
    <3>3. CASE x = r /\ connected[r]
      <4>1. /\ stream[r] \in Seq(StreamEvent)
            /\ stream'[r] = stream[r] \o <<e>>
        BY <3>2, <3>3 DEF TypeOK
      <4> QED
        BY <2>1, <3>1, <3>3, <4>1
    <3>4. CASE ~(x = r /\ connected[r])
      BY <3>1, <3>2, <3>4
    <3> QED
      BY <3>3, <3>4
  <2>11. \A x \in Request : Len(Announced(x)') \in {0, 1}
    BY <2>4, <2>9
  <2>12. \A x, y \in Request : Announced(x)' # <<>> /\ Announced(y)' # <<>> => x = y
    BY <2>9
  <2>13. (\A x \in Request : connected[x]) => Announced(r)' # <<>>
    BY <2>4, <2>9
  <2> QED
    BY <2>2, <2>3, <2>10, <2>11, <2>12, <2>13 DEF AnnounceInv
<1>5. ASSUME NEW r \in Request, Dies(r)
      PROVE  AnnounceInv'
  BY <1>5 DEF Dies, AnnounceInv, Announced
<1>6. ASSUME NEW r \in Request, StateKept, Leaves(r)
      PROVE  AnnounceInv'
  <2>1. \A x \in Request : connected'[x] => connected[x]
    BY <1>6 DEF Leaves, TypeOK
  <2> QED
    BY <1>6, <2>1 DEF Leaves, StateKept, AnnounceInv, Announced
<1>7. CASE StateKept /\ UNCHANGED <<req, connected, stream, log>>
  BY <1>7 DEF StateKept, AnnounceInv, Announced
<1> QED
  BY <1>3, <1>4, <1>5, <1>6, <1>7, StoryKinds

\* The announced drain is what DrainingAnnouncedOnce sees of it.
LEMMA AnnouncedOnce ==
  ASSUME TypeOK, AnnounceInv
  PROVE  DrainingAnnouncedOnce
<1> DEFINE told == {r \in Request : Ev("WORKER_DRAINING", r) \in ToSet(stream[r])}
<1>1. \A r \in Request : stream[r] \in Seq(StreamEvent)
  BY DEF TypeOK
<1>2. ASSUME NEW r \in Request
      PROVE  r \in told <=> Announced(r) # <<>>
  <2>1. ASSUME r \in told PROVE Announced(r) # <<>>
    <3>1. PICK i \in 1..Len(stream[r]) : stream[r][i] = Ev("WORKER_DRAINING", r)
      BY <1>1, <2>1 DEF ToSet
    <3>2. stream[r][i] \in DrainNote
      BY <3>1 DEF DrainNote, Ev
    <3> QED
      BY <1>1, <3>2, OnlyHas DEF Announced
  <2>2. ASSUME Announced(r) # <<>> PROVE r \in told
    <3>1. Announced(r) \in Seq(StreamEvent \cap DrainNote)
      BY <1>1, OnlyType DEF Announced
    <3>2. 1 \in 1..Len(Announced(r)) /\ Announced(r)[1] \in DrainNote
      BY <2>2, <3>1, LenZero
    <3>3. PICK j \in 1..Len(stream[r]) : stream[r][j] = Announced(r)[1]
      BY <1>1, <3>2, OnlyFrom DEF Announced
    <3>4. stream[r][j].req = r
      BY DEF AnnounceInv
    <3>5. stream[r][j] = Ev("WORKER_DRAINING", r)
      BY <3>2, <3>3, <3>4 DEF DrainNote, Ev
    <3> QED
      BY <1>1, <3>5 DEF ToSet
  <2> QED
    BY <2>1, <2>2
<1> HIDE DEF told
<1>3. told \subseteq Request
  BY DEF told
<1>4. \A r, x \in told : r = x
  BY <1>2, <1>3 DEF AnnounceInv
<1>5. Cardinality(told) <= 1
  <2>1. CASE told = {}
    BY <2>1, FS_EmptySet
  <2>2. CASE told # {}
    <3>1. PICK x : x \in told
      BY <2>2
    <3>2. told = {x}
      BY <1>4, <3>1
    <3> QED
      BY <3>2, FS_Singleton
  <2> QED
    BY <2>1, <2>2
<1>6. \A r \in told : Len(Announced(r)) = 1
  <2> SUFFICES ASSUME NEW r \in told PROVE Len(Announced(r)) = 1
    OBVIOUS
  <2>1. Announced(r) \in Seq(StreamEvent \cap DrainNote)
    BY <1>1, <1>3, OnlyType DEF Announced
  <2>2. Announced(r) # <<>> /\ Len(Announced(r)) \in {0, 1}
    BY <1>2, <1>3 DEF AnnounceInv
  <2> QED
    BY <2>1, <2>2, LenZero
<1>7. state = "DRAINING" /\ (\A r \in Request : connected[r]) => told # {}
  BY <1>2 DEF AnnounceInv
<1> QED
  BY <1>5, <1>6, <1>7 DEF DrainingAnnouncedOnce, Announced, DrainNote, told

-----------------------------------------------------------------------------
(* The drained line *)

\* There are as many slots in use as runs in progress.
LEMMA AsManySlotsAsRuns ==
  ASSUME TypeOK, IsFiniteSet(slots), SlotsAreRuns
  PROVE  Cardinality(slots) = Cardinality({r \in Request : req[r] = "running"})
<1> DEFINE running == {r \in Request : req[r] = "running"}
           f == [r \in running |-> TaskOf[r]]
<1>1. f \in [running -> slots]
  BY DEF SlotsAreRuns
<1>2. \A a, b \in running : f[a] = f[b] => a = b
  BY DEF SlotsAreRuns
<1>3. \A t \in slots : \E r \in running : f[r] = t
  BY DEF SlotsAreRuns
<1> HIDE DEF f, running
<1>4. f \in Injection(running, slots) /\ f \in Surjection(running, slots)
  BY <1>1, <1>2, <1>3, Fun_IsInj, Fun_IsSurj
<1>5. Cardinality(running) = Cardinality(slots)
  BY <1>4, FS_Injection
<1> QED
  BY <1>5 DEF running

LEMMA LineStep ==
  ASSUME IInv, DrainedLineIsHonest, [Next]_vars
  PROVE  DrainedLineIsHonest'
<1> DEFINE running == {r \in Request : req[r] = "running"}
<1>1. CASE UNCHANGED vars
  BY <1>1 DEF vars, DrainedLineIsHonest
<1>2. ASSUME NEW r \in Request, SubmitStep(r) \/ RunStep(r)
      PROVE  proc' # "exited"
  BY <1>2 DEF SubmitStep, Accept, RefuseBusy, RefusePayload, RefuseDuplicate,
     RefuseOnStream, RunStep, L0Event, FirstToken, Complete, Fail, Disconnect,
     DrainTimerFires, Up
<1>3. ASSUME NEW n \in CapUpdate, UpdateConfig(n)
      PROVE  proc' # "exited"
  BY <1>3 DEF UpdateConfig, Up
<1>4. ASSUME NEW d \in Drain, StartDrain(d) \/ EndDrain(d), proc' = "exited"
      PROVE  DrainedLineIsHonest'
  <2>1. UNCHANGED req
    BY <1>4 DEF StartDrain, EndDrain, taskVars
  <2>2. Cardinality(slots) = Cardinality(running) /\ Cardinality(slots) \in Nat
    BY AsManySlotsAsRuns, FS_CardinalityType DEF IInv
  <2>3. slots = {} => Cardinality(slots) = 0
    BY FS_EmptySet
  <2>4. \E lines \in Seq(Lines) :
          stdout' = Append(lines, Line("worker.drained", Cardinality(slots)))
    <3>1. stdout \in Seq(Lines) /\ Line("worker.draining", 0) \in Lines
      BY DEF IInv, TypeOK, Line, Lines
    <3>2. CASE EndDrain(d)
      BY <3>1, <3>2 DEF EndDrain, Exit
    <3>3. CASE StartDrain(d)
      <4>1. slots = {}
        BY <1>4, <3>3 DEF StartDrain, Up
      <4> DEFINE draining == Line("worker.draining", 0)
                 lines == Append(stdout, draining)
      <4>2. stdout' = Append(lines, Line("worker.drained", 0))
        BY <3>3, <4>1 DEF StartDrain, Exit
      <4> HIDE DEF draining
      <4>3. lines \in Seq(Lines)
        BY <3>1 DEF draining
      <4> HIDE DEF lines
      <4> QED
        BY <2>3, <4>1, <4>2, <4>3
    <3> QED
      BY <1>4, <3>2, <3>3
  <2>5. PICK lines \in Seq(Lines) :
          stdout' = Append(lines, Line("worker.drained", Cardinality(slots)))
    BY <2>4
  <2> DEFINE last == Line("worker.drained", Cardinality(slots))
  <2>6. last \in Lines
    BY <2>2 DEF Line, Lines
  <2> HIDE DEF last
  <2>7. Append(lines, last)[Len(Append(lines, last))] = last
    BY <2>6
  <2>8. stdout'[Len(stdout')] = last
    BY <2>5, <2>7, Zenon DEF last
  <2>9. running' = running
    BY <2>1
  <2>10. last = Line("worker.drained", Cardinality(running))
    BY <2>2 DEF last
  <2> HIDE DEF running
  <2>11. stdout'[Len(stdout')] = Line("worker.drained", Cardinality(running'))
    BY <2>8, <2>9, <2>10, Zenon
  <2> QED
    BY <2>11 DEF DrainedLineIsHonest, Last, running
<1> QED
  BY <1>1, <1>2, <1>3, <1>4 DEF Next, DrainedLineIsHonest

-----------------------------------------------------------------------------
(* What is on record, behind the Vercel handler *)

\* Its writes do not throw: no run breaks off, each one records its end.
LEMMA OutcomeStep ==
  ASSUME Deployment = "vercel", TypeOK, StoryInv, ClientInv,
         OutcomeIsRecorded, [Next]_vars
  PROVE  OutcomeIsRecorded'
<1> DEFINE Ended(y) == y # <<>> /\ y[Len(y)].type \in TerminalTypes
<1>1. \A x \in Request : req[x] = "ended" => Ended(RunLog(x))
  BY DEF OutcomeIsRecorded, Last
<1>2. SUFFICES \A x \in Request : req'[x] = "ended" => Ended(RunLog(x)')
  BY DEF OutcomeIsRecorded, Last
<1> HIDE DEF Ended
\* A step that does not end a run.
<1>3. ASSUME NEW r \in Request, NEW was, NEW sent, NEW logged \in Seq(RunEvent(r)),
             NEW now, Told(r, was, sent, logged, now),
             now = "ended" => Ended(RunLog(r) \o logged)
      PROVE  \A x \in Request : req'[x] = "ended" => Ended(RunLog(x)')
  <2>1. \A x \in Request :
          RunLog(x)' = IF x = r THEN RunLog(r) \o logged ELSE RunLog(x)
    BY <1>3, LogTold DEF Told
  <2>2. \A x \in Request : req'[x] = IF x = r THEN now ELSE req[x]
    BY <1>3 DEF Told, TypeOK
  <2> QED
    BY <1>1, <1>3, <2>1, <2>2, Zenon
<1>4. ASSUME NEW r \in Request,
             Opens(r) \/ Turns(r) \/ Speaks(r) \/ Mentions(r) \/ Announces(r)
      PROVE  \A x \in Request : req'[x] = "ended" => Ended(RunLog(x)')
  <2>1. /\ <<Ev("TASK_ACCEPTED", r)>> \in Seq(RunEvent(r))
        /\ <<Ev("FIRST_TOKEN", r)>> \in Seq(RunEvent(r))
        /\ <<>> \in Seq(RunEvent(r))
    <3>1. "TASK_ACCEPTED" \in RecordedTypes /\ "FIRST_TOKEN" \in RecordedTypes
      BY DEF RecordedTypes
    <3>2. /\ Ev("TASK_ACCEPTED", r) \in RunEvent(r)
          /\ Ev("FIRST_TOKEN", r) \in RunEvent(r)
      BY <3>1 DEF RunEvent, Ev
    <3> QED
      BY <3>2
  <2>2. \E was, sent, now : \E logged \in Seq(RunEvent(r)) :
          now # "ended" /\ Told(r, was, sent, logged, now)
    BY <1>4, <2>1, Zenon DEF Opens, Turns, Speaks, Mentions, Announces
  <2>3. PICK was, sent, now : \E logged \in Seq(RunEvent(r)) :
          now # "ended" /\ Told(r, was, sent, logged, now)
    BY <2>2
  <2> QED
    BY <1>3, <2>3
<1>5. ASSUME NEW r \in Request, Closes(r)
      PROVE  \A x \in Request : req'[x] = "ended" => Ended(RunLog(x)')
  <2>1. PICK events \in LastWords(r) :
          Told(r, "running", Append(events, Ev("DONE", r)), events, "ended")
    BY <1>5 DEF Closes
  <2>2. Tale(RunLog(r), "running") /\ RunLog(r) \in Seq(RunEvent(r))
    BY <2>1, StoryBegins, RunLogType DEF Told
  <2>3. OrderKind[r] = "race" => Len(RunLog(r)) = 1
    BY <2>1 DEF Told, StoryInv, FirstTokenIsStreamed
  <2>4. /\ events \in Seq(RunEvent(r))
        /\ events # <<>>
        /\ events[Len(events)].type \in TerminalTypes
    BY <2>2, <2>3, TaleEnds
  <2>5. Ended(RunLog(r) \o events)
    <3> DEFINE y == RunLog(r)
               z == y \o events
    <3>1. /\ z \in Seq(RunEvent(r))
          /\ Len(z) = Len(y) + Len(events)
          /\ \A i \in 1..Len(events) : z[Len(y) + i] = events[i]
      BY <2>2, <2>4, ConcatIs
    <3>2. Len(events) \in Nat /\ Len(events) # 0 /\ Len(y) \in Nat
      BY <2>2, <2>4, LenZero
    <3> HIDE DEF y, z
    <3>3. z[Len(z)] = events[Len(events)] /\ z # <<>>
      BY <3>1, <3>2, LenZero
    <3> QED
      BY <2>4, <3>3 DEF Ended, z, y
  <2> QED
    BY <1>3, <2>1, <2>4, <2>5
<1>6. ASSUME NEW r \in Request, Breaks(r)
      PROVE  FALSE
  BY <1>6 DEF Breaks, EmitThrows
<1>7. ASSUME UNCHANGED <<req, log>>
      PROVE  \A x \in Request : req'[x] = "ended" => Ended(RunLog(x)')
  BY <1>1, <1>7 DEF RunLog
<1> QED
  BY <1>4, <1>5, <1>6, <1>7, StoryKinds DEF Leaves, Dies

-----------------------------------------------------------------------------
(* Theorems *)

\* The whole inductive invariant of the worker.
WorkerInv ==
  /\ IInv
  /\ StoryInv
  /\ ClientInv
  /\ AnnounceInv
  /\ DrainedLineIsHonest

LEMMA WorkerInvInit == Init => WorkerInv
<1> SUFFICES ASSUME Init PROVE WorkerInv
  OBVIOUS
<1>1. IInv
  BY InvInit
<1>2. \A r \in Request : stream[r] = <<>> /\ log[TaskOf[r]] = <<>>
  BY ConstantsAssumption DEF Init
<1>3. \A r \in Request : RunLog(r) = <<>> /\ Sent(r) = <<>> /\ Announced(r) = <<>>
  <2> SUFFICES ASSUME NEW r \in Request
               PROVE  RunLog(r) = <<>> /\ Sent(r) = <<>> /\ Announced(r) = <<>>
    OBVIOUS
  <2>1. \A T : Only(<<>>, T) = <<>>
    BY OnlyEmpty
  <2> QED
    BY <1>2, <2>1, Zenon DEF RunLog, Sent, Announced
<1>4. StoryInv
  <2>1. \A r \in Request : req[r] = "idle"
    BY DEF Init
  <2>2. RunLogWellFormed /\ FirstTokenIsStreamed
    BY <1>3, <2>1 DEF RunLogWellFormed, FirstTokenIsStreamed
  <2>3. IsPrefix(<<>>, <<>>)
    BY DEF IsPrefix
  <2>4. StreamMatchesLog
    BY <1>3, <2>3, Zenon DEF StreamMatchesLog, Sent
  <2> QED
    BY <2>2, <2>4 DEF StoryInv
<1>5. ClientInv
  BY <1>2 DEF ClientInv, StayingClientSeesTheEnd, Init
<1>6. AnnounceInv
  BY <1>2, <1>3 DEF AnnounceInv, Init
<1>7. DrainedLineIsHonest
  BY DEF DrainedLineIsHonest, Init
<1> QED
  BY <1>1, <1>4, <1>5, <1>6, <1>7 DEF WorkerInv

LEMMA WorkerInvStep == WorkerInv /\ [Next]_vars => WorkerInv'
<1> SUFFICES ASSUME WorkerInv, [Next]_vars PROVE WorkerInv'
  OBVIOUS
<1>1. IInv'
  BY InvStep DEF WorkerInv
<1>2. StoryInv' /\ ClientInv' /\ AnnounceInv'
  BY StoryStep, ClientStep, AnnounceStep DEF WorkerInv, IInv
<1>3. DrainedLineIsHonest'
  BY LineStep DEF WorkerInv
<1> QED
  BY <1>1, <1>2, <1>3 DEF WorkerInv

THEOREM WorkerInvariant == Spec => []WorkerInv
  BY WorkerInvInit, WorkerInvStep, PTL DEF Spec

\* What is recorded of a run is accepted first and once, a first token at most
\* once and second, one terminal event at most, last: for every interleaving
\* of runs in the log of one task id, and whichever emit throws.
THEOREM StoriesStayWellFormed == Spec => []RunLogWellFormed
<1>1. WorkerInv => RunLogWellFormed
  BY DEF WorkerInv, StoryInv
<1> QED
  BY WorkerInvariant, <1>1, PTL

\* The client of a run has seen what the event store has recorded of it, in
\* that order; one that left a Vercel stream has seen the beginning of it.
THEOREM StreamsMatchTheLog == Spec => []StreamMatchesLog
<1>1. WorkerInv => StreamMatchesLog
  BY DEF WorkerInv, StoryInv
<1> QED
  BY WorkerInvariant, <1>1, PTL

\* A client that stays until the run is over has a terminal event and [DONE]
\* as the last things on its stream, and neither before.
THEOREM StayingClientsSeeTheEnd == Spec => []StayingClientSeesTheEnd
<1>1. WorkerInv => StayingClientSeesTheEnd
  BY DEF WorkerInv, ClientInv
<1> QED
  BY WorkerInvariant, <1>1, PTL

\* However many drain timers fire, WORKER_DRAINING goes out on one stream at
\* most and once on it, and it does go out unless some client left.
THEOREM DrainsAreAnnouncedOnce == Spec => []DrainingAnnouncedOnce
<1>1. WorkerInv => DrainingAnnouncedOnce
  BY AnnouncedOnce DEF WorkerInv, IInv
<1> QED
  BY WorkerInvariant, <1>1, PTL

\* The number of pending tasks on the worker.drained line is the number of
\* runs that process.exit cuts off.
THEOREM DrainedLinesAreHonest == Spec => []DrainedLineIsHonest
<1>1. WorkerInv => DrainedLineIsHonest
  BY DEF WorkerInv
<1> QED
  BY WorkerInvariant, <1>1, PTL

\* Behind the Vercel handler the log of every run that is over ends with its
\* terminal event, also where the client left.
THEOREM VercelOutcomesAreRecorded ==
  ASSUME Deployment = "vercel"
  PROVE  Spec => []OutcomeIsRecorded
<1>1. Init => OutcomeIsRecorded
  BY DEF Init, OutcomeIsRecorded
<1>2. WorkerInv /\ OutcomeIsRecorded /\ [Next]_vars => OutcomeIsRecorded'
  BY OutcomeStep DEF WorkerInv, IInv
<1> QED
  BY WorkerInvariant, <1>1, <1>2, PTL DEF Spec

=============================================================================
