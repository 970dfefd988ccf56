--------------------------- MODULE EventStore_proofs ---------------------------
(***************************************************************************)
(* The worker's memory of its runs keeps what it promises, for any task    *)
(* ids, hashes, limits and readings of the system clock, and any number of *)
(* events.                                                                 *)
(*                                                                         *)
(* StoreInv is what every operation of EventStore preserves.  KeysInOrder  *)
(* strengthens it: the Map's order of keys is the order in which the logs  *)
(* began, which makes the key that is evicted the oldest.                  *)
(***************************************************************************)
EXTENDS EventStore, TLAPS, SequenceTheorems, FiniteSetTheorems,
        NaturalsInduction

Phases == {"idle", "accepted", "streaming"}

KeysInOrder ==
  \A i, j \in DOMAIN keys :
    i < j => log[keys[i]][1].ts < log[keys[j]][1].ts

StoreInv ==
  /\ StoreTypeOK
  /\ StampsOrderEvents
  /\ LogIsLatestPart
  /\ StoreBounded
  /\ KeysInOrder

-----------------------------------------------------------------------------
(* Sequences                                                               *)

\* What the last part of a sequence is.
LEMMA LastPart ==
  ASSUME NEW S, NEW s \in Seq(S), NEW n \in 0..Len(s)
  PROVE  LET part == SubSeq(s, n + 1, Len(s))
         IN  /\ part \in Seq(S)
             /\ Len(part) = Len(s) - n
             /\ \A i \in 1..(Len(s) - n) : part[i] = s[n + i]
<1>1. Len(s) \in Nat /\ \A i \in 1..Len(s) : s[i] \in S
  BY LenProperties, ElementOfSeq
<1>2. \A i \in (n + 1)..Len(s) : s[i] \in S
  BY <1>1
<1> DEFINE part == SubSeq(s, n + 1, Len(s))
<1>3. /\ part \in Seq(S)
      /\ Len(part) = IF n + 1 <= Len(s) THEN Len(s) - (n + 1) + 1 ELSE 0
      /\ \A i \in 1..(Len(s) - (n + 1) + 1) : part[i] = s[(n + 1) + i - 1]
  BY <1>1, <1>2, SubSeqProperties
<1> HIDE DEF part
<1>4. Len(part) = Len(s) - n
  BY <1>1, <1>3
<1>5. \A i \in 1..(Len(s) - n) : part[i] = s[n + i]
  <2> TAKE i \in 1..(Len(s) - n)
  <2>1. i \in 1..(Len(s) - (n + 1) + 1) /\ (n + 1) + i - 1 = n + i
    BY <1>1
  <2> QED
    BY <1>3, <2>1
<1> QED
  BY <1>3, <1>4, <1>5 DEF part

\* A last part stays one when both grow by the same element.
LEMMA LastPartGrows ==
  ASSUME NEW S, NEW s \in Seq(S), NEW e \in S, NEW n \in 0..Len(s)
  PROVE  Append(SubSeq(s, n + 1, Len(s)), e)
           = SubSeq(Append(s, e), n + 1, Len(Append(s, e)))
<1> DEFINE part == SubSeq(s, n + 1, Len(s))
           whole == Append(s, e)
           grown == SubSeq(whole, n + 1, Len(whole))
<1>1. Len(s) \in Nat
  BY LenProperties
<1>2. /\ whole \in Seq(S) /\ Len(whole) = Len(s) + 1
      /\ \A i \in 1..Len(s) : whole[i] = s[i]
      /\ whole[Len(s) + 1] = e
  BY AppendProperties
<1>3. /\ part \in Seq(S) /\ Len(part) = Len(s) - n
      /\ \A i \in 1..(Len(s) - n) : part[i] = s[n + i]
  BY LastPart
<1>4. n \in 0..Len(whole)
  BY <1>1, <1>2
<1> HIDE DEF whole
<1>5. /\ grown \in Seq(S) /\ Len(grown) = Len(whole) - n
      /\ \A i \in 1..(Len(whole) - n) : grown[i] = whole[n + i]
  BY <1>2, <1>4, LastPart
<1> HIDE DEF part, grown
<1>6. /\ Append(part, e) \in Seq(S) /\ Len(Append(part, e)) = Len(part) + 1
      /\ \A i \in 1..Len(part) : Append(part, e)[i] = part[i]
      /\ Append(part, e)[Len(part) + 1] = e
  BY <1>3, AppendProperties
<1>7. Len(Append(part, e)) = Len(grown)
  BY <1>1, <1>2, <1>3, <1>5, <1>6
<1>8. ASSUME NEW i \in 1..Len(Append(part, e))
      PROVE  Append(part, e)[i] = grown[i]
  <2>1. CASE i = Len(part) + 1
    BY <1>1, <1>2, <1>3, <1>5, <1>6, <2>1
  <2>2. CASE i # Len(part) + 1
    <3>1. i \in 1..Len(part) /\ i \in 1..(Len(s) - n) /\ n + i \in 1..Len(s)
          /\ i \in 1..(Len(whole) - n)
      BY <1>1, <1>2, <1>3, <1>6, <2>2
    <3> QED
      BY <1>2, <1>3, <1>5, <1>6, <3>1
  <2> QED
    BY <2>1, <2>2
<1> QED
  BY <1>5, <1>6, <1>7, <1>8, SeqEqual DEF part, grown, whole

LEMMA AppendIsNotEmpty ==
  ASSUME NEW S, NEW s \in Seq(S), NEW e \in S
  PROVE  Append(s, e) # <<>>
<1>1. Len(Append(s, e)) = Len(s) + 1 /\ Len(s) \in Nat
  BY AppendProperties, LenProperties
<1>2. Len(<<>>) = 0
  BY EmptySeq
<1> QED
  BY <1>1, <1>2

LEMMA EventOfLog ==
  ASSUME NEW s \in Seq(Event), NEW i \in DOMAIN s
  PROVE  s[i] \in Event /\ s[i].ts \in Nat
<1>1. s[i] \in Event
  BY LenProperties, ElementOfSeq
<1> QED
  BY <1>1 DEF Event

-----------------------------------------------------------------------------
(* The clock                                                               *)

LEMMA NowIsNew ==
  ASSUME wall \in Nat, last \in Nat
  PROVE  Now \in Nat /\ last < Now
BY DEF Now

-----------------------------------------------------------------------------
(* Steps that leave the memory alone                                       *)

LEMMA InitStore ==
  ASSUME StoreInit
  PROVE  StoreInv
<1> USE DEF StoreInit, EmptyMemory, ClockInit
<1>1. StoreTypeOK
  BY ClockAssumption, EmptySeq DEF StoreTypeOK, Stored, Phases
<1>2. StampsOrderEvents
  BY EmptySeq DEF StampsOrderEvents
<1>3. LogIsLatestPart
  <2> SUFFICES ASSUME NEW t \in Task
               PROVE  /\ 0 \in 0..Len(told[t])
                      /\ log[t] = SubSeq(told[t], 0 + 1, Len(told[t]))
    BY DEF LogIsLatestPart
  <2>1. told[t] = <<>> /\ log[t] = <<>> /\ Len(told[t]) = 0
    OBVIOUS
  <2>2. SubSeq(told[t], 0 + 1, 0) = <<>>
    BY SubSeqEmpty
  <2> QED
    BY <2>1, <2>2
<1>4. StoreBounded
  BY StoreAssumption DEF StoreBounded
<1>5. KeysInOrder
  BY DEF KeysInOrder
<1> QED
  BY <1>1, <1>2, <1>3, <1>4, <1>5 DEF StoreInv

\* Time passes, or a run gets on without an event.
LEMMA StampKeeps ==
  ASSUME StoreInv, UNCHANGED <<maxTasks, memory>>,
         wall' \in Nat, last' \in Nat, last <= last',
         phase' \in [Task -> Phases]
  PROVE  StoreInv' /\ EvictsOldest
<1> USE DEF memory
<1>1. StoreTypeOK'
  BY DEF StoreInv, StoreTypeOK, Stored, Phases
<1>2. StampsOrderEvents'
  <2> SUFFICES ASSUME NEW t \in Task, NEW u \in Task,
                      NEW i \in DOMAIN told[t], NEW j \in DOMAIN told[u]
               PROVE  /\ told[t][i].ts <= last'
                      /\ told[t][i].ts = told[u][j].ts => t = u /\ i = j
                      /\ t = u /\ i < j => told[t][i].ts < told[u][j].ts
    BY DEF StampsOrderEvents
  <2>1. told[t][i].ts \in Nat
    <3>1. told[t] \in Seq(Event)
      BY DEF StoreInv, StoreTypeOK
    <3> QED
      BY <3>1, EventOfLog
  <2> QED
    BY <2>1 DEF StoreInv, StoreTypeOK, StampsOrderEvents
<1>3. (LogIsLatestPart /\ StoreBounded /\ KeysInOrder)'
  BY DEF StoreInv, LogIsLatestPart, StoreBounded, KeysInOrder
<1>4. EvictsOldest
  BY DEF EvictsOldest
<1> QED
  BY <1>1, <1>2, <1>3, <1>4 DEF StoreInv

\* A process starts with nothing to remember.
LEMMA ForgetForgets ==
  ASSUME StoreInv, Forget
  PROVE  StoreInv' /\ EvictsOldest
<1> USE DEF Forget
<1>1. StoreTypeOK'
  BY EmptySeq DEF StoreInv, StoreTypeOK, Stored
<1>2. StampsOrderEvents'
  BY EmptySeq DEF StampsOrderEvents
<1>3. LogIsLatestPart'
  <2> SUFFICES ASSUME NEW t \in Task
               PROVE  /\ 0 \in 0..Len(told'[t])
                      /\ log'[t] = SubSeq(told'[t], 0 + 1, Len(told'[t]))
    BY DEF LogIsLatestPart
  <2>1. told'[t] = <<>> /\ log'[t] = <<>> /\ Len(told'[t]) = 0
    OBVIOUS
  <2>2. SubSeq(told'[t], 0 + 1, 0) = <<>>
    BY SubSeqEmpty
  <2> QED
    BY <2>1, <2>2
<1>4. StoreBounded'
  BY StoreAssumption DEF StoreBounded, StoreInv, StoreTypeOK
<1>5. KeysInOrder' /\ EvictsOldest
  BY DEF KeysInOrder, EvictsOldest
<1> QED
  BY <1>1, <1>2, <1>3, <1>4, <1>5 DEF StoreInv

-----------------------------------------------------------------------------
(* An event is recorded                                                    *)

\* A new key goes last; at most the first one goes, and only for a limit.
LEMMA NewKey ==
  ASSUME StoreInv, NEW t \in Task, t \notin Stored
  PROVE  \E d \in {0, 1} :
           LET new == KeysWith(t)
           IN  /\ d <= Len(keys)
               /\ Evicted(t) = {keys[i] : i \in 1..d}
               /\ new \in Seq(Task) /\ Len(new) = Len(keys) - d + 1
               /\ \A i \in 1..(Len(keys) - d) : new[i] = keys[i + d]
               /\ new[Len(keys) - d + 1] = t
               /\ d = 1 => maxTasks > 0 /\ keys[1] # EmptyId
               /\ d = 0 => \/ maxTasks = 0
                           \/ Len(keys) < maxTasks
                           \/ Len(keys) > 0 /\ keys[1] = EmptyId
<1> USE DEF StoreInv, StoreTypeOK
<1>1. keys \in Seq(Task) /\ Len(keys) \in Nat /\ maxTasks \in Nat
  BY LenProperties, StoreAssumption
<1>2. CASE Evicted(t) = {}
  <2>1. KeysWith(t) = Append(keys, t)
    BY <1>2 DEF KeysWith
  <2>2. /\ KeysWith(t) \in Seq(Task) /\ Len(KeysWith(t)) = Len(keys) + 1
        /\ \A i \in 1..Len(keys) : KeysWith(t)[i] = keys[i]
        /\ KeysWith(t)[Len(keys) + 1] = t
    BY <1>1, <2>1, AppendProperties
  <2>3. maxTasks = 0 \/ Len(keys) < maxTasks \/ (Len(keys) > 0 /\ keys[1] = EmptyId)
    <3>1. ~(MustEvict(t) /\ keys # <<>> /\ Head(keys) # EmptyId)
      BY <1>2 DEF Evicted
    <3>2. keys # <<>> => Len(keys) > 0 /\ Head(keys) = keys[1]
      BY <1>1, EmptySeq
    <3>3. keys = <<>> => Len(keys) = 0
      BY EmptySeq
    <3>4. MustEvict(t) <=> maxTasks > 0 /\ Len(keys) >= maxTasks
      BY DEF MustEvict
    <3> QED
      BY <1>1, <3>1, <3>2, <3>3, <3>4
  <2>4. Evicted(t) = {keys[i] : i \in 1..0}
    BY <1>2
  <2> DEFINE new == KeysWith(t)
  <2> HIDE DEF new
  <2>5. /\ new \in Seq(Task) /\ Len(new) = Len(keys) - 0 + 1
        /\ \A i \in 1..(Len(keys) - 0) : new[i] = keys[i + 0]
        /\ new[Len(keys) - 0 + 1] = t
    BY <1>1, <2>2 DEF new
  <2> WITNESS 0 \in {0, 1}
  <2> QED
    BY <1>1, <1>2, <2>3, <2>4, <2>5 DEF new
<1>3. CASE Evicted(t) # {}
  <2>1. /\ MustEvict(t) /\ keys # <<>> /\ Head(keys) # EmptyId
        /\ Evicted(t) = {Head(keys)}
    BY <1>3 DEF Evicted
  <2>2. KeysWith(t) = Append(Tail(keys), t)
    BY <1>3 DEF KeysWith
  <2>3. /\ Tail(keys) \in Seq(Task) /\ Len(Tail(keys)) = Len(keys) - 1
        /\ \A i \in 1..Len(Tail(keys)) : Tail(keys)[i] = keys[i + 1]
        /\ Len(keys) > 0 /\ Head(keys) = keys[1]
    BY <1>1, <2>1, HeadTailProperties, EmptySeq
  <2>4. /\ KeysWith(t) \in Seq(Task) /\ Len(KeysWith(t)) = Len(Tail(keys)) + 1
        /\ \A i \in 1..Len(Tail(keys)) : KeysWith(t)[i] = Tail(keys)[i]
        /\ KeysWith(t)[Len(Tail(keys)) + 1] = t
    BY <2>2, <2>3, AppendProperties
  <2>5. {keys[i] : i \in 1..1} = {keys[1]} /\ maxTasks > 0
    BY <2>1 DEF MustEvict
  <2> DEFINE new == KeysWith(t)
  <2> HIDE DEF new
  <2>6. /\ new \in Seq(Task) /\ Len(new) = Len(keys) - 1 + 1
        /\ \A i \in 1..(Len(keys) - 1) : new[i] = keys[i + 1]
        /\ new[Len(keys) - 1 + 1] = t
    BY <1>1, <2>3, <2>4 DEF new
  <2> WITNESS 1 \in {0, 1}
  <2> QED
    BY <1>1, <2>1, <2>3, <2>5, <2>6 DEF new
<1> QED
  BY <1>2, <1>3

\* What Tell changes, for an event e.
Recording(t, e) ==
  /\ Record(t, e)
  /\ e \in Event /\ e.ts = last' /\ last < last' /\ last' \in Nat
  /\ UNCHANGED <<wall, maxTasks>>
  /\ phase' \in [Task -> Phases]

LEMMA RecordLogs ==
  ASSUME StoreInv, NEW t \in Task, NEW e, Recording(t, e)
  PROVE  /\ log' \in [Task -> Seq(Event)] /\ told' \in [Task -> Seq(Event)]
         /\ log'[t] = Append(log[t], e) /\ told'[t] = Append(told[t], e)
         /\ \A u \in Task \ {t} :
              /\ told'[u] = told[u]
              /\ log'[u] = IF u \in Evicted(t) THEN <<>> ELSE log[u]
         /\ Stored' = (Stored \ Evicted(t)) \union {t}
<1> USE DEF StoreInv, StoreTypeOK, Recording, Record
<1>1. Append(log[t], e) \in Seq(Event) /\ Append(told[t], e) \in Seq(Event)
      /\ Append(log[t], e) # <<>> /\ <<>> \in Seq(Event)
  <2>1. log[t] \in Seq(Event) /\ told[t] \in Seq(Event) /\ e \in Event
    OBVIOUS
  <2>2. Append(log[t], e) \in Seq(Event)
    BY <2>1, AppendProperties
  <2>4. Append(log[t], e) # <<>>
    BY <2>1, AppendIsNotEmpty
  <2>3. Append(told[t], e) \in Seq(Event)
    BY <2>1, AppendProperties
  <2> QED
    BY <2>2, <2>3, <2>4, EmptySeq
<1>0. t \notin Evicted(t)
  <2> SUFFICES ASSUME t \in Evicted(t) PROVE FALSE
    OBVIOUS
  <2>1. t \notin Stored /\ keys # <<>> /\ t = Head(keys)
    BY DEF Evicted, MustEvict
  <2>2. 1 \in DOMAIN keys /\ Head(keys) = keys[1]
    BY <2>1, EmptySeq, LenProperties
  <2> QED
    BY <2>1, <2>2
<1>2. /\ log'[t] = Append(log[t], e) /\ told'[t] = Append(told[t], e)
      /\ \A u \in Task \ {t} :
           /\ told'[u] = told[u]
           /\ log'[u] = IF u \in Evicted(t) THEN <<>> ELSE log[u]
  BY <1>0
<1>3. log' \in [Task -> Seq(Event)] /\ told' \in [Task -> Seq(Event)]
  <2>1. ASSUME NEW u \in Task PROVE log'[u] \in Seq(Event)
    BY <1>1, <1>2
  <2> QED
    BY <1>1, <2>1
<1>4. Stored' = (Stored \ Evicted(t)) \union {t}
  BY <1>1, <1>2 DEF Stored
<1> QED
  BY <1>2, <1>3, <1>4

\* The first event of a log that is there, and of one that is begun.
LEMMA FirstOfLog ==
  ASSUME StoreInv, NEW t \in Task, NEW e, Recording(t, e)
  PROVE  /\ \A u \in Stored : log[u][1].ts \in Nat /\ log[u][1].ts <= last
         /\ \A u \in Stored : log'[u] # <<>> => log'[u][1] = log[u][1]
         /\ t \notin Stored => log'[t][1] = e
<1> USE DEF StoreInv, StoreTypeOK
<1>1. ASSUME NEW u \in Stored
      PROVE  /\ log[u] \in Seq(Event) /\ 1 \in 1..Len(log[u]) /\ 1 \in DOMAIN log[u]
             /\ log[u][1].ts \in Nat /\ log[u][1].ts <= last
  <2>1. u \in Task /\ log[u] # <<>> /\ log[u] \in Seq(Event) /\ told[u] \in Seq(Event)
    BY DEF Stored
  <2>2. Len(log[u]) \in Nat \ {0} /\ DOMAIN log[u] = 1..Len(log[u])
    BY <2>1, EmptySeq, LenProperties
  <2>3. PICK n \in 0..Len(told[u]) : log[u] = SubSeq(told[u], n + 1, Len(told[u]))
    BY <2>1 DEF LogIsLatestPart
  <2>4. /\ Len(log[u]) = Len(told[u]) - n
        /\ \A i \in 1..(Len(told[u]) - n) : log[u][i] = told[u][n + i]
    BY <2>1, <2>3, LastPart
  <2>5. Len(told[u]) \in Nat /\ DOMAIN told[u] = 1..Len(told[u])
    BY <2>1, LenProperties
  <2>6. log[u][1] = told[u][n + 1] /\ n + 1 \in DOMAIN told[u]
    BY <2>2, <2>4, <2>5
  <2>7. told[u][n + 1].ts <= last
    BY <2>1, <2>6 DEF StampsOrderEvents
  <2>8. log[u][1].ts \in Nat
    BY <2>1, <2>2, EventOfLog
  <2> QED
    BY <2>1, <2>2, <2>6, <2>7, <2>8
<1>2. ASSUME NEW u \in Stored, log'[u] # <<>>
      PROVE  log'[u][1] = log[u][1]
  <2>1. CASE u = t
    <3>1. log'[u] = Append(log[u], e) /\ e \in Event
      BY <2>1, RecordLogs DEF Recording
    <3> QED
      BY <1>1, <3>1, AppendProperties
  <2>2. CASE u # t
    <3>1. u \in Task \ {t}
      BY <2>2 DEF Stored
    <3>2. log'[u] = IF u \in Evicted(t) THEN <<>> ELSE log[u]
      BY <3>1, RecordLogs
    <3> QED
      BY <1>2, <3>2
  <2> QED
    BY <2>1, <2>2
<1>3. ASSUME t \notin Stored
      PROVE  log'[t][1] = e
  <2>1. log[t] = <<>> /\ log'[t] = Append(log[t], e) /\ e \in Event
    BY <1>3, RecordLogs DEF Stored, Recording
  <2> QED
    BY <2>1
<1> QED
  BY <1>1, <1>2, <1>3

LEMMA RecordStamps ==
  ASSUME StoreInv, NEW t \in Task, NEW e, Recording(t, e)
  PROVE  StampsOrderEvents'
<1> USE DEF StoreInv, StoreTypeOK, Recording
<1> DEFINE fresh(u, i) == u = t /\ i = Len(told[t]) + 1
<1>1. ASSUME NEW u \in Task, NEW i \in DOMAIN told'[u]
      PROVE  /\ i \in Nat /\ told'[u][i].ts \in Nat
             /\ fresh(u, i) => told'[u][i].ts = last'
             /\ ~fresh(u, i) => /\ i \in DOMAIN told[u]
                                /\ told'[u][i] = told[u][i]
                                /\ told'[u][i].ts <= last
                                /\ u = t => i < Len(told[t]) + 1
  <2>1. /\ told[u] \in Seq(Event) /\ told'[u] \in Seq(Event)
        /\ DOMAIN told[u] = 1..Len(told[u]) /\ Len(told[u]) \in Nat
        /\ DOMAIN told'[u] = 1..Len(told'[u]) /\ Len(told'[u]) \in Nat
    BY RecordLogs, LenProperties
  <2>2. told'[u][i].ts \in Nat
    BY <2>1, EventOfLog
  <2>3. CASE u = t
    <3>1. /\ Len(told'[u]) = Len(told[u]) + 1
          /\ \A k \in 1..Len(told[u]) : told'[u][k] = told[u][k]
          /\ told'[u][Len(told[u]) + 1] = e
      <4>1. told'[u] = Append(told[u], e) /\ e \in Event
        BY <2>3, RecordLogs
      <4> QED
        BY <2>1, <4>1, AppendProperties
    <3>2. CASE i = Len(told[u]) + 1
      BY <2>1, <2>2, <2>3, <3>1, <3>2
    <3>3. CASE i # Len(told[u]) + 1
      <4>1. i \in 1..Len(told[u])
        BY <2>1, <3>1, <3>3
      <4>2. told[u][i].ts <= last
        BY <2>1, <4>1 DEF StampsOrderEvents
      <4> QED
        BY <2>1, <2>2, <2>3, <3>1, <3>3, <4>1, <4>2
    <3> QED
      BY <3>2, <3>3
  <2>4. CASE u # t
    <3>1. told'[u] = told[u]
      BY <2>4, RecordLogs
    <3>2. told[u][i].ts <= last
      BY <3>1 DEF StampsOrderEvents
    <3> QED
      BY <2>1, <2>2, <2>4, <3>1, <3>2
  <2> QED
    BY <2>3, <2>4
<1>2. SUFFICES ASSUME NEW u \in Task, NEW v \in Task,
                      NEW i \in DOMAIN told'[u], NEW j \in DOMAIN told'[v]
               PROVE  /\ told'[u][i].ts <= last'
                      /\ told'[u][i].ts = told'[v][j].ts => u = v /\ i = j
                      /\ u = v /\ i < j => told'[u][i].ts < told'[v][j].ts
  BY DEF StampsOrderEvents
<1> DEFINE a == told'[u][i].ts
           b == told'[v][j].ts
<1>6. /\ i \in Nat /\ a \in Nat
      /\ fresh(u, i) => a = last'
      /\ ~fresh(u, i) => a <= last /\ (u = t => i < Len(told[t]) + 1)
  BY <1>1
<1>7. /\ j \in Nat /\ b \in Nat
      /\ fresh(v, j) => b = last'
      /\ ~fresh(v, j) => b <= last /\ (v = t => j < Len(told[t]) + 1)
  BY <1>1
<1>8. last \in Nat /\ last' \in Nat /\ last < last' /\ Len(told[t]) \in Nat
  BY LenProperties
<1> HIDE DEF a, b, Recording, StoreInv
<1>3. CASE fresh(u, i)
  <2>1. CASE fresh(v, j)
    BY <1>3, <1>6, <1>7, <1>8, <2>1 DEF a, b
  <2>2. CASE ~fresh(v, j)
    <3>1. a = last' /\ b <= last /\ a # b /\ a <= last'
      BY <1>3, <1>6, <1>7, <1>8, <2>2
    <3>2. ~(u = v /\ i < j)
      BY <1>3, <1>6, <1>7, <1>8, <2>2
    <3> QED
      BY <3>1, <3>2 DEF a, b
  <2> QED
    BY <2>1, <2>2
<1>4. CASE ~fresh(u, i) /\ fresh(v, j)
  <2>1. a <= last' /\ a # b /\ a < b
    BY <1>4, <1>6, <1>7, <1>8
  <2> QED
    BY <2>1 DEF a, b
<1>5. CASE ~fresh(u, i) /\ ~fresh(v, j)
  <2>1. /\ i \in DOMAIN told[u] /\ j \in DOMAIN told[v]
        /\ told'[u][i] = told[u][i] /\ told'[v][j] = told[v][j]
        /\ told'[u][i].ts <= last /\ told'[u][i].ts \in Nat
    BY <1>1, <1>5
  <2>2. /\ told[u][i].ts = told[v][j].ts => u = v /\ i = j
        /\ u = v /\ i < j => told[u][i].ts < told[v][j].ts
    BY <2>1 DEF StampsOrderEvents, StoreInv
  <2>3. a <= last'
    BY <1>5, <1>6, <1>8
  <2> QED
    BY <2>1, <2>2, <2>3 DEF a
<1> QED
  BY <1>3, <1>4, <1>5

LEMMA RecordLatestPart ==
  ASSUME StoreInv, NEW t \in Task, NEW e, Recording(t, e)
  PROVE  LogIsLatestPart'
<1> USE DEF StoreInv, StoreTypeOK
<1> SUFFICES ASSUME NEW u \in Task
             PROVE  \E n \in 0..Len(told'[u]) :
                      /\ log'[u] = SubSeq(told'[u], n + 1, Len(told'[u]))
                      /\ n > 0 => maxTasks' > 0
  BY DEF LogIsLatestPart
<1>1. maxTasks' = maxTasks /\ e \in Event
  BY DEF Recording
<1>2. told[u] \in Seq(Event) /\ Len(told[u]) \in Nat
  BY LenProperties
<1>3. PICK n \in 0..Len(told[u]) :
        /\ log[u] = SubSeq(told[u], n + 1, Len(told[u]))
        /\ n > 0 => maxTasks > 0
  BY DEF LogIsLatestPart
<1>4. CASE u = t
  <2>1. told'[u] = Append(told[u], e) /\ log'[u] = Append(log[u], e)
    BY <1>4, RecordLogs
  <2>2. Len(told'[u]) = Len(told[u]) + 1
    BY <1>1, <1>2, <2>1, AppendProperties
  <2>3. log'[u] = SubSeq(told'[u], n + 1, Len(told'[u]))
    <3>1. Append(SubSeq(told[u], n + 1, Len(told[u])), e)
            = SubSeq(Append(told[u], e), n + 1, Len(Append(told[u], e)))
      BY <1>1, <1>2, LastPartGrows
    <3> QED
      BY <1>3, <2>1, <3>1
  <2>4. n \in 0..Len(told'[u]) /\ (n > 0 => maxTasks' > 0)
    BY <1>1, <1>2, <1>3, <2>2
  <2> QED
    BY <2>3, <2>4
<1>5. CASE u # t /\ u \notin Evicted(t)
  <2>1. told'[u] = told[u] /\ log'[u] = log[u]
    BY <1>5, RecordLogs
  <2> QED
    BY <1>1, <1>3, <2>1
<1>6. CASE u # t /\ u \in Evicted(t)
  <2>1. told'[u] = told[u] /\ log'[u] = <<>>
    BY <1>6, RecordLogs
  <2>2. SubSeq(told[u], Len(told[u]) + 1, Len(told[u])) = <<>>
    BY <1>2, SubSeqEmpty
  <2>3. maxTasks > 0
    BY <1>6 DEF Evicted, MustEvict
  <2>4. /\ Len(told[u]) \in 0..Len(told'[u])
        /\ log'[u] = SubSeq(told'[u], Len(told[u]) + 1, Len(told'[u]))
    BY <1>2, <2>1, <2>2
  <2> QED
    BY <1>1, <2>3, <2>4
<1> QED
  BY <1>4, <1>5, <1>6

\* The keys, where the task has been recorded before.
LEMMA KnownKeepsKeys ==
  ASSUME StoreInv, NEW t \in Stored, NEW e, Recording(t, e)
  PROVE  StoreTypeOK' /\ StoreBounded' /\ KeysInOrder' /\ EvictsOldest
<1> USE DEF StoreInv, StoreTypeOK
<1>1. t \in Task /\ Evicted(t) = {}
  BY DEF Stored, Evicted, MustEvict
<1>2. keys' = keys /\ Stored' = Stored
  <2>1. keys' = KeysWith(t)
    BY DEF Recording, Record
  <2>2. KeysWith(t) = keys
    BY <1>1 DEF KeysWith
  <2>3. Stored' = (Stored \ Evicted(t)) \union {t}
    BY <1>1, RecordLogs
  <2> QED
    BY <1>1, <2>1, <2>2, <2>3
<1>3. StoreTypeOK'
  BY <1>1, <1>2, RecordLogs DEF Recording, Phases
<1>4. StoreBounded'
  BY <1>2 DEF StoreBounded, Recording
<1>5. KeysInOrder'
  <2> SUFFICES ASSUME NEW i \in DOMAIN keys, NEW j \in DOMAIN keys, i < j
               PROVE  log'[keys[i]][1].ts < log'[keys[j]][1].ts
    BY <1>2 DEF KeysInOrder
  <2>1. keys[i] \in Task /\ keys[j] \in Task
    BY LenProperties, ElementOfSeq
  <2>2. keys[i] \in Stored /\ keys[j] \in Stored
    BY <2>1
  <2>3. log'[keys[i]] # <<>> /\ log'[keys[j]] # <<>>
    BY <1>2, <2>2 DEF Stored
  <2>4. log'[keys[i]][1] = log[keys[i]][1] /\ log'[keys[j]][1] = log[keys[j]][1]
    BY <1>1, <2>2, <2>3, FirstOfLog
  <2> QED
    BY <2>4 DEF KeysInOrder
<1>6. EvictsOldest
  <2>1. \A u \in Task : log[u] # <<>> => log'[u] # <<>>
    BY <1>2 DEF Stored
  <2> QED
    BY <2>1 DEF EvictsOldest
<1> QED
  BY <1>3, <1>4, <1>5, <1>6

\* The keys, where the task is new: all but the first d of them, and the task.
LEMMA NewOrdersKeys ==
  ASSUME StoreInv, NEW t \in Task, t \notin Stored, NEW e, Recording(t, e)
  PROVE  StoreTypeOK' /\ StoreBounded' /\ KeysInOrder' /\ EvictsOldest
<1> USE DEF StoreInv, StoreTypeOK
<1>1. PICK d \in {0, 1} :
        /\ d <= Len(keys)
        /\ Evicted(t) = {keys[i] : i \in 1..d}
        /\ keys' \in Seq(Task) /\ Len(keys') = Len(keys) - d + 1
        /\ \A i \in 1..(Len(keys) - d) : keys'[i] = keys[i + d]
        /\ keys'[Len(keys) - d + 1] = t
        /\ d = 1 => maxTasks > 0 /\ keys[1] # EmptyId
        /\ d = 0 => \/ maxTasks = 0
                    \/ Len(keys) < maxTasks
                    \/ Len(keys) > 0 /\ keys[1] = EmptyId
  <2> DEFINE new == KeysWith(t)
  <2>1. keys' = new
    BY DEF Recording, Record
  <2>2. PICK d \in {0, 1} :
          /\ d <= Len(keys)
          /\ Evicted(t) = {keys[i] : i \in 1..d}
          /\ new \in Seq(Task) /\ Len(new) = Len(keys) - d + 1
          /\ \A i \in 1..(Len(keys) - d) : new[i] = keys[i + d]
          /\ new[Len(keys) - d + 1] = t
          /\ d = 1 => maxTasks > 0 /\ keys[1] # EmptyId
          /\ d = 0 => \/ maxTasks = 0
                      \/ Len(keys) < maxTasks
                      \/ Len(keys) > 0 /\ keys[1] = EmptyId
    BY NewKey
  <2> HIDE DEF new, StoreInv, StoreTypeOK
  <2> WITNESS d \in {0, 1}
  <2> QED
    BY <2>1, <2>2
<1>2. /\ Len(keys) \in Nat /\ DOMAIN keys = 1..Len(keys)
      /\ DOMAIN keys' = 1..(Len(keys) - d + 1)
      /\ \A i \in DOMAIN keys : keys[i] \in Task /\ keys[i] \in Stored
      /\ maxTasks \in Nat
  <2>1. Len(keys) \in Nat /\ DOMAIN keys = 1..Len(keys)
    BY LenProperties
  <2>2. DOMAIN keys' = 1..(Len(keys) - d + 1)
    BY <1>1, LenProperties
  <2>3. \A i \in DOMAIN keys : keys[i] \in Task
    BY <2>1, ElementOfSeq
  <2> QED
    BY <2>1, <2>2, <2>3, StoreAssumption
<1>3. \A i \in DOMAIN keys' :
        \/ i = Len(keys) - d + 1 /\ keys'[i] = t
        \/ /\ i < Len(keys) - d + 1
           /\ i + d \in DOMAIN keys /\ keys'[i] = keys[i + d]
           /\ keys[i + d] # t
           /\ keys[i + d] \in Stored \ Evicted(t)
  <2> SUFFICES ASSUME NEW i \in DOMAIN keys', i # Len(keys) - d + 1
               PROVE  /\ i < Len(keys) - d + 1
                      /\ i + d \in DOMAIN keys /\ keys'[i] = keys[i + d]
                      /\ keys[i + d] # t
                      /\ keys[i + d] \in Stored \ Evicted(t)
    BY <1>1
  <2>1. /\ i \in 1..(Len(keys) - d) /\ i < Len(keys) - d + 1
        /\ i + d \in DOMAIN keys /\ i + d \notin 1..d
        /\ 1..d \subseteq DOMAIN keys
    <3> HIDE DEF StoreInv, StoreTypeOK
    <3>1. CASE d = 0
      BY <1>1, <1>2, <3>1
    <3>2. CASE d = 1
      BY <1>1, <1>2, <3>2
    <3> QED
      BY <3>1, <3>2
  <2>2. keys[i + d] \in Stored /\ keys[i + d] # t
    BY <1>2, <2>1
  <2>3. \A j \in 1..d : keys[j] # keys[i + d]
    BY <2>1
  <2>4. keys[i + d] \notin Evicted(t)
    <3> HIDE DEF StoreInv, StoreTypeOK
    <3> QED
      BY <1>1, <2>3
  <2>5. keys'[i] = keys[i + d]
    BY <1>1, <2>1
  <2> QED
    BY <2>1, <2>2, <2>4, <2>5
<1>4. Stored' = (Stored \ Evicted(t)) \union {t}
  BY RecordLogs
<1>5. \A u \in Task : (\E i \in DOMAIN keys' : keys'[i] = u) <=> u \in Stored'
  <2>1. ASSUME NEW i \in DOMAIN keys' PROVE keys'[i] \in Stored'
    BY <1>3, <1>4
  <2>2. ASSUME NEW u \in Stored' PROVE \E i \in DOMAIN keys' : keys'[i] = u
    <3>1. CASE u = t
      <4>1. Len(keys) - d + 1 \in DOMAIN keys'
        BY <1>1, <1>2
      <4> QED
        BY <1>1, <3>1, <4>1
    <3>2. CASE u \in Stored \ Evicted(t)
      <4>1. PICK j \in DOMAIN keys : keys[j] = u
        BY <3>2 DEF Stored
      <4>2. j \notin 1..d
        BY <1>1, <3>2, <4>1
      <4>3. j - d \in 1..(Len(keys) - d) /\ j - d \in DOMAIN keys' /\ (j - d) + d = j
        <5> HIDE DEF StoreInv, StoreTypeOK
        <5>1. CASE d = 0
          BY <1>1, <1>2, <4>1, <4>2, <5>1
        <5>2. CASE d = 1
          BY <1>1, <1>2, <4>1, <4>2, <5>2
        <5> QED
          BY <5>1, <5>2
      <4>4. keys'[j - d] = keys[(j - d) + d]
        BY <1>1, <4>3
      <4> QED
        BY <4>1, <4>3, <4>4
    <3> QED
      BY <1>4, <3>1, <3>2
  <2> QED
    BY <2>1, <2>2
<1>6. \A i, j \in DOMAIN keys' : keys'[i] = keys'[j] => i = j
  <2> SUFFICES ASSUME NEW i \in DOMAIN keys', NEW j \in DOMAIN keys',
                      keys'[i] = keys'[j]
               PROVE  i = j
    OBVIOUS
  <2>1. i \in Nat /\ j \in Nat
    BY <1>2
  <2>2. CASE i = Len(keys) - d + 1
    BY <1>3, <2>2
  <2>3. CASE j = Len(keys) - d + 1
    BY <1>3, <2>3
  <2>4. CASE i # Len(keys) - d + 1 /\ j # Len(keys) - d + 1
    <3>1. i + d \in DOMAIN keys /\ j + d \in DOMAIN keys /\ keys[i + d] = keys[j + d]
      BY <1>3, <2>4
    <3>2. i + d = j + d
      BY <3>1
    <3> QED
      BY <1>1, <2>1, <3>2
  <2> QED
    BY <2>2, <2>3, <2>4
<1>7. StoreTypeOK'
  <2>1. /\ wall' \in Nat /\ last' \in Nat /\ maxTasks' \in Capacities
        /\ phase' \in [Task -> Phases]
    BY DEF Recording
  <2> QED
    BY <1>1, <1>5, <1>6, <2>1, RecordLogs DEF Phases
<1>8. StoreBounded'
  <2> SUFFICES ASSUME maxTasks > 0, Len(keys') > maxTasks
               PROVE  Head(keys') = EmptyId
    BY DEF StoreBounded, Recording
  <2>0. keys' # <<>> /\ Head(keys') = keys'[1]
    BY <1>1, <1>2, EmptySeq
  <2>1. CASE d = 0
    <3>1. Len(keys) > 0 /\ keys[1] = EmptyId
      BY <1>1, <1>2, <2>1 DEF StoreBounded
    <3>2. keys'[1] = keys[1]
      BY <1>1, <1>2, <2>1, <3>1
    <3> QED
      BY <2>0, <3>1, <3>2
  <2>2. CASE d = 1
    <3>1. Len(keys) > maxTasks
      BY <1>1, <1>2, <2>2
    <3>2. Head(keys) = keys[1]
      OBVIOUS
    <3> QED
      BY <1>1, <2>2, <3>1, <3>2 DEF StoreBounded
  <2> QED
    BY <1>1, <2>1, <2>2
<1>9. /\ log'[t][1] = e /\ e.ts = last' /\ last < last'
      /\ \A u \in Stored : log[u][1].ts \in Nat /\ log[u][1].ts <= last
      /\ \A u \in Stored \ Evicted(t) : log'[u][1] = log[u][1]
  <2>1. \A u \in Stored \ Evicted(t) : log'[u] # <<>>
    BY <1>4 DEF Stored
  <2> QED
    BY <2>1, FirstOfLog DEF Recording
<1>10. KeysInOrder'
  <2> SUFFICES ASSUME NEW i \in DOMAIN keys', NEW j \in DOMAIN keys', i < j
               PROVE  log'[keys'[i]][1].ts < log'[keys'[j]][1].ts
    BY DEF KeysInOrder
  <2>1. i \in Nat /\ j \in Nat /\ i # Len(keys) - d + 1
    <3> HIDE DEF StoreInv, StoreTypeOK
    <3>1. i \in 1..(Len(keys) - d + 1) /\ j \in 1..(Len(keys) - d + 1)
      BY <1>2
    <3>2. Len(keys) - d + 1 \in Int
      BY <1>1, <1>2
    <3> QED
      BY <3>1, <3>2
  <2>2. /\ i + d \in DOMAIN keys /\ keys'[i] = keys[i + d]
        /\ keys[i + d] \in Stored \ Evicted(t)
    BY <1>3, <2>1
  <2>3. log'[keys'[i]][1].ts = log[keys[i + d]][1].ts
        /\ log[keys[i + d]][1].ts \in Nat /\ log[keys[i + d]][1].ts <= last
    BY <1>9, <2>2
  <2>4. CASE j = Len(keys) - d + 1
    <3>1. log'[keys'[j]][1].ts = last'
      BY <1>3, <1>9, <2>4
    <3>2. last \in Nat /\ last' \in Nat
      BY <1>7
    <3> HIDE DEF StoreInv, StoreTypeOK
    <3> QED
      BY <1>9, <2>3, <3>1, <3>2
  <2>5. CASE j # Len(keys) - d + 1
    <3>1. /\ j + d \in DOMAIN keys /\ keys'[j] = keys[j + d]
          /\ keys[j + d] \in Stored \ Evicted(t)
      BY <1>3, <2>5
    <3>2. log'[keys'[j]][1].ts = log[keys[j + d]][1].ts
      BY <1>9, <3>1
    <3>3. i + d < j + d
      BY <1>1, <2>1
    <3> QED
      BY <2>2, <2>3, <3>1, <3>2, <3>3 DEF KeysInOrder
  <2> QED
    BY <2>4, <2>5
<1>11. EvictsOldest
  <2> SUFFICES ASSUME NEW x \in Task, log[x] # <<>>, log'[x] = <<>>,
                      NEW u \in Stored \ {x}
               PROVE  log[x][1].ts < log[u][1].ts
    BY DEF EvictsOldest
  <2>1. x \in Stored /\ x \in Evicted(t)
    BY <1>4 DEF Stored
  <2>2. PICK i \in 1..d : x = keys[i]
    BY <1>1, <2>1
  <2>3. i = 1 /\ 1 \in DOMAIN keys
    BY <1>1, <1>2, <2>2
  <2>4. PICK j \in DOMAIN keys : keys[j] = u
    BY DEF Stored
  <2>5. 1 < j
    BY <1>2, <2>2, <2>3, <2>4
  <2> QED
    BY <2>2, <2>3, <2>4, <2>5 DEF KeysInOrder
<1> QED
  BY <1>7, <1>8, <1>10, <1>11

\* An event of a run: the memory keeps what it promises, and the log that goes
\* to make room is the oldest.
LEMMA TellKeeps ==
  ASSUME StoreInv, NEW t \in Task, NEW what \in Kinds,
         NEW hash \in Hash \union {NoHash}, Tell(t, what, hash),
         phase' \in [Task -> Phases]
  PROVE  StoreInv' /\ EvictsOldest
<1> DEFINE e == [kind |-> what, hash |-> hash, ts |-> Now]
<1>1. wall \in Nat /\ last \in Nat
  BY DEF StoreInv, StoreTypeOK
<1>2. Now \in Nat /\ last < Now
  BY <1>1, NowIsNew
<1>3. Recording(t, e)
  BY <1>2 DEF Recording, Tell, Stamp, Event
<1> HIDE DEF e
<1>4. StampsOrderEvents' /\ LogIsLatestPart'
  BY <1>3, RecordStamps, RecordLatestPart
<1>5. StoreTypeOK' /\ StoreBounded' /\ KeysInOrder' /\ EvictsOldest
  BY <1>3, KnownKeepsKeys, NewOrdersKeys
<1> QED
  BY <1>4, <1>5 DEF StoreInv

-----------------------------------------------------------------------------
(* What is read out of the memory                                          *)

\* A set of natural numbers has a least element.
LEMMA LeastOf ==
  ASSUME NEW T \in SUBSET Nat, T # {}
  PROVE  \E x \in T : \A y \in T : x <= y
<1>1. IsWellFoundedOn(OpToRel(<, Nat), Nat)
  BY NatLessThanWellFounded
<1>2. PICK x \in T : \A y \in T : ~ (<<y, x>> \in OpToRel(<, Nat))
  BY <1>1, WFMin
<1>3. \A y \in T : ~ (y < x)
  BY <1>2 DEF OpToRel
<1> QED
  BY <1>3

\* And a greatest one, where it is bounded.
LEMMA GreatestOf ==
  ASSUME NEW m \in Nat, NEW T \in SUBSET (1..m), T # {}
  PROVE  \E x \in T : \A y \in T : y <= x
<1> DEFINE U == {m - x : x \in T}
<1>1. U \in SUBSET Nat /\ U # {}
  <2>1. \A x \in T : m - x \in Nat
    OBVIOUS
  <2>2. PICK x \in T : TRUE
    OBVIOUS
  <2>3. m - x \in U
    OBVIOUS
  <2> QED
    BY <2>1, <2>3
<1>2. PICK z \in U : \A y \in U : z <= y
  <2> HIDE DEF U
  <2> QED
    BY <1>1, LeastOf
<1>3. PICK x \in T : z = m - x
  BY <1>2
<1>4. ASSUME NEW y \in T PROVE y <= x
  <2>1. m - x <= m - y
    BY <1>2, <1>3
  <2> QED
    BY <2>1
<1> QED
  BY <1>4

\* Which completion FirstHash and LastHash take.
LEMMA HashChosen ==
  ASSUME NEW s \in Seq(Event)
  PROVE  /\ Completions(s) = {} => FirstHash(s) = NoHash /\ LastHash(s) = NoHash
         /\ \A i \in Completions(s) :
              /\ (\A j \in Completions(s) : i <= j) => FirstHash(s) = s[i].hash
              /\ (\A j \in Completions(s) : j <= i) => LastHash(s) = s[i].hash
<1>1. Completions(s) \subseteq Nat
  BY LenProperties DEF Completions
<1>2. ASSUME NEW i \in Completions(s), \A j \in Completions(s) : i <= j
      PROVE  FirstHash(s) = s[i].hash
  <2>1. \A k \in Completions(s) : (\A j \in Completions(s) : k <= j) => k = i
    BY <1>1, <1>2
  <2>2. i = CHOOSE k \in Completions(s) : \A j \in Completions(s) : k <= j
    BY <1>2, <2>1
  <2> QED
    BY <2>2 DEF FirstHash
<1>3. ASSUME NEW i \in Completions(s), \A j \in Completions(s) : j <= i
      PROVE  LastHash(s) = s[i].hash
  <2>1. \A k \in Completions(s) : (\A j \in Completions(s) : j <= k) => k = i
    BY <1>1, <1>3
  <2>2. i = CHOOSE k \in Completions(s) : \A j \in Completions(s) : j <= k
    BY <1>3, <2>1
  <2> QED
    BY <2>2 DEF LastHash
<1> QED
  BY <1>2, <1>3 DEF FirstHash, LastHash

\* The completions in the last part of what was recorded.
LEMMA CompletionsOfPart ==
  ASSUME NEW s \in Seq(Event), NEW n \in 0..Len(s),
         NEW part, part = SubSeq(s, n + 1, Len(s))
  PROVE  /\ part \in Seq(Event)
         /\ \A i : i \in Completions(part)
                     <=> i \in 1..(Len(s) - n) /\ n + i \in Completions(s)
         /\ \A i \in Completions(part) : part[i] = s[n + i]
<1>1. /\ part \in Seq(Event) /\ Len(part) = Len(s) - n
      /\ \A i \in 1..(Len(s) - n) : part[i] = s[n + i]
  BY LastPart
<1>2. /\ Len(s) \in Nat /\ DOMAIN s = 1..Len(s)
      /\ DOMAIN part = 1..(Len(s) - n)
  BY <1>1, LenProperties
<1>3. ASSUME NEW i \in DOMAIN part
      PROVE  n + i \in DOMAIN s /\ part[i] = s[n + i]
  <2>1. i \in 1..(Len(s) - n)
    BY <1>2
  <2>2. n + i \in 1..Len(s)
    BY <1>2, <2>1
  <2> QED
    BY <1>1, <1>2, <2>1, <2>2
<1> QED
  BY <1>1, <1>2, <1>3 DEF Completions

\* A replay that finds an output finds the one that was recorded last; one
\* that has forgotten nothing finds it whenever there is one.
LEMMA ReplayFindsLatest ==
  ASSUME StoreInv, NEW t \in Task
  PROVE  /\ ReplayedHash(t) # NoHash => ReplayedHash(t) = LastHash(told[t])
         /\ maxTasks = 0 => ReplayedHash(t) = LastHash(told[t])
<1>1. told[t] \in Seq(Event) /\ maxTasks \in Nat
  BY StoreAssumption DEF StoreInv, StoreTypeOK
<1>2. PICK n \in 0..Len(told[t]) :
        /\ log[t] = SubSeq(told[t], n + 1, Len(told[t]))
        /\ n > 0 => maxTasks > 0
  BY DEF StoreInv, LogIsLatestPart
<1>3. Len(told[t]) \in Nat /\ DOMAIN told[t] = 1..Len(told[t])
  BY <1>1, LenProperties
<1>4. /\ log[t] \in Seq(Event)
      /\ \A i : i \in Completions(log[t])
                  <=> i \in 1..(Len(told[t]) - n) /\ n + i \in Completions(told[t])
      /\ \A i \in Completions(log[t]) : log[t][i] = told[t][n + i]
  BY <1>1, <1>2, CompletionsOfPart
<1>5. CASE Completions(log[t]) = {}
  <2>1. ReplayedHash(t) = NoHash
    BY <1>4, <1>5, HashChosen DEF ReplayedHash
  <2>2. ASSUME maxTasks = 0 PROVE LastHash(told[t]) = NoHash
    <3>1. log[t] = told[t]
      BY <1>1, <1>2, <2>2, SubSeqFull
    <3> QED
      BY <2>1, <3>1 DEF ReplayedHash
  <2> QED
    BY <2>1, <2>2
<1>6. CASE Completions(log[t]) # {}
  <2>1. Completions(log[t]) \in SUBSET (1..(Len(told[t]) - n)) /\ Len(told[t]) - n \in Nat
    BY <1>3, <1>4
  <2>2. PICK i \in Completions(log[t]) : \A j \in Completions(log[t]) : j <= i
    BY <1>6, <2>1, GreatestOf
  <2>3. ReplayedHash(t) = log[t][i].hash
    BY <1>4, <2>2, HashChosen DEF ReplayedHash
  <2>4. ASSUME NEW k \in Completions(told[t]) PROVE k <= n + i
    <3>1. k \in 1..Len(told[t])
      BY <1>3 DEF Completions
    <3>2. CASE k <= n
      BY <1>3, <2>1, <3>1, <3>2
    <3>3. CASE ~(k <= n)
      <4>1. k - n \in 1..(Len(told[t]) - n) /\ n + (k - n) = k
        BY <1>3, <3>1, <3>3
      <4>2. k - n \in Completions(log[t])
        BY <1>4, <4>1
      <4>3. k - n <= i /\ i \in Nat
        BY <2>1, <2>2, <4>2
      <4> QED
        BY <3>1, <4>3
    <3> QED
      BY <3>2, <3>3
  <2>5. n + i \in Completions(told[t])
    BY <1>4, <2>2
  <2>6. LastHash(told[t]) = told[t][n + i].hash
    BY <1>1, <2>4, <2>5, HashChosen
  <2> QED
    BY <1>4, <2>2, <2>3, <2>6
<1> QED
  BY <1>5, <1>6

\* getOutputHash and a replay agree on a task that completed at most once.
LEMMA HashesAgree ==
  ASSUME StoreInv
  PROVE  HashesAgreeUnlessRerun
<1> SUFFICES ASSUME NEW t \in Task, ~(Cardinality(Completions(told[t])) > 1)
             PROVE  OutputHash(t) = ReplayedHash(t)
  BY DEF HashesAgreeUnlessRerun
<1>1. told[t] \in Seq(Event)
  BY DEF StoreInv, StoreTypeOK
<1>2. PICK n \in 0..Len(told[t]) : log[t] = SubSeq(told[t], n + 1, Len(told[t]))
  BY DEF StoreInv, LogIsLatestPart
<1>3. Len(told[t]) \in Nat /\ DOMAIN told[t] = 1..Len(told[t])
  BY <1>1, LenProperties
<1>4. /\ log[t] \in Seq(Event)
      /\ \A i : i \in Completions(log[t])
                  <=> i \in 1..(Len(told[t]) - n) /\ n + i \in Completions(told[t])
  BY <1>1, <1>2, CompletionsOfPart
<1>5. \A i, j \in Completions(told[t]) : i = j
  <2>1. IsFiniteSet(1..Len(told[t])) /\ Completions(told[t]) \in SUBSET (1..Len(told[t]))
    BY <1>3, FS_Interval DEF Completions
  <2>2. IsFiniteSet(Completions(told[t]))
    BY <2>1, FS_Subset
  <2>3. Cardinality(Completions(told[t])) \in {0, 1}
    BY <2>2, FS_CardinalityType
  <2>4. Completions(told[t]) = {} \/ \E x : Completions(told[t]) = {x}
    BY <2>2, <2>3, FS_EmptySet, FS_Singleton
  <2> QED
    BY <2>4
<1>6. \A i, j \in Completions(log[t]) : i = j /\ i \in Nat
  <2> SUFFICES ASSUME NEW i \in Completions(log[t]), NEW j \in Completions(log[t])
               PROVE  i = j /\ i \in Nat
    OBVIOUS
  <2>1. n + i = n + j /\ i \in Nat /\ j \in Nat
    BY <1>3, <1>4, <1>5
  <2> QED
    BY <2>1
<1>7. CASE Completions(log[t]) = {}
  BY <1>4, <1>7, HashChosen DEF OutputHash, ReplayedHash
<1>8. CASE Completions(log[t]) # {}
  <2>1. PICK i \in Completions(log[t]) : TRUE
    BY <1>8
  <2>2. \A j \in Completions(log[t]) : i <= j /\ j <= i
    BY <1>6
  <2> QED
    BY <1>4, <2>2, HashChosen DEF OutputHash, ReplayedHash
<1> QED
  BY <1>7, <1>8

=============================================================================
