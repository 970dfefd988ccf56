--------------------------- MODULE WorkerApi_proofs ---------------------------
(***************************************************************************)
(* The endpoints of one worker process keep what they promise, for any     *)
(* requests, deployments, limits, clocks and task ids.                     *)
(*                                                                         *)
(* ApiInv is what every handler preserves beside StoreInv.  The last part  *)
(* is needed for the limit: an instance that is yet to be created has the  *)
(* limit of the environment, and the constructor has refused one below 1.  *)
(***************************************************************************)
EXTENDS WorkerApi, EventStore_proofs

ApiInv ==
  /\ env \in Deployments
  /\ {created, accepting} \subseteq BOOLEAN
  /\ limit \in Int
  /\ created => limit >= 2
  /\ settings \subseteq Settings
  /\ pending \subseteq Requests
  /\ \A r \in pending : r.id \in Task
  /\ ~created => limit = ConfiguredLimit
  /\ ~env.serverless => created /\ CanCreate

-----------------------------------------------------------------------------
(* Checks                                                                  *)

\* The first check that fails decides.
LEMMA FirstFails ==
  ASSUME NEW n \in Nat, NEW checks, DOMAIN checks = 1..n, NEW all,
         NEW k \in 1..n, ~checks[k].holds,
         \A j \in 1..(k - 1) : checks[j].holds
  PROVE  Outcome(checks, all) = checks[k].answer
<1>1. \A i \in DOMAIN checks :
        ~checks[i].holds /\ (\A j \in 1..(i - 1) : checks[j].holds) => i = k
  <2> SUFFICES ASSUME NEW i \in 1..n, ~checks[i].holds,
                      \A j \in 1..(i - 1) : checks[j].holds
               PROVE  i = k
    OBVIOUS
  <2>1. i \notin 1..(k - 1) /\ k \notin 1..(i - 1)
    OBVIOUS
  <2> QED
    BY <2>1
<1>2. k = CHOOSE i \in DOMAIN checks :
            ~checks[i].holds /\ (\A j \in 1..(i - 1) : checks[j].holds)
  BY <1>1
<1>3. ~(\A i \in DOMAIN checks : checks[i].holds)
  OBVIOUS
<1> QED
  BY <1>2, <1>3 DEF Outcome

LEMMA NoneFails ==
  ASSUME NEW checks, NEW all, \A i \in DOMAIN checks : checks[i].holds
  PROVE  Outcome(checks, all) = all
BY DEF Outcome

\* A check that holds might as well not be made.
LEMMA PassedCheck ==
  ASSUME NEW s, NEW r, NEW all, NEW k \in DOMAIN s, s[k].holds,
         \E n \in Nat : DOMAIN s = 1..(n + 1) /\ DOMAIN r = 1..n,
         \A i \in DOMAIN r : r[i] = IF i < k THEN s[i] ELSE s[i + 1]
  PROVE  Outcome(s, all) = Outcome(r, all)
<1> PICK n \in Nat : DOMAIN s = 1..(n + 1) /\ DOMAIN r = 1..n
  OBVIOUS
<1>1. CASE \A i \in DOMAIN s : s[i].holds
  <2>1. \A i \in DOMAIN r : r[i].holds
    <3> SUFFICES ASSUME NEW i \in 1..n PROVE r[i].holds
      OBVIOUS
    <3>1. i \in DOMAIN s /\ i + 1 \in DOMAIN s
      OBVIOUS
    <3>2. s[i].holds /\ s[i + 1].holds
      BY <1>1, <3>1
    <3>3. r[i] = s[i] \/ r[i] = s[i + 1]
      OBVIOUS
    <3> QED
      BY <3>2, <3>3
  <2> QED
    BY <1>1, <2>1, NoneFails
<1>2. CASE ~(\A i \in DOMAIN s : s[i].holds)
  <2> DEFINE F == {i \in 1..(n + 1) : ~s[i].holds}
  <2>1. F \in SUBSET Nat /\ F # {}
    BY <1>2
  <2>2. PICK f \in F : \A i \in F : f <= i
    <3> HIDE DEF F
    <3> QED
      BY <2>1, LeastOf
  <2>3. /\ f \in 1..(n + 1) /\ ~s[f].holds /\ f # k
        /\ \A i \in 1..(f - 1) : s[i].holds
    <3>1. f \in 1..(n + 1) /\ ~s[f].holds /\ f # k
      BY <2>2
    <3>2. ASSUME NEW i \in 1..(f - 1) PROVE s[i].holds
      <4>1. i \in 1..(n + 1) /\ ~(f <= i)
        BY <3>1
      <4> QED
        BY <2>2, <4>1
    <3> QED
      BY <3>1, <3>2
  <2> HIDE DEF F
  <2>4. Outcome(s, all) = s[f].answer
    BY <2>3, FirstFails
  <2>5. CASE f < k
    <3>1. f \in 1..n /\ r[f] = s[f]
      BY <2>3, <2>5
    <3>2. ASSUME NEW i \in 1..(f - 1) PROVE r[i].holds
      <4>1. i \in 1..n /\ i < k
        BY <2>3, <2>5
      <4> QED
        BY <2>3, <4>1
    <3>3. Outcome(r, all) = r[f].answer
      <4>1. ~r[f].holds
        BY <2>3, <3>1
      <4> QED
        <5>1. n \in Nat /\ DOMAIN r = 1..n
          OBVIOUS
        <5>2. f \in 1..n
          BY <3>1
        <5>3. \A j \in 1..(f - 1) : r[j].holds
          BY <3>2
        <5> QED
          BY <4>1, <5>1, <5>2, <5>3, FirstFails
    <3> QED
      BY <2>4, <3>1, <3>3
  <2>6. CASE k < f
    <3> DEFINE g == f - 1
    <3>1. g \in 1..n /\ r[g] = s[f] /\ k <= g /\ g + 1 = f
      <4>1. g \in 1..n /\ k <= g /\ g + 1 = f
        BY <2>3, <2>6
      <4>2. r[g] = s[g + 1]
        BY <4>1
      <4> QED
        BY <4>1, <4>2
    <3>2. ASSUME NEW i \in 1..(g - 1) PROVE r[i].holds
      <4>1. i \in 1..n /\ i \in 1..(f - 1) /\ i + 1 \in 1..(f - 1)
        BY <2>3, <3>1
      <4>2. s[i].holds /\ s[i + 1].holds
        BY <2>3, <4>1
      <4>3. r[i] = s[i] \/ r[i] = s[i + 1]
        BY <4>1
      <4> QED
        BY <4>2, <4>3
    <3> HIDE DEF g
    <3>3. Outcome(r, all) = r[g].answer
      <4>1. ~r[g].holds
        BY <2>3, <3>1
      <4> QED
        <5>1. n \in Nat /\ DOMAIN r = 1..n
          OBVIOUS
        <5>2. g \in 1..n
          BY <3>1
        <5>3. \A j \in 1..(g - 1) : r[j].holds
          BY <3>2
        <5> QED
          BY <4>1, <5>1, <5>2, <5>3, FirstFails
    <3> QED
      BY <2>4, <3>1, <3>3
  <2> QED
    BY <2>3, <2>5, <2>6
<1> QED
  BY <1>1, <1>2

-----------------------------------------------------------------------------
(* Both entry points                                                       *)

LEMMA SubmitsAgree ==
  ASSUME NEW r, r.method, created
  PROVE  ServerlessSubmit(r) = StandaloneSubmit(r)
<1> DEFINE c2 == Check(r.parses, 400)
           c3 == Check(Authentic(r, r.id), 401)
           c5 == Check(accepting, 503)
           c6 == Check(HasSlot, 503)
           six == <<Check(r.method, 405), c2, c3, Check(created \/ CanCreate, 500), c5, c6>>
           five == <<Check(r.method, 405), c2, c3, c5, c6>>
           four == <<c2, c3, c5, c6>>
<1>1. six[4].holds /\ five[1].holds
  BY DEF Check
<1> HIDE DEF c2, c3, c5, c6
<1>2. Outcome(six, 200) = Outcome(five, 200)
  <2>1. /\ DOMAIN six = 1..6 /\ DOMAIN five = 1..5
        /\ five[1] = six[1] /\ five[2] = six[2] /\ five[3] = six[3]
        /\ five[4] = six[5] /\ five[5] = six[6]
    OBVIOUS
  <2>2. \E n \in Nat : DOMAIN six = 1..(n + 1) /\ DOMAIN five = 1..n
    BY <2>1, 5 \in Nat, 6 = 5 + 1
  <2> HIDE DEF six, five
  <2>3. \A i \in DOMAIN five : i \in {1, 2, 3, 4, 5}
    BY <2>1
  <2>4. \A i \in DOMAIN five : five[i] = IF i < 4 THEN six[i] ELSE six[i + 1]
    BY <2>1, <2>3
  <2>5. 4 \in DOMAIN six
    BY <2>1
  <2> QED
    BY <1>1, <2>2, <2>4, <2>5, PassedCheck, SMTT(60)
<1>3. Outcome(five, 200) = Outcome(four, 200)
  <2>1. /\ DOMAIN five = 1..5 /\ DOMAIN four = 1..4
        /\ four[1] = five[2] /\ four[2] = five[3] /\ four[3] = five[4]
        /\ four[4] = five[5]
    OBVIOUS
  <2>2. \E n \in Nat : DOMAIN five = 1..(n + 1) /\ DOMAIN four = 1..n
    BY <2>1, 4 \in Nat, 5 = 4 + 1
  <2> HIDE DEF five, four
  <2>3. \A i \in DOMAIN four : i \in {1, 2, 3, 4}
    BY <2>1
  <2>4. \A i \in DOMAIN four : four[i] = IF i < 1 THEN five[i] ELSE five[i + 1]
    BY <2>1, <2>3
  <2>5. 1 \in DOMAIN five
    BY <2>1
  <2> QED
    BY <1>1, <2>2, <2>4, <2>5, PassedCheck, SMTT(60)
<1> QED
  BY <1>2, <1>3 DEF ServerlessSubmit, StandaloneSubmit, c2, c3, c5, c6

LEMMA ReplaysAgree ==
  ASSUME NEW r, r.method, created
  PROVE  ServerlessReplay(r) = StandaloneReplay(r)
<1> DEFINE c2 == Check(r.parses, 400)
           c3 == Check(Authentic(r, r.id), 401)
           c5 == Check(r.id \in Stored, 404)
           five == <<Check(r.method, 405), c2, c3, Check(created, 503), c5>>
           four == <<Check(r.method, 405), c2, c3, c5>>
           three == <<c2, c3, c5>>
<1>1. five[4].holds /\ four[1].holds
  BY DEF Check
<1> HIDE DEF c2, c3, c5
<1>2. Outcome(five, 200) = Outcome(four, 200)
  <2>1. /\ DOMAIN five = 1..5 /\ DOMAIN four = 1..4
        /\ four[1] = five[1] /\ four[2] = five[2] /\ four[3] = five[3]
        /\ four[4] = five[5]
    OBVIOUS
  <2>2. \E n \in Nat : DOMAIN five = 1..(n + 1) /\ DOMAIN four = 1..n
    BY <2>1, 4 \in Nat, 5 = 4 + 1
  <2> HIDE DEF five, four
  <2>3. \A i \in DOMAIN four : i \in {1, 2, 3, 4}
    BY <2>1
  <2>4. \A i \in DOMAIN four : four[i] = IF i < 4 THEN five[i] ELSE five[i + 1]
    BY <2>1, <2>3
  <2>5. 4 \in DOMAIN five
    BY <2>1
  <2> QED
    BY <1>1, <2>2, <2>4, <2>5, PassedCheck, SMTT(60)
<1>3. Outcome(four, 200) = Outcome(three, 200)
  <2>1. /\ DOMAIN four = 1..4 /\ DOMAIN three = 1..3
        /\ three[1] = four[2] /\ three[2] = four[3] /\ three[3] = four[4]
    OBVIOUS
  <2>2. \E n \in Nat : DOMAIN four = 1..(n + 1) /\ DOMAIN three = 1..n
    BY <2>1, 3 \in Nat, 4 = 3 + 1
  <2> HIDE DEF four, three
  <2>3. \A i \in DOMAIN three : i \in {1, 2, 3}
    BY <2>1
  <2>4. \A i \in DOMAIN three : three[i] = IF i < 1 THEN four[i] ELSE four[i + 1]
    BY <2>1, <2>3
  <2>5. 1 \in DOMAIN four
    BY <2>1
  <2> QED
    BY <1>1, <2>2, <2>4, <2>5, PassedCheck, SMTT(60)
<1> QED
  BY <1>2, <1>3 DEF ServerlessReplay, StandaloneReplay, c2, c3, c5

LEMMA ConfigsAgree ==
  ASSUME NEW r, r.method, ~r.local, created
  PROVE  ServerlessConfig(r) = StandaloneConfig(r)
<1> DEFINE c2 == Check(r.parses, 400)
           c3 == Check(r.auth # NoAuth, 401)
           c4 == Check(Authentic(r, r.id), 401)
           c6 == Check(r.id = WorkerId, 400)
           c7 == Check(UpdateIsLegal(r), 500)
           seven == <<Check(r.method, 405), c2, c3, c4, Check(created, 503), c6, c7>>
           six == <<Check(r.method, 405), c2, c3, c4, c6, c7>>
           five == <<c2, c3, c4, c6, c7>>
<1>1. seven[5].holds /\ six[1].holds
  BY DEF Check
<1>2. /\ c3 = Check(r.local \/ r.auth # NoAuth, 401)
      /\ c4 = Check(r.local \/ Authentic(r, r.id), 401)
  BY DEF Authentic
<1> HIDE DEF c2, c3, c4, c6, c7
<1>3. Outcome(seven, 200) = Outcome(six, 200)
  <2>1. /\ DOMAIN seven = 1..7 /\ DOMAIN six = 1..6
        /\ six[1] = seven[1] /\ six[2] = seven[2] /\ six[3] = seven[3]
        /\ six[4] = seven[4] /\ six[5] = seven[6] /\ six[6] = seven[7]
    OBVIOUS
  <2>2. \E n \in Nat : DOMAIN seven = 1..(n + 1) /\ DOMAIN six = 1..n
    BY <2>1, 6 \in Nat, 7 = 6 + 1
  <2> HIDE DEF seven, six
  <2>3. \A i \in DOMAIN six : i \in {1, 2, 3, 4, 5, 6}
    BY <2>1
  <2>4. \A i \in DOMAIN six : six[i] = IF i < 5 THEN seven[i] ELSE seven[i + 1]
    BY <2>1, <2>3
  <2>5. 5 \in DOMAIN seven
    BY <2>1
  <2> QED
    BY <1>1, <2>2, <2>4, <2>5, PassedCheck, SMTT(60)
<1>4. Outcome(six, 200) = Outcome(five, 200)
  <2>1. /\ DOMAIN six = 1..6 /\ DOMAIN five = 1..5
        /\ five[1] = six[2] /\ five[2] = six[3] /\ five[3] = six[4]
        /\ five[4] = six[5] /\ five[5] = six[6]
    OBVIOUS
  <2>2. \E n \in Nat : DOMAIN six = 1..(n + 1) /\ DOMAIN five = 1..n
    BY <2>1, 5 \in Nat, 6 = 5 + 1
  <2> HIDE DEF six, five
  <2>3. \A i \in DOMAIN five : i \in {1, 2, 3, 4, 5}
    BY <2>1
  <2>4. \A i \in DOMAIN five : five[i] = IF i < 1 THEN six[i] ELSE six[i + 1]
    BY <2>1, <2>3
  <2>5. 1 \in DOMAIN six
    BY <2>1
  <2> QED
    BY <1>1, <2>2, <2>4, <2>5, PassedCheck, SMTT(60)
<1> QED
  BY <1>2, <1>3, <1>4 DEF ServerlessConfig, StandaloneConfig, c2, c3, c4, c6, c7

LEMMA HandlersDoAgree == StatusCodesAgree
<1> SUFFICES ASSUME created, NEW r \in Requests, ~r.local, r.endpoint # "drain"
             PROVE  Serverless(r) = Standalone(r)
  BY DEF StatusCodesAgree
<1>1. r.endpoint \in {"submit", "status", "replay", "config"} /\ r.method \in BOOLEAN
  BY ApiAssumption DEF Endpoints
<1>2. CASE ~r.method
  <2>1. Standalone(r) = 405
    BY <1>2 DEF Standalone
  <2>2. ASSUME NEW checks, DOMAIN checks \in {1..2, 1..5, 1..6, 1..7},
               checks[1] = Check(r.method, 405)
        PROVE  Outcome(checks, 200) = 405
    <3>1. ~checks[1].holds /\ checks[1].answer = 405
      BY <1>2, <2>2 DEF Check
    <3>2. PICK n \in {2, 5, 6, 7} : DOMAIN checks = 1..n
      BY <2>2
    <3>4. n \in Nat /\ 1 \in 1..n
      OBVIOUS
    <3>3. \A j \in 1..(1 - 1) : checks[j].holds
      OBVIOUS
    <3> QED
      BY <3>1, <3>2, <3>3, <3>4, FirstFails
  <2>3. CASE r.endpoint = "submit"
    <3>1. ServerlessSubmit(r) = 405
      BY <2>2 DEF ServerlessSubmit
    <3> QED
      BY <2>1, <2>3, <3>1 DEF Serverless
  <2>4. CASE r.endpoint = "status"
    <3>1. ServerlessStatus(r) = 405
      BY <2>2 DEF ServerlessStatus
    <3> QED
      BY <2>1, <2>4, <3>1 DEF Serverless
  <2>5. CASE r.endpoint = "replay"
    <3>1. ServerlessReplay(r) = 405
      BY <2>2 DEF ServerlessReplay
    <3> QED
      BY <2>1, <2>5, <3>1 DEF Serverless
  <2>6. CASE r.endpoint = "config"
    <3>1. ServerlessConfig(r) = 405
      BY <2>2 DEF ServerlessConfig
    <3> QED
      BY <2>1, <2>6, <3>1 DEF Serverless
  <2> QED
    BY <1>1, <2>3, <2>4, <2>5, <2>6
<1>3. CASE r.method
  <2>1. CASE r.endpoint = "submit"
    BY <1>3, <2>1, SubmitsAgree DEF Serverless, Standalone
  <2>2. CASE r.endpoint = "replay"
    BY <1>3, <2>2, ReplaysAgree DEF Serverless, Standalone
  <2>3. CASE r.endpoint = "config"
    BY <1>3, <2>3, ConfigsAgree DEF Serverless, Standalone
  <2>4. CASE r.endpoint = "status"
    <3>1. ServerlessStatus(r) = 200
      <4> DEFINE s == <<Check(r.method, 405), Check(created \/ CanCreate, 500)>>
      <4>1. DOMAIN s = 1..2 /\ s[1].holds /\ s[2].holds
        <5>0. DOMAIN s = 1..2
          OBVIOUS
        <5>1. s[1] = Check(r.method, 405) /\ s[2] = Check(created \/ CanCreate, 500)
          OBVIOUS
        <5>2. s[1].holds
          BY <1>3, <5>1 DEF Check
        <5>3. s[2].holds
          BY <5>1 DEF Check
        <5> QED
          BY <5>0, <5>2, <5>3
      <4> HIDE DEF s
      <4>2. \A i \in DOMAIN s : i \in {1, 2}
        BY <4>1
      <4>3. \A i \in DOMAIN s : s[i].holds
        BY <4>1, <4>2
      <4> QED
        BY <4>3, NoneFails DEF ServerlessStatus, s
    <3> QED
      BY <1>3, <2>4, <3>1 DEF Serverless, Standalone
  <2> QED
    BY <1>1, <2>1, <2>2, <2>3, <2>4
<1> QED
  BY <1>1, <1>2, <1>3

-----------------------------------------------------------------------------
(* What an answer of 200 says                                              *)

LEMMA AllHold ==
  ASSUME NEW all, NEW checks, \E n \in Nat : DOMAIN checks = 1..n,
         \A i \in DOMAIN checks : checks[i].answer # all,
         Outcome(checks, all) = all
  PROVE  \A i \in DOMAIN checks : checks[i].holds
<1> PICK n \in Nat : DOMAIN checks = 1..n
  OBVIOUS
<1> SUFFICES ASSUME ~(\A i \in DOMAIN checks : checks[i].holds)
             PROVE  FALSE
  OBVIOUS
<1> DEFINE F == {i \in 1..n : ~checks[i].holds}
<1>1. F \in SUBSET Nat /\ F # {}
  OBVIOUS
<1>2. PICK f \in F : \A i \in F : f <= i
  <2> HIDE DEF F
  <2> QED
    BY <1>1, LeastOf
<1>3. f \in 1..n /\ ~checks[f].holds
  BY <1>2
<1>4. \A i \in 1..(f - 1) : checks[i].holds
  <2> SUFFICES ASSUME NEW i \in 1..(f - 1) PROVE checks[i].holds
    OBVIOUS
  <2>1. i \in 1..n /\ ~(f <= i)
    BY <1>3
  <2> QED
    BY <1>2, <2>1
<1>5. Outcome(checks, all) = checks[f].answer
  BY <1>3, <1>4, FirstFails
<1> QED
  BY <1>3, <1>5

\* A submit or status that is answered has an instance, or can create one.
LEMMA AnsweredHasInstance ==
  ASSUME ApiInv, NEW r \in Requests, r.endpoint \in {"submit", "status"}, Answer(r) = 200
  PROVE  created \/ CanCreate
<1> SUFFICES ASSUME env.serverless PROVE created \/ CanCreate
  BY ApiAssumption DEF ApiInv
<1>1. CASE r.endpoint = "submit"
  <2> DEFINE s == <<Check(r.method, 405), Check(r.parses, 400),
                    Check(Authentic(r, r.id), 401),
                    Check(created \/ CanCreate, 500),
                    Check(accepting, 503), Check(HasSlot, 503)>>
  <2>1. Outcome(s, 200) = 200
    BY <1>1 DEF Answer, Serverless, ServerlessSubmit
  <2>2. DOMAIN s = 1..6
    OBVIOUS
  <2>3. /\ s[1].answer = 405 /\ s[2].answer = 400 /\ s[3].answer = 401
        /\ s[4].answer = 500 /\ s[5].answer = 503 /\ s[6].answer = 503
    BY DEF Check
  <2>4. s[4].holds <=> (created \/ CanCreate)
    <3> DEFINE c == created \/ CanCreate
    <3>1. s[4] = Check(c, 500)
      OBVIOUS
    <3> HIDE DEF s, c
    <3>2. s[4].holds = c
      BY <3>1 DEF Check
    <3> QED
      BY <3>2 DEF c
  <2> HIDE DEF s
  <2>5. \A i \in DOMAIN s : i \in {1, 2, 3, 4, 5, 6}
    BY <2>2
  <2>6. \A i \in DOMAIN s : s[i].answer # 200
    BY <2>3, <2>5
  <2>7. \E n \in Nat : DOMAIN s = 1..n
    BY <2>2, 6 \in Nat
  <2>8. 4 \in DOMAIN s
    BY <2>2
  <2> QED
    BY <2>1, <2>4, <2>6, <2>7, <2>8, AllHold
<1>2. CASE r.endpoint = "status"
  <2> DEFINE s == <<Check(r.method, 405), Check(created \/ CanCreate, 500)>>
  <2>1. Outcome(s, 200) = 200
    BY <1>2 DEF Answer, Serverless, ServerlessStatus
  <2>2. DOMAIN s = 1..2
    OBVIOUS
  <2>3. s[1].answer = 405 /\ s[2].answer = 500
    BY DEF Check
  <2>4. s[2].holds <=> (created \/ CanCreate)
    <3> DEFINE c == created \/ CanCreate
    <3>1. s[2] = Check(c, 500)
      OBVIOUS
    <3> HIDE DEF s, c
    <3>2. s[2].holds = c
      BY <3>1 DEF Check
    <3> QED
      BY <3>2 DEF c
  <2> HIDE DEF s
  <2>5. \A i \in DOMAIN s : i \in {1, 2}
    BY <2>2
  <2>6. \A i \in DOMAIN s : s[i].answer # 200
    BY <2>3, <2>5
  <2>7. \E n \in Nat : DOMAIN s = 1..n
    BY <2>2, 2 \in Nat
  <2>8. 2 \in DOMAIN s
    BY <2>2
  <2> QED
    BY <2>1, <2>4, <2>6, <2>7, <2>8, AllHold
<1> QED
  BY <1>1, <1>2

\* A configuration update that is answered is for an instance, and legal.
LEMMA AnsweredIsLegal ==
  ASSUME ApiInv, NEW r \in Requests, r.endpoint = "config", Answer(r) = 200
  PROVE  created /\ UpdateIsLegal(r)
<1>1. env.serverless \in BOOLEAN /\ r.method \in BOOLEAN
  BY ApiAssumption DEF ApiInv
<1>2. CASE env.serverless
  <2> DEFINE s == <<Check(r.method, 405), Check(r.parses, 400),
                    Check(r.auth # NoAuth, 401), Check(Authentic(r, r.id), 401),
                    Check(created, 503), Check(r.id = WorkerId, 400),
                    Check(UpdateIsLegal(r), 500)>>
  <2>1. Outcome(s, 200) = 200
    BY <1>2 DEF Answer, Serverless, ServerlessConfig
  <2>2. DOMAIN s = 1..7
    OBVIOUS
  <2>3. /\ s[1].answer = 405 /\ s[2].answer = 400 /\ s[3].answer = 401
        /\ s[4].answer = 401 /\ s[5].answer = 503 /\ s[6].answer = 400
        /\ s[7].answer = 500
    BY DEF Check
  <2>4. (s[5].holds <=> created) /\ (s[7].holds <=> UpdateIsLegal(r))
    <3>1. s[5] = Check(created, 503) /\ s[7] = Check(UpdateIsLegal(r), 500)
      OBVIOUS
    <3>2. created \in BOOLEAN /\ UpdateIsLegal(r) \in BOOLEAN
      BY DEF ApiInv, UpdateIsLegal
    <3> HIDE DEF s
    <3> QED
      BY <3>1, <3>2 DEF Check
  <2> HIDE DEF s
  <2>5. \A i \in DOMAIN s : i \in {1, 2, 3, 4, 5, 6, 7}
    BY <2>2
  <2>6. \A i \in DOMAIN s : s[i].answer # 200
    BY <2>3, <2>5
  <2>7. \E n \in Nat : DOMAIN s = 1..n
    BY <2>2, 7 \in Nat
  <2>8. 5 \in DOMAIN s /\ 7 \in DOMAIN s
    BY <2>2
  <2>9. \A i \in DOMAIN s : s[i].holds
    BY <2>1, <2>6, <2>7, AllHold
  <2> QED
    BY <2>4, <2>8, <2>9
<1>3. CASE ~env.serverless
  <2> DEFINE s == <<Check(r.parses, 400),
                    Check(r.local \/ r.auth # NoAuth, 401),
                    Check(r.local \/ Authentic(r, r.id), 401),
                    Check(r.id = WorkerId, 400), Check(UpdateIsLegal(r), 500)>>
  <2>1. Outcome(s, 200) = 200
    BY <1>1, <1>3 DEF Answer, Standalone, StandaloneConfig
  <2>2. DOMAIN s = 1..5
    OBVIOUS
  <2>3. /\ s[1].answer = 400 /\ s[2].answer = 401 /\ s[3].answer = 401
        /\ s[4].answer = 400 /\ s[5].answer = 500
    BY DEF Check
  <2>4. s[5].holds <=> UpdateIsLegal(r)
    <3>1. s[5] = Check(UpdateIsLegal(r), 500)
      OBVIOUS
    <3>2. UpdateIsLegal(r) \in BOOLEAN
      BY DEF UpdateIsLegal
    <3> HIDE DEF s
    <3> QED
      BY <3>1, <3>2 DEF Check
  <2> HIDE DEF s
  <2>5. \A i \in DOMAIN s : i \in {1, 2, 3, 4, 5}
    BY <2>2
  <2>6. \A i \in DOMAIN s : s[i].answer # 200
    BY <2>3, <2>5
  <2>7. \E n \in Nat : DOMAIN s = 1..n
    BY <2>2, 5 \in Nat
  <2>8. 5 \in DOMAIN s
    BY <2>2
  <2>9. \A i \in DOMAIN s : s[i].holds
    BY <2>1, <2>6, <2>7, AllHold
  <2> QED
    BY <1>3, <2>4, <2>8, <2>9 DEF ApiInv
<1> QED
  BY <1>1, <1>2, <1>3

\* An envelope that is taken for valid is fresh, whether signatures are checked
\* or not, and signed for this id wherever they are (validate.ts).
THEOREM ValidIsFreshAndSigned ==
  ASSUME NEW auth, NEW id, NEW now \in Nat, NEW skip \in BOOLEAN, NEW secret \in BOOLEAN,
         auth.longEnough \in BOOLEAN, auth.ttl \in Int, auth.issued \in Int,
         ValidateAuth(auth, id, now, skip, secret) = "valid"
  PROVE  /\ auth.longEnough /\ auth.ttl > 0
         /\ auth.issued - ClockSkew <= now /\ now <= auth.issued + auth.ttl
         /\ ~skip => secret /\ auth.signature = <<id, auth.issued, auth.ttl>>
<1> DEFINE signed == auth.signature = Signature(id, auth)
           b1 == WellFormed(auth)
           b2 == now <= auth.issued + auth.ttl
           b3 == auth.issued <= now + ClockSkew
           b4 == skip \/ secret
           b5 == skip \/ signed
           s == <<Check(b1, "invalid_format"), Check(b2, "expired"),
                  Check(b3, "issued_in_future"), Check(b4, "missing_auth_secret"),
                  Check(b5, "invalid_signature")>>
<1>1. Outcome(s, "valid") = "valid"
  BY DEF ValidateAuth
<1> HIDE DEF b1, b2, b3, b4, b5
<1>2. DOMAIN s = 1..5
  OBVIOUS
<1>3. /\ s[1].answer = "invalid_format" /\ s[2].answer = "expired"
      /\ s[3].answer = "issued_in_future" /\ s[4].answer = "missing_auth_secret"
      /\ s[5].answer = "invalid_signature"
      /\ s[1].holds = b1 /\ s[2].holds = b2 /\ s[3].holds = b3
      /\ s[4].holds = b4 /\ s[5].holds = b5
  BY DEF Check
<1> HIDE DEF s
<1>4. \A i \in DOMAIN s : i \in {1, 2, 3, 4, 5}
  BY <1>2
<1>5. \A i \in DOMAIN s : s[i].answer # "valid"
  BY <1>3, <1>4
<1>6. \E n \in Nat : DOMAIN s = 1..n
  BY <1>2, 5 \in Nat
<1>7. \A i \in DOMAIN s : s[i].holds
  BY <1>1, <1>5, <1>6, AllHold
<1>8. b1 /\ b2 /\ b3 /\ b4 /\ b5
  BY <1>2, <1>3, <1>7
<1> QED
  BY <1>8, AuthAssumption DEF b1, b2, b3, b4, b5, WellFormed, Signature

-----------------------------------------------------------------------------
(* The steps                                                               *)

LEMMA LimitIsInt ==
  ASSUME env \in Deployments
  PROVE  ConfiguredLimit \in Int
BY ApiAssumption DEF ConfiguredLimit, FromEnv, Preset, LocalPreset, VercelPreset

LEMMA InitKeeps ==
  ASSUME Init
  PROVE  StoreInv /\ ApiInv
<1>1. StoreInv
  BY InitStore DEF Init
<1>2. env.serverless \in BOOLEAN /\ ConfiguredLimit \in Int
  BY ApiAssumption, LimitIsInt DEF Init
<1>3. ~env.serverless => ConfiguredLimit >= 2
  BY DEF Init, CanCreate
<1> QED
  BY <1>1, <1>2, <1>3 DEF Init, ApiInv, CanCreate

LEMMA QuietKeeps ==
  ASSUME StoreInv, UNCHANGED storeVars
  PROVE  StoreInv' /\ EvictsOldest
<1>1. /\ UNCHANGED <<maxTasks, memory>>
      /\ wall' \in Nat /\ last' \in Nat /\ last <= last'
      /\ phase' \in [Task -> Phases]
  BY DEF storeVars, clockVars, StoreInv, StoreTypeOK, Phases
<1> QED
  BY <1>1, StampKeeps

\* The instance as it is.
LEMMA SameInstance ==
  ASSUME ApiInv, UNCHANGED <<env, instance>>, pending' \subseteq Requests,
         \A r \in pending' : r.id \in Task
  PROVE  ApiInv'
<1>1. UNCHANGED <<env, created, accepting, limit, settings>>
  BY DEF instance
<1>2. ConfiguredLimit' = ConfiguredLimit
  BY <1>1 DEF ConfiguredLimit, FromEnv, Preset, LocalPreset, VercelPreset
<1> QED
  BY <1>1, <1>2 DEF ApiInv, CanCreate

\* The instance as it is, created where it was not.
LEMMA InstanceIsThere ==
  ASSUME ApiInv, created' = TRUE, created \/ CanCreate,
         UNCHANGED <<env, accepting, limit, settings, pending>>
  PROVE  ApiInv'
<1>1. ConfiguredLimit' = ConfiguredLimit
  BY DEF ConfiguredLimit, FromEnv, Preset, LocalPreset, VercelPreset
<1>2. limit >= 2
  BY DEF ApiInv, CanCreate
<1> QED
  BY <1>1, <1>2 DEF ApiInv, CanCreate

LEMMA RefuseKeeps ==
  ASSUME StoreInv, ApiInv, NEW r \in Requests, Refuse(r)
  PROVE  StoreInv' /\ ApiInv' /\ EvictsOldest
<1>1. UNCHANGED <<storeVars, env, instance, pending>>
  BY DEF Refuse
<1>2. pending' \subseteq Requests /\ \A q \in pending' : q.id \in Task
  BY <1>1 DEF ApiInv
<1> QED
  BY <1>1, <1>2, QuietKeeps, SameInstance

LEMMA SubmitKeeps ==
  ASSUME StoreInv, ApiInv, NEW r \in Requests, Submit(r)
  PROVE  StoreInv' /\ ApiInv' /\ EvictsOldest
<1>1. CASE Refuse(r)
  BY <1>1, RefuseKeeps
<1>2. CASE /\ Answer(r) = 200
           /\ created' = TRUE
           /\ SubmitErrs(r) \/ SubmitRuns(r)
           /\ UNCHANGED <<env, accepting, limit, settings, pending>>
  <2>1. ApiInv'
    BY <1>2, AnsweredHasInstance, InstanceIsThere DEF Submit
  <2>2. CASE SubmitErrs(r)
    BY <2>1, <2>2, QuietKeeps DEF SubmitErrs
  <2>3. CASE SubmitRuns(r)
    <3>1. Begin(r.id)
      BY <2>3 DEF SubmitRuns
    <3>2. r.id \in Task
      BY ApiAssumption DEF Submit
    <3>3. /\ "TASK_ACCEPTED" \in Kinds /\ NoHash \in Hash \union {NoHash}
          /\ Tell(r.id, "TASK_ACCEPTED", NoHash)
          /\ phase' \in [Task -> Phases]
      BY <3>1 DEF Begin, Kinds, Phases, StoreInv, StoreTypeOK
    <3> QED
      BY <2>1, <3>2, <3>3, TellKeeps
  <2> QED
    BY <1>2, <2>2, <2>3
<1> QED
  BY <1>1, <1>2 DEF Submit

LEMMA StatusKeeps ==
  ASSUME StoreInv, ApiInv, NEW r \in Requests, Status(r)
  PROVE  StoreInv' /\ ApiInv' /\ EvictsOldest
<1>1. CASE Refuse(r)
  BY <1>1, RefuseKeeps
<1>2. CASE ~Refuse(r)
  <2>1. /\ r.endpoint = "status" /\ Answer(r) = 200 /\ created' = TRUE
        /\ UNCHANGED <<storeVars, env, accepting, limit, settings, pending>>
    BY <1>2 DEF Status
  <2> QED
    BY <2>1, AnsweredHasInstance, InstanceIsThere, QuietKeeps
<1> QED
  BY <1>1, <1>2

LEMMA ConfigKeeps ==
  ASSUME StoreInv, ApiInv, NEW r \in Requests, Config(r)
  PROVE  StoreInv' /\ ApiInv' /\ EvictsOldest
<1>1. CASE Refuse(r)
  BY <1>1, RefuseKeeps
<1>2. CASE ~Refuse(r)
  <2>1. /\ r.endpoint = "config" /\ Answer(r) = 200
        /\ limit' = IF r.max = NoLimit THEN limit ELSE r.max
        /\ settings' = settings \union r.sets
        /\ UNCHANGED <<storeVars, env, created, accepting, pending>>
    BY <1>2 DEF Config
  <2>2. created /\ UpdateIsLegal(r)
    BY <2>1, AnsweredIsLegal
  <2>3. limit' \in Int /\ limit' >= 2
    BY <2>1, <2>2, ApiAssumption DEF ApiInv, UpdateIsLegal
  <2>4. settings' \subseteq Settings
    BY <2>1, ApiAssumption DEF ApiInv
  <2>5. ConfiguredLimit' = ConfiguredLimit
    BY <2>1 DEF ConfiguredLimit, FromEnv, Preset, LocalPreset, VercelPreset
  <2>6. ApiInv'
    BY <2>1, <2>2, <2>3, <2>4, <2>5 DEF ApiInv, CanCreate
  <2> QED
    BY <2>1, <2>6, QuietKeeps
<1> QED
  BY <1>1, <1>2

LEMMA HandleKeeps ==
  ASSUME StoreInv, ApiInv, NEW r \in Requests, Handle(r)
  PROVE  StoreInv' /\ ApiInv' /\ EvictsOldest
<1>1. CASE Drain(r)
  <2>1. Refuse(r) \/ UNCHANGED <<storeVars, env, instance, pending>>
    BY <1>1 DEF Drain
  <2>2. CASE UNCHANGED <<storeVars, env, instance, pending>>
    <3>1. pending' \subseteq Requests /\ \A q \in pending' : q.id \in Task
      BY <2>2 DEF ApiInv
    <3> QED
      BY <2>2, <3>1, QuietKeeps, SameInstance
  <2> QED
    BY <2>1, <2>2, RefuseKeeps
<1>2. CASE Replay(r)
  <2>1. Refuse(r) \/ (pending' = {r} /\ UNCHANGED <<storeVars, env, instance>>)
    BY <1>2 DEF Replay
  <2>2. CASE pending' = {r} /\ UNCHANGED <<storeVars, env, instance>>
    <3>1. pending' \subseteq Requests /\ \A q \in pending' : q.id \in Task
      BY <1>2, <2>2, ApiAssumption DEF Replay
    <3> QED
      BY <2>2, <3>1, QuietKeeps, SameInstance
  <2> QED
    BY <2>1, <2>2, RefuseKeeps
<1>3. CASE AnswerReplay(r)
  <2>1. pending' \subseteq pending /\ UNCHANGED <<storeVars, env, instance>>
    BY <1>3 DEF AnswerReplay
  <2>2. pending' \subseteq Requests /\ \A q \in pending' : q.id \in Task
    BY <2>1 DEF ApiInv
  <2> QED
    BY <2>1, <2>2, QuietKeeps, SameInstance
<1> QED
  BY <1>1, <1>2, <1>3, SubmitKeeps, StatusKeeps, ConfigKeeps DEF Handle

LEMMA RunStepKeeps ==
  ASSUME StoreInv, ApiInv, NEW t \in Task, RunStep(t)
  PROVE  StoreInv' /\ ApiInv' /\ EvictsOldest
<1>1. ApiInv'
  <2>1. /\ UNCHANGED <<env, instance>>
        /\ pending' \subseteq Requests /\ \A q \in pending' : q.id \in Task
    BY DEF RunStep, ApiInv
  <2> QED
    BY <2>1, SameInstance
<1>2. phase \in [Task -> Phases] /\ wall \in Nat /\ last \in Nat
  BY DEF StoreInv, StoreTypeOK, Phases
<1>3. CASE FirstToken(t)
  <2>1. /\ Tell(t, "FIRST_TOKEN", NoHash) /\ phase' \in [Task -> Phases]
        /\ "FIRST_TOKEN" \in Kinds /\ NoHash \in Hash \union {NoHash}
    BY <1>2, <1>3 DEF FirstToken, Kinds, Phases
  <2> QED
    BY <1>1, <2>1, TellKeeps
<1>4. ASSUME NEW h \in Hash, Complete(t, h)
      PROVE  StoreInv' /\ EvictsOldest
  <2>1. /\ Tell(t, "TASK_COMPLETED", h) /\ phase' \in [Task -> Phases]
        /\ "TASK_COMPLETED" \in Kinds /\ h \in Hash \union {NoHash}
    BY <1>2, <1>4 DEF Complete, Kinds, Phases
  <2> QED
    BY <2>1, TellKeeps
<1>5. CASE Fail(t)
  <2>1. /\ Tell(t, "TASK_FAILED", NoHash) /\ phase' \in [Task -> Phases]
        /\ "TASK_FAILED" \in Kinds /\ NoHash \in Hash \union {NoHash}
    BY <1>2, <1>5 DEF Fail, Kinds, Phases
  <2> QED
    BY <1>1, <2>1, TellKeeps
<1>6. CASE Lose(t)
  <2>1. Now \in Nat /\ last < Now
    BY <1>2, NowIsNew
  <2>2. /\ UNCHANGED <<maxTasks, memory>> /\ wall' \in Nat
        /\ last' \in Nat /\ last <= last'
        /\ phase' \in [Task -> Phases]
    BY <1>2, <1>6, <2>1 DEF Lose, Phases
  <2> QED
    BY <1>1, <2>2, StampKeeps
<1> QED
  BY <1>1, <1>3, <1>4, <1>5, <1>6 DEF RunStep

LEMMA NextKeeps ==
  ASSUME StoreInv, ApiInv, [Next]_vars
  PROVE  StoreInv' /\ ApiInv' /\ EvictsOldest
<1>1. phase \in [Task -> Phases] /\ wall \in Nat /\ last \in Nat
  BY DEF StoreInv, StoreTypeOK, Phases
<1>2. CASE UNCHANGED vars
  <2>1. UNCHANGED <<storeVars, env, instance, pending>>
    BY <1>2 DEF vars
  <2>2. pending' \subseteq Requests /\ \A q \in pending' : q.id \in Task
    BY <2>1 DEF ApiInv
  <2> QED
    BY <2>1, <2>2, QuietKeeps, SameInstance
<1>3. CASE DrainTimer
  <2>1. Now \in Nat /\ last < Now
    BY <1>1, NowIsNew
  <2>2. /\ UNCHANGED <<maxTasks, memory>> /\ wall' \in Nat
        /\ last' \in Nat /\ last <= last'
        /\ phase' \in [Task -> Phases]
    BY <1>1, <1>3, <2>1 DEF DrainTimer, Stamp
  <2>3. /\ accepting' = FALSE
        /\ UNCHANGED <<env, created, limit, settings, pending>>
    BY <1>3 DEF DrainTimer
  <2>4. ConfiguredLimit' = ConfiguredLimit
    BY <2>3 DEF ConfiguredLimit, FromEnv, Preset, LocalPreset, VercelPreset
  <2>5. ApiInv'
    BY <2>3, <2>4 DEF ApiInv, CanCreate
  <2> QED
    BY <2>2, <2>5, StampKeeps
<1>4. CASE ClockMoves
  <2>1. /\ UNCHANGED <<maxTasks, memory>> /\ wall' \in Nat
        /\ last' \in Nat /\ last <= last'
        /\ phase' \in [Task -> Phases]
    BY <1>1, <1>4, ClockAssumption DEF ClockMoves, Tick
  <2>2. UNCHANGED <<env, instance, pending>>
    BY <1>4 DEF ClockMoves
  <2>3. pending' \subseteq Requests /\ \A q \in pending' : q.id \in Task
    BY <2>2 DEF ApiInv
  <2> QED
    BY <2>1, <2>2, <2>3, StampKeeps, SameInstance
<1>5. CASE Restart
  <2>1. StoreInv' /\ EvictsOldest
    BY <1>5, ForgetForgets DEF Restart
  <2>2. env.serverless \in BOOLEAN /\ ConfiguredLimit \in Int
    BY ApiAssumption, LimitIsInt DEF ApiInv
  <2>3. /\ created' = ~env.serverless /\ accepting' = TRUE
        /\ limit' = ConfiguredLimit /\ settings' = {} /\ pending' = {}
        /\ env' = env
    BY <1>5 DEF Restart
  <2>4. ConfiguredLimit' = ConfiguredLimit
    BY <2>3 DEF ConfiguredLimit, FromEnv, Preset, LocalPreset, VercelPreset
  <2>5. ~env.serverless => ConfiguredLimit >= 2
    BY DEF ApiInv, CanCreate
  <2>6. ApiInv'
    BY <2>2, <2>3, <2>4, <2>5 DEF ApiInv, CanCreate
  <2> QED
    BY <2>1, <2>6
<1> QED
  BY <1>2, <1>3, <1>4, <1>5, HandleKeeps, RunStepKeeps DEF Next

-----------------------------------------------------------------------------
(* What a step answers                                                     *)

Judged ==
  reply'.body = "replayed" =>
    LET latest == LastHash(told[reply'.id])
    IN  /\ reply'.match = "true" => reply'.expected = latest
        /\ reply'.match = "false" => reply'.expected # latest
        /\ reply'.match = "null" /\ reply'.expected # NoHash /\ maxTasks = 0
             => latest = NoHash

LEMMA VerdictsAreLatest ==
  ASSUME StoreInv, ApiInv, Next
  PROVE  Judged
<1>1. ASSUME NEW r \in Requests, AnswerReplay(r) PROVE Judged
  <2>1. r.id \in Task
    BY <1>1 DEF AnswerReplay, ApiInv
  <2>2. /\ reply'.id = r.id /\ reply'.expected = r.expected
        /\ reply'.match = HashMatch(r.id, r.expected)
    BY <1>1 DEF AnswerReplay
  <2>3. /\ ReplayedHash(r.id) # NoHash => ReplayedHash(r.id) = LastHash(told[r.id])
        /\ maxTasks = 0 => ReplayedHash(r.id) = LastHash(told[r.id])
    BY <2>1, ReplayFindsLatest
  <2> QED
    BY <2>2, <2>3 DEF Judged, HashMatch
<1>2. ASSUME reply'.body \in {"none", "refusal", "error", "run", "status", "updated",
                              "draining", "admitted"}
      PROVE  Judged
  BY <1>2 DEF Judged
<1>3. ASSUME NEW r \in Requests,
             Submit(r) \/ Status(r) \/ Config(r) \/ Drain(r) \/ Replay(r)
      PROVE  Judged
  <2>1. reply'.body \in {"refusal", "error", "run", "status", "updated",
                         "draining", "admitted"}
    BY <1>3 DEF Submit, SubmitErrs, SubmitRuns, Status, Config, Drain, Replay, Refuse, Says
  <2> QED
    BY <1>2, <2>1
<1>4. ASSUME (\E t \in Task : RunStep(t)) \/ DrainTimer \/ ClockMoves \/ Restart
      PROVE  Judged
  <2>1. reply'.body = "none"
    BY <1>4 DEF RunStep, DrainTimer, ClockMoves, Restart, NoReply
  <2> QED
    BY <1>2, <2>1
<1> QED
  BY <1>1, <1>3, <1>4 DEF Next, Handle

-----------------------------------------------------------------------------
(* The theorems                                                            *)

LEMMA Invariant == Spec => [](StoreInv /\ ApiInv)
<1>1. Init => StoreInv /\ ApiInv
  BY InitKeeps
<1>2. StoreInv /\ ApiInv /\ [Next]_vars => (StoreInv /\ ApiInv)'
  BY NextKeeps
<1> QED
  BY <1>1, <1>2, PTL DEF Spec

\* The variables of a worker process stay within their types, and an instance
\* that is there takes at least one task (WorkerConfigSchema, updateConfig).
THEOREM TypesHold == Spec => []TypeOK
<1>1. StoreInv /\ ApiInv => TypeOK
  BY DEF StoreInv, ApiInv, TypeOK
<1> QED
  BY <1>1, Invariant, PTL

\* Every event of a worker has a stamp of its own, in the order of recording,
\* however the system clock is set (utils/clock.ts).
THEOREM StampsAlwaysOrder == Spec => []StampsOrderEvents
<1>1. StoreInv /\ ApiInv => StampsOrderEvents
  BY DEF StoreInv
<1> QED
  BY <1>1, Invariant, PTL

\* What the store has of a task is the last part of what was recorded for it,
\* and all of it where there is no limit (memory-store.ts, replayer.ts).
THEOREM LogsAreLatestParts == Spec => []LogIsLatestPart
<1>1. StoreInv /\ ApiInv => LogIsLatestPart
  BY DEF StoreInv
<1> QED
  BY <1>1, Invariant, PTL

\* A store with a limit exceeds it only behind the task id "", which is never
\* evicted (memory-store.ts:27-32).
THEOREM StoreStaysBounded == Spec => []StoreBounded
<1>1. StoreInv /\ ApiInv => StoreBounded
  BY DEF StoreInv
<1> QED
  BY <1>1, Invariant, PTL

\* The log that makes room for a new task is the one that was begun first.
THEOREM OldestAlwaysGoesFirst == Spec => OldestGoesFirst
<1>1. StoreInv /\ ApiInv /\ [Next]_vars => [EvictsOldest]_vars
  BY NextKeeps
<1> QED
  BY <1>1, Invariant, PTL DEF Spec, OldestGoesFirst

\* getOutputHash and a replay agree on the output of a task that completed at
\* most once.
THEOREM HashesAlwaysAgree == Spec => []HashesAgreeUnlessRerun
<1>1. StoreInv /\ ApiInv => HashesAgreeUnlessRerun
  BY HashesAgree
<1> QED
  BY <1>1, Invariant, PTL

\* api/*.ts and server.ts refuse the same requests with the same status code,
\* for whatever limits, envelopes, secrets, clocks and contents of the store.
THEOREM StatusCodesAlwaysAgree == Spec => []StatusCodesAgree
BY HandlersDoAgree, PTL

\* A replay says that an output matches, or does not, of the output recorded
\* last, whatever happened to the task since the replay was admitted.
THEOREM ReplaysJudgeLatest == Spec => ReplayJudgesLatestRun
<1>1. StoreInv /\ ApiInv /\ [Next]_vars => [Judged]_vars
  BY VerdictsAreLatest
<1>2. [][Judged]_vars => ReplayJudgesLatestRun
  BY DEF Judged, ReplayJudgesLatestRun
<1> QED
  BY <1>1, <1>2, Invariant, PTL DEF Spec

=============================================================================
