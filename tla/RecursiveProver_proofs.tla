----------------------- MODULE RecursiveProver_proofs -----------------------
(***************************************************************************)
(* Safety of the proof-job server for any number of handlers, workers and  *)
(* manifests, any queue capacity and any engine.                           *)
(***************************************************************************)
EXTENDS RecursiveProver, FiniteSetTheorems, TLAPS

Finished == {"succeeded", "failed"}

Unfinished == {id \in DOMAIN jobs : jobs[id].state \notin Finished}

(* Only unfinished jobs are held, and each of them is.                     *)
HeldAreUnfinished ==
  /\ \A h \in Handlers : sending[h] # NoId => sending[h] \in Unfinished
  /\ \A i \in DOMAIN queue : queue[i] \in Unfinished
  /\ \A w \in Workers : taken[w] # NoId => taken[w] \in Unfinished

UnfinishedAreHeld ==
  \A id \in Unfinished : \/ \E h \in Handlers : sending[h] = id
                         \/ \E i \in DOMAIN queue : queue[i] = id
                         \/ \E w \in Workers : taken[w] = id

(* No two places hold one job. *)
PlacesApart ==
  /\ \A h, g \in Handlers : sending[h] = sending[g] /\ sending[h] # NoId => h = g
  /\ \A i, j \in DOMAIN queue : queue[i] = queue[j] => i = j
  /\ \A w, v \in Workers : taken[w] = taken[v] /\ taken[w] # NoId => w = v
  /\ \A h \in Handlers, i \in DOMAIN queue : sending[h] # queue[i]
  /\ \A h \in Handlers, w \in Workers : sending[h] = taken[w] => sending[h] = NoId
  /\ \A i \in DOMAIN queue, w \in Workers : queue[i] # taken[w]

(* A job has an artifact exactly once it has succeeded with it.            *)
Outcomes ==
  \A id \in DOMAIN jobs :
    /\ jobs[id].artifact # NoAnswer <=> jobs[id].state = "succeeded"
    /\ jobs[id].artifact # NoAnswer =>
         /\ jobs[id].artifact.recursivelyProved
         /\ jobs[id].artifact \in Engine[jobs[id].manifest]

ProverInv ==
  /\ TypeOK
  /\ HeldAreUnfinished
  /\ UnfinishedAreHeld
  /\ PlacesApart
  /\ Outcomes
  /\ \A w \in proving : taken[w] # NoId

Job == [state : JobState, manifest : Manifests, artifact : Answers \cup {NoAnswer}]

LEMMA InitProver == Init => ProverInv
<1>1. SUFFICES ASSUME Init PROVE ProverInv
  OBVIOUS
<1>2. /\ DOMAIN jobs = {} /\ queue = << >> /\ proving = {}
      /\ sending = [h \in Handlers |-> NoId] /\ taken = [w \in Workers |-> NoId]
      /\ jobs = [id \in {} |-> {}]
  BY <1>1 DEF Init
<1>3. TypeOK
  <2>1. Len(queue) <= Capacity /\ queue \in Seq(JobIds)
    BY <1>2, ServerAssumption
  <2>2. sending \in [Handlers -> JobIds \cup {NoId}]
        /\ taken \in [Workers -> JobIds \cup {NoId}]
    BY <1>2
  <2>3. jobs \in [DOMAIN jobs -> [state : JobState, manifest : Manifests,
                                  artifact : Answers \cup {NoAnswer}]]
    BY <1>2
  <2>4. QED
    BY <1>2, <2>1, <2>2, <2>3 DEF TypeOK
<1>4. Unfinished = {} /\ DOMAIN queue = {}
  BY <1>2 DEF Unfinished
<1>5. HeldAreUnfinished /\ UnfinishedAreHeld /\ PlacesApart
  BY <1>2, <1>4 DEF HeldAreUnfinished, UnfinishedAreHeld, PlacesApart
<1>6. Outcomes
  BY <1>2 DEF Outcomes
<1>7. QED
  BY <1>2, <1>3, <1>5, <1>6 DEF ProverInv

LEMMA SubmitProver ==
  ASSUME ProverInv, NEW h \in Handlers, NEW m \in Manifests, Submit(h, m)
  PROVE  ProverInv'
<1> DEFINE id == IdOf[m]
           job == [state |-> "queued", manifest |-> m, artifact |-> NoAnswer]
<1>1. /\ sending[h] = NoId
      /\ id \notin DOMAIN jobs
      /\ jobs' = [x \in DOMAIN jobs \cup {id} |-> IF x = id THEN job ELSE jobs[x]]
      /\ sending' = [sending EXCEPT ![h] = id]
      /\ UNCHANGED <<queue, taken, proving>>
  BY DEF Submit, Known
<1>2. id \in JobIds /\ id # NoId
  BY ServerAssumption
<1>3. job \in Job /\ job.state = "queued" /\ job.artifact = NoAnswer
  BY DEF Job, JobState
<1> HIDE DEF id, job
<1>4. /\ DOMAIN jobs' = DOMAIN jobs \cup {id}
      /\ jobs'[id] = job
      /\ \A x \in DOMAIN jobs : jobs'[x] = jobs[x]
  BY <1>1
<1>5. /\ sending' \in [Handlers -> JobIds \cup {NoId}]
      /\ sending'[h] = id
      /\ \A g \in Handlers : g # h => sending'[g] = sending[g]
  BY <1>1, <1>2 DEF ProverInv, TypeOK
<1>6. TypeOK'
  <2>1. \A x \in DOMAIN jobs' : jobs'[x] \in Job
    BY <1>3, <1>4 DEF ProverInv, TypeOK, Job
  <2>2. jobs' \in [DOMAIN jobs' -> Job]
    BY <1>1, <1>4, <2>1
  <2>3. DOMAIN jobs' \subseteq JobIds
    BY <1>2, <1>4 DEF ProverInv, TypeOK
  <2>4. QED
    BY <1>1, <1>5, <2>2, <2>3 DEF ProverInv, TypeOK, Job
<1>7. Unfinished' = Unfinished \cup {id} /\ id \notin Unfinished
  BY <1>1, <1>3, <1>4 DEF Unfinished, Finished
<1>8. HeldAreUnfinished'
  BY <1>1, <1>5, <1>7 DEF ProverInv, HeldAreUnfinished
<1>9. UnfinishedAreHeld'
  <2>1. ASSUME NEW x \in Unfinished
        PROVE  \/ \E g \in Handlers : sending'[g] = x
               \/ \E i \in DOMAIN queue : queue[i] = x
               \/ \E w \in Workers : taken[w] = x
    <3>1. CASE \E g \in Handlers : sending[g] = x
      <4>1. PICK g \in Handlers : sending[g] = x
        BY <3>1
      <4>2. x # NoId
        BY <2>1, ServerAssumption DEF Unfinished, ProverInv, TypeOK
      <4>3. QED
        BY <1>1, <1>5, <4>1, <4>2
    <3>2. QED
      BY <2>1, <3>1 DEF ProverInv, UnfinishedAreHeld
  <2>2. QED
    BY <1>1, <1>5, <1>7, <2>1 DEF UnfinishedAreHeld
<1>10. PlacesApart'
  <2>1. /\ \A g \in Handlers : sending[g] # id
        /\ \A i \in DOMAIN queue : queue[i] # id
        /\ \A w \in Workers : taken[w] # id
    BY <1>2, <1>7 DEF ProverInv, HeldAreUnfinished
  <2>2. QED
    BY <1>1, <1>2, <1>5, <2>1 DEF ProverInv, PlacesApart
<1>11. Outcomes'
  BY <1>3, <1>4 DEF ProverInv, Outcomes
<1>12. QED
  BY <1>1, <1>6, <1>8, <1>9, <1>10, <1>11 DEF ProverInv

LEMMA SendProver ==
  ASSUME ProverInv, NEW h \in Handlers, Send(h)
  PROVE  ProverInv'
<1> DEFINE id == sending[h]
           k == Len(queue)
<1>1. /\ id # NoId
      /\ k < Capacity
      /\ queue' = Append(queue, id)
      /\ sending' = [sending EXCEPT ![h] = NoId]
      /\ UNCHANGED <<jobs, taken, proving>>
  BY DEF Send, Enqueue
<1>2. id \in JobIds /\ id \in Unfinished /\ queue \in Seq(JobIds)
  BY <1>1 DEF ProverInv, TypeOK, HeldAreUnfinished
<1>3. /\ k \in Nat /\ DOMAIN queue = 1..k
      /\ queue' \in Seq(JobIds) /\ Len(queue') = k + 1 /\ DOMAIN queue' = 1..k + 1
      /\ queue'[k + 1] = id
      /\ \A i \in 1..k : queue'[i] = queue[i]
  BY <1>1, <1>2
<1>4. /\ sending' \in [Handlers -> JobIds \cup {NoId}]
      /\ sending'[h] = NoId
      /\ \A g \in Handlers : g # h => sending'[g] = sending[g]
  BY <1>1 DEF ProverInv, TypeOK
<1>5. 1..k + 1 = 1..k \cup {k + 1} /\ k + 1 \notin 1..k
  BY <1>3
<1>6. k + 1 <= Capacity
  BY <1>1, <1>3, ServerAssumption
<1> HIDE DEF id, k
<1>7. TypeOK'
  BY <1>1, <1>3, <1>4, <1>6 DEF ProverInv, TypeOK
<1>8. Unfinished' = Unfinished
  BY <1>1 DEF Unfinished
<1>9. HeldAreUnfinished'
  BY <1>1, <1>2, <1>3, <1>4, <1>5, <1>8 DEF ProverInv, HeldAreUnfinished
<1>10. UnfinishedAreHeld'
  <2>1. ASSUME NEW x \in Unfinished
        PROVE  \/ \E g \in Handlers : sending'[g] = x
               \/ \E i \in DOMAIN queue' : queue'[i] = x
               \/ \E w \in Workers : taken[w] = x
    <3>1. CASE \E g \in Handlers : sending[g] = x
      <4>1. PICK g \in Handlers : sending[g] = x
        BY <3>1
      <4>2. CASE g = h
        BY <1>3, <1>5, <4>1, <4>2 DEF id
      <4>3. CASE g # h
        BY <1>4, <4>1, <4>3
      <4>4. QED
        BY <4>2, <4>3
    <3>2. CASE \E i \in DOMAIN queue : queue[i] = x
      BY <1>3, <1>5, <3>2
    <3>3. QED
      BY <2>1, <3>1, <3>2 DEF ProverInv, UnfinishedAreHeld
  <2>2. QED
    BY <1>1, <1>8, <2>1 DEF UnfinishedAreHeld
<1>11. PlacesApart'
  <2>1. /\ \A g \in Handlers : g # h => sending[g] # id
        /\ \A i \in DOMAIN queue : queue[i] # id
        /\ \A w \in Workers : taken[w] # id
    BY <1>1 DEF ProverInv, PlacesApart, id
  <2>2. \A i \in DOMAIN queue : queue[i] # NoId
    BY <1>2, ServerAssumption
  <2>3. \A i, j \in DOMAIN queue' : queue'[i] = queue'[j] => i = j
    BY <1>3, <1>5, <2>1 DEF ProverInv, PlacesApart
  <2>4. \A g \in Handlers, i \in DOMAIN queue' : sending'[g] # queue'[i]
    <3>1. \A g \in Handlers, i \in DOMAIN queue : sending'[g] # queue'[i]
      BY <1>3, <1>4, <2>2 DEF ProverInv, PlacesApart
    <3>2. \A g \in Handlers : sending'[g] # id
      BY <1>1, <1>4, <2>1
    <3>3. QED
      BY <1>3, <1>5, <3>1, <3>2
  <2>5. \A i \in DOMAIN queue', w \in Workers : queue'[i] # taken'[w]
    BY <1>1, <1>3, <1>5, <2>1 DEF ProverInv, PlacesApart
  <2>6. /\ \A f, g \in Handlers :
             sending'[f] = sending'[g] /\ sending'[f] # NoId => f = g
        /\ \A g \in Handlers, w \in Workers :
             sending'[g] = taken'[w] => sending'[g] = NoId
        /\ \A w, v \in Workers :
             taken'[w] = taken'[v] /\ taken'[w] # NoId => w = v
    BY <1>1, <1>4 DEF ProverInv, PlacesApart
  <2>7. QED
    BY <2>3, <2>4, <2>5, <2>6 DEF PlacesApart
<1>12. Outcomes'
  BY <1>1 DEF ProverInv, Outcomes
<1>13. QED
  BY <1>1, <1>7, <1>9, <1>10, <1>11, <1>12 DEF ProverInv

LEMMA ReceiveProver ==
  ASSUME ProverInv, NEW w \in Workers, Receive(w)
  PROVE  ProverInv'
<1> DEFINE id == queue[1]
           k == Len(queue)
<1>1. /\ taken[w] = NoId
      /\ queue # << >>
      /\ taken' = [taken EXCEPT ![w] = Head(queue)]
      /\ queue' = Tail(queue)
      /\ UNCHANGED <<jobs, sending, proving>>
  BY DEF Receive
<1>2. queue \in Seq(JobIds)
  BY DEF ProverInv, TypeOK
<1>3. /\ k \in Nat \ {0} /\ DOMAIN queue = 1..k
      /\ Head(queue) = id
      /\ queue' \in Seq(JobIds) /\ Len(queue') = k - 1 /\ DOMAIN queue' = 1..k - 1
      /\ \A i \in 1..k - 1 : queue'[i] = queue[i + 1]
  BY <1>1, <1>2
<1>4. /\ 1 \in 1..k
      /\ \A i \in 1..k - 1 : i + 1 \in 1..k /\ i + 1 # 1
      /\ \A i \in 1..k : i # 1 => i - 1 \in 1..k - 1 /\ (i - 1) + 1 = i
      /\ \A i, j \in 1..k - 1 : i + 1 = j + 1 => i = j
  BY <1>3
<1>5. id \in JobIds /\ id \in Unfinished /\ id # NoId
  BY <1>2, <1>3, <1>4, ServerAssumption DEF ProverInv, HeldAreUnfinished
<1>6. /\ taken' \in [Workers -> JobIds \cup {NoId}]
      /\ taken'[w] = id
      /\ \A v \in Workers : v # w => taken'[v] = taken[v]
  BY <1>1, <1>3, <1>5 DEF ProverInv, TypeOK
<1>7. TypeOK'
  <2>1. Len(queue') <= Capacity
    BY <1>3, ServerAssumption DEF ProverInv, TypeOK
  <2>2. QED
    BY <1>1, <1>3, <1>6, <2>1 DEF ProverInv, TypeOK
<1>8. Unfinished' = Unfinished
  BY <1>1 DEF Unfinished
<1> HIDE DEF k
<1>9. HeldAreUnfinished'
  <2>1. \A i \in DOMAIN queue' : queue'[i] \in Unfinished
    BY <1>3, <1>4 DEF ProverInv, HeldAreUnfinished
  <2>2. \A v \in Workers : taken'[v] # NoId => taken'[v] \in Unfinished
    BY <1>5, <1>6 DEF ProverInv, HeldAreUnfinished
  <2>3. QED
    BY <1>1, <1>8, <2>1, <2>2 DEF ProverInv, HeldAreUnfinished
<1>10. UnfinishedAreHeld'
  <2>1. ASSUME NEW x \in Unfinished
        PROVE  \/ \E g \in Handlers : sending[g] = x
               \/ \E i \in DOMAIN queue' : queue'[i] = x
               \/ \E v \in Workers : taken'[v] = x
    <3>1. CASE \E i \in DOMAIN queue : queue[i] = x
      <4>1. PICK i \in DOMAIN queue : queue[i] = x
        BY <3>1
      <4>2. CASE i = 1
        BY <1>6, <4>1, <4>2
      <4>3. CASE i # 1
        <5>1. i - 1 \in DOMAIN queue' /\ queue'[i - 1] = queue[i]
          <6>1. i - 1 \in 1..k - 1 /\ (i - 1) + 1 = i
            BY <1>3, <1>4, <4>1, <4>3
          <6>2. QED
            BY <1>3, <6>1
        <5>2. QED
          BY <4>1, <5>1
      <4>4. QED
        BY <4>2, <4>3
    <3>2. CASE \E v \in Workers : taken[v] = x
      <4>1. PICK v \in Workers : taken[v] = x
        BY <3>2
      <4>2. x # NoId
        BY <2>1, ServerAssumption DEF Unfinished, ProverInv, TypeOK
      <4>3. QED
        BY <1>1, <1>6, <4>1, <4>2
    <3>3. QED
      BY <2>1, <3>1, <3>2 DEF ProverInv, UnfinishedAreHeld
  <2>2. QED
    BY <1>1, <1>8, <2>1 DEF UnfinishedAreHeld
<1>11. PlacesApart'
  <2>1. /\ \A g \in Handlers : sending[g] # id
        /\ \A i \in 1..k : i # 1 => queue[i] # id
        /\ \A v \in Workers : taken[v] # id
    BY <1>3, <1>4 DEF ProverInv, PlacesApart
  <2>2. \A i \in DOMAIN queue' : queue'[i] # id
    BY <1>3, <1>4, <2>1
  <2>3. \A i, j \in DOMAIN queue' : queue'[i] = queue'[j] => i = j
    BY <1>3, <1>4 DEF ProverInv, PlacesApart
  <2>4. \A g \in Handlers, i \in DOMAIN queue' : sending[g] # queue'[i]
    BY <1>3, <1>4 DEF ProverInv, PlacesApart
  <2>5. \A i \in DOMAIN queue', v \in Workers : queue'[i] # taken'[v]
    <3>1. \A i \in DOMAIN queue', v \in Workers : queue'[i] # taken[v]
      BY <1>3, <1>4 DEF ProverInv, PlacesApart
    <3>2. QED
      BY <1>6, <2>2, <3>1
  <2>6. \A u, v \in Workers : taken'[u] = taken'[v] /\ taken'[u] # NoId => u = v
    BY <1>6, <2>1 DEF ProverInv, PlacesApart
  <2>7. \A g \in Handlers, v \in Workers :
          sending[g] = taken'[v] => sending[g] = NoId
    BY <1>6, <2>1 DEF ProverInv, PlacesApart
  <2>8. QED
    BY <1>1, <2>3, <2>4, <2>5, <2>6, <2>7 DEF ProverInv, PlacesApart
<1>12. Outcomes'
  BY <1>1 DEF ProverInv, Outcomes
<1>13. \A v \in proving' : taken'[v] # NoId
  BY <1>1, <1>5, <1>6 DEF ProverInv, TypeOK
<1>14. QED
  BY <1>7, <1>9, <1>10, <1>11, <1>12, <1>13 DEF ProverInv

LEMMA StartProver ==
  ASSUME ProverInv, NEW w \in Workers, StartProving(w)
  PROVE  ProverInv'
<1> DEFINE id == taken[w]
           job == [jobs[id] EXCEPT !.state = "proving"]
<1>1. /\ id # NoId
      /\ proving' = proving \cup {w}
      /\ UNCHANGED <<queue, sending, taken>>
  BY DEF StartProving
<1>2. /\ id \in Unfinished /\ id \in DOMAIN jobs /\ jobs[id] \in Job
      /\ jobs[id].state # "succeeded"
  BY <1>1 DEF ProverInv, TypeOK, HeldAreUnfinished, Unfinished, Job, Finished
<1>3. jobs' = [jobs EXCEPT ![id] = job]
  BY <1>2 DEF StartProving, ProverInv, TypeOK
<1>4. /\ job \in Job /\ job.state = "proving" /\ job.artifact = NoAnswer
  BY <1>2 DEF ProverInv, Outcomes, Job, JobState
<1> HIDE DEF job
<1>5. /\ DOMAIN jobs' = DOMAIN jobs
      /\ jobs'[id] = job
      /\ \A x \in DOMAIN jobs : x # id => jobs'[x] = jobs[x]
      /\ jobs' \in [DOMAIN jobs' -> Job]
  BY <1>2, <1>3, <1>4 DEF ProverInv, TypeOK, Job
<1> HIDE DEF id
<1>6. TypeOK'
  BY <1>1, <1>5 DEF ProverInv, TypeOK, Job
<1>7. Unfinished' = Unfinished
  BY <1>2, <1>4, <1>5 DEF Unfinished, Finished
<1>8. HeldAreUnfinished' /\ UnfinishedAreHeld' /\ PlacesApart'
  BY <1>1, <1>7 DEF ProverInv, HeldAreUnfinished, UnfinishedAreHeld, PlacesApart
<1>9. Outcomes'
  BY <1>4, <1>5 DEF ProverInv, Outcomes
<1>10. \A v \in proving' : taken'[v] # NoId
  BY <1>1 DEF ProverInv, id
<1>11. QED
  BY <1>6, <1>8, <1>9, <1>10 DEF ProverInv

LEMMA FinishProver ==
  ASSUME ProverInv, NEW w \in Workers, NEW answer \in Answers \cup {NoAnswer},
         FinishProving(w, answer)
  PROVE  ProverInv'
<1> DEFINE id == taken[w]
           job == IF Accepted(answer)
                  THEN [jobs[id] EXCEPT !.state = "succeeded", !.artifact = answer]
                  ELSE [jobs[id] EXCEPT !.state = "failed", !.artifact = NoAnswer]
<1>1. /\ w \in proving /\ id # NoId
      /\ answer \in Engine[jobs[id].manifest]
      /\ proving' = proving \ {w}
      /\ taken' = [taken EXCEPT ![w] = NoId]
      /\ UNCHANGED <<queue, sending>>
  BY DEF FinishProving, ProverInv
<1>2. /\ id \in Unfinished /\ id \in DOMAIN jobs /\ jobs[id] \in Job
  BY <1>1 DEF ProverInv, TypeOK, HeldAreUnfinished, Unfinished, Job
<1>3. jobs' = [jobs EXCEPT ![id] = job]
  BY <1>2 DEF FinishProving, ProverInv, TypeOK
<1>4. /\ job \in Job /\ job.state \in Finished
      /\ job.artifact # NoAnswer <=> job.state = "succeeded"
      /\ job.artifact # NoAnswer =>
           /\ job.artifact.recursivelyProved
           /\ job.artifact \in Engine[job.manifest]
  BY <1>1, <1>2 DEF Job, JobState, Accepted, Finished
<1> HIDE DEF job
<1>5. /\ DOMAIN jobs' = DOMAIN jobs
      /\ jobs'[id] = job
      /\ \A x \in DOMAIN jobs : x # id => jobs'[x] = jobs[x]
      /\ jobs' \in [DOMAIN jobs' -> Job]
  BY <1>2, <1>3, <1>4 DEF ProverInv, TypeOK, Job
<1>6. /\ taken' \in [Workers -> JobIds \cup {NoId}]
      /\ taken'[w] = NoId
      /\ \A v \in Workers : v # w => taken'[v] = taken[v]
  BY <1>1 DEF ProverInv, TypeOK
<1>7. /\ \A h \in Handlers : sending[h] # id
      /\ \A i \in DOMAIN queue : queue[i] # id
      /\ \A v \in Workers : v # w => taken[v] # id
  BY <1>1 DEF ProverInv, PlacesApart
<1>8. TypeOK'
  BY <1>1, <1>5, <1>6 DEF ProverInv, TypeOK, Job
<1>9. Unfinished' = Unfinished \ {id}
  BY <1>2, <1>4, <1>5 DEF Unfinished
<1>10. HeldAreUnfinished'
  BY <1>1, <1>6, <1>7, <1>9 DEF ProverInv, HeldAreUnfinished
<1>11. UnfinishedAreHeld'
  <2>1. ASSUME NEW x \in Unfinished, x # id
        PROVE  \/ \E g \in Handlers : sending[g] = x
               \/ \E i \in DOMAIN queue : queue[i] = x
               \/ \E v \in Workers : taken'[v] = x
    <3>1. CASE \E v \in Workers : taken[v] = x
      <4>1. PICK v \in Workers : taken[v] = x
        BY <3>1
      <4>2. QED
        BY <1>6, <2>1, <4>1
    <3>2. QED
      BY <2>1, <3>1 DEF ProverInv, UnfinishedAreHeld
  <2>2. QED
    BY <1>1, <1>9, <2>1 DEF UnfinishedAreHeld
<1>12. PlacesApart'
  <2>1. \A i \in DOMAIN queue : queue[i] # NoId
    BY ServerAssumption DEF ProverInv, TypeOK
  <2>2. QED
    BY <1>1, <1>6, <2>1 DEF ProverInv, PlacesApart
<1> HIDE DEF id
<1>13. Outcomes'
  BY <1>4, <1>5 DEF ProverInv, Outcomes
<1>14. \A v \in proving' : taken'[v] # NoId
  <2>1. \A v \in proving' : v \in Workers /\ v # w /\ taken[v] # NoId
    BY <1>1 DEF ProverInv, TypeOK
  <2>2. QED
    BY <1>6, <2>1
<1>15. QED
  BY <1>8, <1>10, <1>11, <1>12, <1>13, <1>14 DEF ProverInv

LEMMA NextProver == ProverInv /\ [Next]_vars => ProverInv'
<1>1. SUFFICES ASSUME ProverInv, [Next]_vars PROVE ProverInv'
  OBVIOUS
<1>2. CASE UNCHANGED vars
  BY <1>1, <1>2 DEF vars, ProverInv, TypeOK, HeldAreUnfinished,
       UnfinishedAreHeld, PlacesApart, Outcomes, Unfinished
<1>3. ASSUME NEW w \in Workers, Finishes(w) PROVE ProverInv'
  BY <1>1, <1>3, FinishProver DEF Finishes
<1>4. QED
  BY <1>1, <1>2, <1>3, SubmitProver, SendProver, ReceiveProver, StartProver DEF Next

LEMMA ProverInvAlways == Spec => []ProverInv
BY InitProver, NextProver, PTL DEF Spec

-----------------------------------------------------------------------------
(* The jobs, the channel and the goroutines keep their types; the channel  *)
(* never holds more than its capacity.                                     *)
THEOREM ProverTypeCorrect == Spec => []TypeOK
<1>1. ProverInv => TypeOK
  BY DEF ProverInv
<1>2. QED
  BY <1>1, ProverInvAlways, PTL

(* No job is lost between the locks and none is in two hands.              *)
THEOREM JobsHeldOnce == Spec => []OneHolder
<1>1. ASSUME ProverInv PROVE OneHolder
  <2>1. SUFFICES ASSUME NEW id \in DOMAIN jobs
                 PROVE  Cardinality(Holders(id)) =
                          IF jobs[id].state \in Finished THEN 0 ELSE 1
    BY DEF OneHolder, Finished
  <2>2. id # NoId
    BY <1>1, ServerAssumption DEF ProverInv, TypeOK
  <2>3. CASE id \in Unfinished
    <3>1. CASE \E h \in Handlers : sending[h] = id
      <4>1. PICK h \in Handlers : sending[h] = id
        BY <3>1
      <4>2. Holders(id) = {<<"handler", h>>}
        BY <1>1, <2>2, <4>1 DEF Holders, ProverInv, PlacesApart
      <4>3. QED
        BY <2>3, <4>2, FS_Singleton DEF Unfinished
    <3>2. CASE \E i \in DOMAIN queue : queue[i] = id
      <4>1. PICK i \in DOMAIN queue : queue[i] = id
        BY <3>2
      <4>2. Holders(id) = {<<"queue", i>>}
        BY <1>1, <2>2, <4>1 DEF Holders, ProverInv, PlacesApart
      <4>3. QED
        BY <2>3, <4>2, FS_Singleton DEF Unfinished
    <3>3. CASE \E w \in Workers : taken[w] = id
      <4>1. PICK w \in Workers : taken[w] = id
        BY <3>3
      <4>2. Holders(id) = {<<"worker", w>>}
        BY <1>1, <2>2, <4>1 DEF Holders, ProverInv, PlacesApart
      <4>3. QED
        BY <2>3, <4>2, FS_Singleton DEF Unfinished
    <3>4. QED
      BY <1>1, <2>3, <3>1, <3>2, <3>3 DEF ProverInv, UnfinishedAreHeld
  <2>4. CASE id \notin Unfinished
    <3>1. Holders(id) = {}
      BY <1>1, <2>2, <2>4 DEF Holders, ProverInv, HeldAreUnfinished
    <3>2. jobs[id].state \in Finished
      BY <2>4 DEF Unfinished
    <3>3. QED
      BY <3>1, <3>2, FS_EmptySet
  <2>5. QED
    BY <2>3, <2>4
<1>2. QED
  BY <1>1, ProverInvAlways, PTL

(* Fail-closed: what is served was proved recursively for this manifest.   *)
THEOREM ServedIsProved == Spec => []ArtifactsProved
<1>1. ASSUME ProverInv PROVE ArtifactsProved
  BY <1>1 DEF ArtifactsProved, Readable, ProverInv, Outcomes
<1>2. QED
  BY <1>1, ProverInvAlways, PTL

(* Neither a resubmission nor a late worker changes an outcome. *)
THEOREM OutcomesStay == Spec => OutcomesStable
<1>1. ASSUME ProverInv, [Next]_vars, NEW id \in DOMAIN jobs
      PROVE  /\ jobs'[id].manifest = jobs[id].manifest
             /\ jobs[id].state \in {"succeeded", "failed"} => jobs'[id] = jobs[id]
  <2>1. ASSUME NEW h \in Handlers, NEW m \in Manifests, Submit(h, m)
        PROVE  jobs'[id] = jobs[id]
    BY <1>1, <2>1 DEF Submit, Known
  <2>2. ASSUME NEW w \in Workers, taken[w] # NoId,
               NEW job, job.manifest = jobs[taken[w]].manifest,
               jobs' = [jobs EXCEPT ![taken[w]] = job]
        PROVE  /\ jobs'[id].manifest = jobs[id].manifest
               /\ jobs[id].state \in {"succeeded", "failed"} => jobs'[id] = jobs[id]
    <3>1. taken[w] \in Unfinished
      BY <1>1, <2>2 DEF ProverInv, HeldAreUnfinished
    <3>2. CASE id = taken[w]
      BY <1>1, <2>2, <3>1, <3>2 DEF Unfinished, Finished
    <3>3. CASE id # taken[w]
      BY <1>1, <2>2, <3>3
    <3>4. QED
      BY <3>2, <3>3
  <2>3. \A w \in Workers : taken[w] # NoId =>
          taken[w] \in DOMAIN jobs /\ jobs[taken[w]] \in Job
    BY <1>1 DEF ProverInv, TypeOK, HeldAreUnfinished, Unfinished, Job
  <2>4. ASSUME NEW w \in Workers, StartProving(w)
        PROVE  /\ jobs'[id].manifest = jobs[id].manifest
               /\ jobs[id].state \in {"succeeded", "failed"} => jobs'[id] = jobs[id]
    <3> DEFINE job == [jobs[taken[w]] EXCEPT !.state = "proving"]
    <3>1. taken[w] # NoId /\ jobs' = [jobs EXCEPT ![taken[w]] = job]
      BY <1>1, <2>3, <2>4 DEF StartProving, ProverInv, TypeOK
    <3>2. job.manifest = jobs[taken[w]].manifest
      BY <2>3, <3>1 DEF Job
    <3> HIDE DEF job
    <3>3. QED
      BY <2>2, <3>1, <3>2
  <2>5. ASSUME NEW w \in Workers, Finishes(w)
        PROVE  /\ jobs'[id].manifest = jobs[id].manifest
               /\ jobs[id].state \in {"succeeded", "failed"} => jobs'[id] = jobs[id]
    <3>1. PICK answer \in Answers \cup {NoAnswer} : FinishProving(w, answer)
      BY <2>5 DEF Finishes
    <3> DEFINE job == IF Accepted(answer)
                      THEN [jobs[taken[w]] EXCEPT !.state = "succeeded",
                                                  !.artifact = answer]
                      ELSE [jobs[taken[w]] EXCEPT !.state = "failed",
                                                  !.artifact = NoAnswer]
    <3>2. taken[w] # NoId
      BY <1>1, <3>1 DEF FinishProving, ProverInv
    <3>3. jobs' = [jobs EXCEPT ![taken[w]] = job]
      BY <1>1, <2>3, <3>1, <3>2 DEF FinishProving, ProverInv, TypeOK
    <3>4. job.manifest = jobs[taken[w]].manifest
      BY <2>3, <3>2 DEF Job
    <3> HIDE DEF job
    <3>5. QED
      BY <2>2, <3>2, <3>3, <3>4
  <2>6. \/ UNCHANGED jobs
        \/ \E h \in Handlers, m \in Manifests : Submit(h, m)
        \/ \E w \in Workers : StartProving(w) \/ Finishes(w)
    BY <1>1 DEF Next, vars, Send, Receive
  <2>7. QED
    BY <1>1, <2>1, <2>4, <2>5, <2>6
<1>2. ProverInv /\ [Next]_vars =>
        [\A id \in DOMAIN jobs :
           /\ jobs'[id].manifest = jobs[id].manifest
           /\ jobs[id].state \in {"succeeded", "failed"} =>
                jobs'[id] = jobs[id]]_vars
  BY <1>1
<1>3. QED
  BY <1>2, ProverInvAlways, PTL DEF Spec, OutcomesStable
==============================================================================
