--------------------------- MODULE RecursiveProver ---------------------------
(***************************************************************************)
(* The proof-job server (services/recursive-prover/server.go): HTTP        *)
(* handlers register jobs under a mutex and hand their ids to worker       *)
(* goroutines over a bounded channel, outside the mutex.                   *)
(*                                                                         *)
(* Steps are cut where the code releases the mutex or blocks.  A handler   *)
(* whose client has gone still runs to its end.  Nothing is persisted: a   *)
(* restart is a new behaviour.                                             *)
(***************************************************************************)
EXTENDS Integers, Sequences, FiniteSets, SequencesExt

CONSTANTS
  Handlers,     \* goroutines serving POST /v1/manifests
  Workers,
  Manifests,    \* manifests that pass Validate
  JobIds,
  IdOf,         \* manifest -> hash of digest, national election, constituency
  Answers,      \* what the engine may return for some manifest
  Engine,       \* manifest -> the answers it may give for it
  Capacity,     \* workers*4 in NewProofServer
  NoId, NoAnswer

(* An answer is an error, or an artifact for a manifest with its           *)
(* RecursivelyProved flag; NoAnswer is the nil artifact.                   *)
Answer == [err : {TRUE}] \cup
          [err : {FALSE}, manifest : Manifests, recursivelyProved : BOOLEAN]

ASSUME ServerAssumption ==
  /\ IdOf \in [Manifests -> JobIds]
  /\ Answers \subseteq Answer
  /\ Engine \in [Manifests -> SUBSET (Answers \cup {NoAnswer})]
  /\ \A m \in Manifests : Engine[m] # {}
  /\ Capacity \in Nat \ {0}
  /\ NoId \notin JobIds
  /\ NoAnswer \notin Answer

VARIABLES
  jobs,      \* id -> [state, manifest, artifact], for the ids submitted so far
  queue,     \* the channel's buffer
  sending,   \* handler -> id it blocks on sending, or NoId
  taken,     \* worker -> id it received and has not finished, or NoId
  proving    \* workers inside engine.Prove

vars == <<jobs, queue, sending, taken, proving>>

JobState == {"queued", "proving", "succeeded", "failed"}

Init ==
  /\ jobs = [id \in {} |-> {}]
  /\ queue = << >>
  /\ sending = [h \in Handlers |-> NoId]
  /\ taken = [w \in Workers |-> NoId]
  /\ proving = {}

-----------------------------------------------------------------------------
KnownNever(id) == FALSE           \* seeded fault: the map is not consulted

Known(id) == id \in DOMAIN jobs

(* submit, up to the unlock; the job is visible before it is in the queue. *)
(* A known id only gets a snapshot, and so is no step.                     *)
Submit(h, m) ==
  LET id == IdOf[m]
  IN /\ sending[h] = NoId
     /\ ~Known(id)
     /\ jobs' = [x \in DOMAIN jobs \cup {id} |->
                   IF x = id
                   THEN [state |-> "queued", manifest |-> m, artifact |-> NoAnswer]
                   ELSE jobs[x]]
     /\ sending' = [sending EXCEPT ![h] = id]
     /\ UNCHANGED <<queue, taken, proving>>

EnqueueOrDrop(id) ==              \* seeded fault: a full queue loses the id
  queue' = IF Len(queue) < Capacity THEN Append(queue, id) ELSE queue

Enqueue(id) == Len(queue) < Capacity /\ queue' = Append(queue, id)

(* server.queue <- id, blocking while the buffer is full *)
Send(h) ==
  /\ sending[h] # NoId
  /\ Enqueue(sending[h])
  /\ sending' = [sending EXCEPT ![h] = NoId]
  /\ UNCHANGED <<jobs, taken, proving>>

(* worker: id := <-server.queue *)
Receive(w) ==
  /\ taken[w] = NoId
  /\ queue # << >>
  /\ taken' = [taken EXCEPT ![w] = Head(queue)]
  /\ queue' = Tail(queue)
  /\ UNCHANGED <<jobs, sending, proving>>

(* worker: the first critical section *)
StartProving(w) ==
  /\ taken[w] # NoId
  /\ w \notin proving
  /\ jobs' = [jobs EXCEPT ![taken[w]].state = "proving"]
  /\ proving' = proving \cup {w}
  /\ UNCHANGED <<queue, sending, taken>>

AcceptAnyArtifact(answer) ==      \* seeded fault: RecursivelyProved not checked
  answer # NoAnswer /\ ~answer.err

Accepted(answer) ==
  answer # NoAnswer /\ ~answer.err /\ answer.recursivelyProved

(* worker: engine.Prove returns, an error at the latest when its context   *)
(* times out, and the second critical section stores the outcome.          *)
FinishProving(w, answer) ==
  LET id == taken[w]
  IN /\ w \in proving
     /\ answer \in Engine[jobs[id].manifest]
     /\ jobs' = IF Accepted(answer)
                THEN [jobs EXCEPT ![id].state = "succeeded", ![id].artifact = answer]
                ELSE [jobs EXCEPT ![id].state = "failed", ![id].artifact = NoAnswer]
     /\ proving' = proving \ {w}
     /\ taken' = [taken EXCEPT ![w] = NoId]
     /\ UNCHANGED <<queue, sending>>

Finishes(w) == \E answer \in Answers \cup {NoAnswer} : FinishProving(w, answer)

Next ==
  \/ \E h \in Handlers, m \in Manifests : Submit(h, m)
  \/ \E h \in Handlers : Send(h)
  \/ \E w \in Workers : Receive(w) \/ StartProving(w) \/ Finishes(w)

Spec == Init /\ [][Next]_vars

(* Goroutines run; blocked senders of a Go channel are served in order, so *)
(* none is overtaken for ever; the engine honours its context.             *)
FairSpec ==
  /\ Spec
  /\ \A h \in Handlers : SF_vars(Send(h))
  /\ WF_vars(\E w \in Workers : Receive(w))
  /\ \A w \in Workers : WF_vars(StartProving(w)) /\ WF_vars(Finishes(w))

-----------------------------------------------------------------------------
(* readArtifact answers 200 with the artifact exactly when this holds. *)
Readable(id) ==
  id \in DOMAIN jobs /\ jobs[id].state = "succeeded" /\ jobs[id].artifact # NoAnswer

(* Properties *)

TypeOK ==
  /\ DOMAIN jobs \subseteq JobIds
  /\ jobs \in [DOMAIN jobs -> [state    : JobState,
                               manifest : Manifests,
                               artifact : Answers \cup {NoAnswer}]]
  /\ queue \in Seq(JobIds)
  /\ Len(queue) <= Capacity
  /\ sending \in [Handlers -> JobIds \cup {NoId}]
  /\ taken \in [Workers -> JobIds \cup {NoId}]
  /\ proving \in SUBSET Workers

(* Where an unfinished job is: with the handler that registered it, in the *)
(* queue, or with a worker.                                                *)
Holders(id) ==
  {<<"handler", h>> : h \in {g \in Handlers : sending[g] = id}}
    \cup {<<"queue", i>> : i \in {j \in DOMAIN queue : queue[j] = id}}
    \cup {<<"worker", w>> : w \in {v \in Workers : taken[v] = id}}

(* Every unfinished job is in exactly one place and every finished one in  *)
(* none, although registration, queueing and proving happen under separate *)
(* locks: no job is lost, none is proved by two workers or a second time.  *)
OneHolder ==
  \A id \in DOMAIN jobs :
    Cardinality(Holders(id)) =
      IF jobs[id].state \in {"succeeded", "failed"} THEN 0 ELSE 1

(* Fail-closed: an artifact is served exactly for the succeeded jobs, it   *)
(* is marked recursivelyProved, and it is what the engine answered for the *)
(* manifest the job was registered with.                                   *)
ArtifactsProved ==
  \A id \in DOMAIN jobs :
    /\ Readable(id) <=> jobs[id].state = "succeeded"
    /\ jobs[id].artifact # NoAnswer =>
         /\ Readable(id)
         /\ jobs[id].artifact.recursivelyProved
         /\ jobs[id].artifact \in Engine[jobs[id].manifest]

(* A job keeps its manifest and its outcome: no resubmission and no late   *)
(* worker overwrites what a reader has already been told.                  *)
OutcomesStable ==
  [][\A id \in DOMAIN jobs :
       /\ jobs'[id].manifest = jobs[id].manifest
       /\ jobs[id].state \in {"succeeded", "failed"} => jobs'[id] = jobs[id]]_vars

(* Every accepted job gets an outcome, even when all handlers block on a   *)
(* full queue.                                                             *)
JobsFinish ==
  \A id \in JobIds :
    id \in DOMAIN jobs ~> (id \in DOMAIN jobs
                             /\ jobs[id].state \in {"succeeded", "failed"})
==============================================================================
