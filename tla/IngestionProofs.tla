--------------------------- MODULE IngestionProofs ---------------------------
(***************************************************************************)
(* Ingestion, for any number of pages, job slots, movements, requests,     *)
(* attempts and faults.  Three arguments: the types with the life of a job *)
(* (JobInv), what a row says of a run whose job was delivered once at most *)
(* (RunInv), and what the rows and the movements say of each other         *)
(* (StoreInv).                                                             *)
(***************************************************************************)
EXTENDS Ingestion, TLAPS, FiniteSetTheorems, SequenceTheorems

Queued(r) == r \in Range(queue)
Held(r) == job[r].holder # None
Delivered(r) == \E w \in Workers : Works(w, r)

\* Ids are drawn in order, a worker has a run, a queued job has an attempt left
\* and no holder, and there is no job before a request has added it.
JobInv ==
  /\ \E n \in 0..MaxRuns : Requested = 1..n
  /\ \A w \in Workers : worker[w].run = None <=> At(w, "idle")
  /\ IsInjective(queue)
  /\ \A r \in Runs :
       /\ Queued(r) => ~Held(r)
       /\ Queued(r) \/ Held(r) => job[r].made < MaxAttempts
       /\ \/ Queued(r) \/ Held(r) \/ Delivered(r) \/ Revived(r)
          => request[r].pc = "accepted" \/ request[r].ghost
       /\ request[r].ghost => request[r].pc \in {"recover", "refused"}

Rowless == {"none", "lock", "create"}

\* A row is there as long as its request or its job may need it.  Until the
\* queue takes a run up again it is delivered once, and it is "queued" until
\* that worker marks it.  A run that its successor's request could see had ended
\* or was taken up again.
RunInv ==
  /\ \A r \in Runs :
       /\ request[r].pc \in Rowless => scrapeRun[r].status = "none"
       /\ request[r].pc = "add" => scrapeRun[r].status = "queued"
       /\ request[r].pc \in {"recover", "accepted"} \/ request[r].ghost
          => scrapeRun[r].status # "none"
       /\ ~Revived(r) =>
            /\ Queued(r) => scrapeRun[r].status = "queued" /\ ~Delivered(r)
            /\ \A w \in Workers : Works(w, r) =>
                 /\ \A v \in Workers : Works(v, r) => v = w
                 /\ At(w, "running") => scrapeRun[r].status = "queued"
  /\ \A q, r \in Runs :
       /\ q \in request[r].known
       /\ request[r].pc = "create" \/ scrapeRun[r].status # "none"
       => Revived(q) \/ scrapeRun[q].status \in Final

Brought(r) == {m \in Movements : transaction[m].run = r}
AllStored(batch) == \A m \in Movements : batch[m] > 0 => transaction[m].run # None

\* What a worker is about to report is stored, and is no more than its run
\* brought; a movement nobody brought has not been judged.
StoreInv ==
  /\ SuccessIsBacked
  /\ \A w \in Workers : At(w, "succeed") =>
       /\ AllStored(worker[w].found)
       /\ worker[w].fresh <= Size(worker[w].found)
       /\ worker[w].fresh <= Cardinality(Brought(worker[w].run))
  /\ \A m \in Movements :
       /\ transaction[m].review = judged[m]
       /\ transaction[m].run = None => judged[m] = "new"

IInv == TypeOK /\ JobInv /\ RunInv /\ StoreInv
-----------------------------------------------------------------------------
(* Queues: sequences without repetitions.                                  *)

LEMMA AppendToQueue ==
  ASSUME NEW S, NEW q \in Seq(S), NEW x \in S, IsInjective(q), x \notin Range(q)
  PROVE  /\ Append(q, x) \in Seq(S) /\ IsInjective(Append(q, x))
         /\ Range(Append(q, x)) = Range(q) \cup {x}
<1> DEFINE r == Append(q, x)
<1>1. /\ r \in Seq(S) /\ Len(r) = Len(q) + 1 /\ r[Len(q) + 1] = x
      /\ \A i \in 1..Len(q) : r[i] = q[i]
  BY AppendProperties
<1>2. DOMAIN r = 1..Len(r) /\ DOMAIN q = 1..Len(q) /\ Len(q) \in Nat
  BY <1>1, LenProperties
<1> HIDE DEF r
<1>3. IsInjective(r)
  BY <1>1, <1>2 DEF IsInjective, Range
<1>4. Range(r) = Range(q) \cup {x}
  BY <1>1, <1>2 DEF Range
<1> QED
  BY <1>1, <1>3, <1>4 DEF r

LEMMA RemoveFromQueue ==
  ASSUME NEW S, NEW q \in Seq(S), NEW k \in DOMAIN q, IsInjective(q)
  PROVE  /\ RemoveAt(q, k) \in Seq(S) /\ IsInjective(RemoveAt(q, k))
         /\ Range(RemoveAt(q, k)) = Range(q) \ {q[k]}
<1> DEFINE left  == SubSeq(q, 1, k - 1)
           right == SubSeq(q, k + 1, Len(q))
           r     == left \o right
<1>1. /\ Len(q) \in Nat /\ DOMAIN q = 1..Len(q) /\ k \in 1..Len(q)
      /\ \A i \in 1..Len(q) : q[i] \in S
  BY LenProperties
<1>2. /\ left \in Seq(S) /\ Len(left) = k - 1
      /\ \A i \in 1..(k - 1) : left[i] = q[i]
  BY <1>1, SubSeqProperties
<1>3. /\ right \in Seq(S) /\ Len(right) = Len(q) - k
      /\ \A i \in 1..(Len(q) - k) : right[i] = q[k + i]
  BY <1>1, SubSeqProperties
<1> HIDE DEF left, right
<1>4. r \in Seq(S) /\ Len(r) = Len(q) - 1
  <2>1. r \in Seq(S) /\ Len(r) = Len(left) + Len(right)
    BY <1>2, <1>3, ConcatProperties
  <2> HIDE DEF r
  <2> QED
    BY <1>1, <1>2, <1>3, <2>1
<1>5. \A i \in 1..(Len(q) - 1) : r[i] = IF i < k THEN q[i] ELSE q[i + 1]
  <2> SUFFICES ASSUME NEW i \in 1..(Len(q) - 1) PROVE r[i] = IF i < k THEN q[i] ELSE q[i + 1]
    OBVIOUS
  <2>1. r[i] = IF i <= Len(left) THEN left[i] ELSE right[i - Len(left)]
    BY <1>1, <1>2, <1>3, ConcatProperties
  <2> HIDE DEF r
  <2>2. CASE i < k
    BY <1>1, <1>2, <2>1, <2>2
  <2>3. CASE ~(i < k)
    <3>1. i - (k - 1) \in 1..(Len(q) - k) /\ k + (i - (k - 1)) = i + 1
      BY <1>1, <2>3
    <3>2. r[i] = right[i - (k - 1)]
      BY <1>1, <1>2, <2>1, <2>3
    <3>3. right[i - (k - 1)] = q[k + (i - (k - 1))]
      BY <1>3, <3>1
    <3> QED
      BY <2>3, <3>1, <3>2, <3>3
  <2> QED
    BY <2>2, <2>3
<1>6. DOMAIN r = 1..(Len(q) - 1)
  BY <1>1, <1>4, LenProperties
<1> HIDE DEF r
<1>7. IsInjective(r)
  BY <1>1, <1>5, <1>6 DEF IsInjective
<1>8. Range(r) \subseteq Range(q) \ {q[k]}
  BY <1>1, <1>5, <1>6 DEF IsInjective, Range
<1>9. ASSUME NEW i \in DOMAIN q, q[i] # q[k] PROVE q[i] \in Range(r)
  <2> DEFINE j == IF i < k THEN i ELSE i - 1
  <2>1. j \in 1..(Len(q) - 1) /\ r[j] = q[i]
    BY <1>1, <1>5, <1>9
  <2> QED
    BY <1>6, <2>1 DEF Range
<1>10. Range(r) = Range(q) \ {q[k]}
  BY <1>8, <1>9 DEF Range
<1> QED
  BY <1>4, <1>7, <1>10 DEF r, left, right, RemoveAt

-----------------------------------------------------------------------------
(* Helpers: what a worker's step does, whichever it is.                    *)

LEMMA Constants ==
  /\ None \notin Runs /\ None \notin Workers
  /\ MaxRuns \in Nat /\ MaxRuns > 0 /\ MaxAttempts \in Nat /\ MaxAttempts > 0
  /\ MaxCopies \in Nat /\ MaxCopies > 0 /\ MaxFaults \in Nat /\ IsFiniteSet(Movements)
BY IngestionAssumption DEF Runs

LEMMA NothingDelivered == NoDelivery \in Deliveries
BY Constants DEF NoDelivery, Deliveries, Empty, Batches

\* The end of a call of the processor, in the queue.
JobKept(w) ==
  LET r == worker[w].run IN
  \/ UNCHANGED <<queue, job>>
  \/ UNCHANGED queue /\ job' = [job EXCEPT ![r].holder = None]
  \/ /\ job[r].holder = w
     /\ job' = [job EXCEPT ![r].holder = None, ![r].made = @ + 1]
     /\ queue' = IF job[r].made + 1 < MaxAttempts THEN Append(queue, r) ELSE queue

\* A worker that has a run goes on with it, or lets it go.
Goes(w) ==
  /\ ~At(w, "idle")
  /\ worker' \in [Workers -> Deliveries]
  /\ \A v \in Workers \ {w} : worker'[v] = worker[v]
  /\ \/ worker'[w] = NoDelivery
     \/ /\ worker'[w].pc \notin {"idle", "running"}
        /\ worker'[w].run = worker[w].run
  /\ JobKept(w)
  /\ UNCHANGED <<mode, request, client, judged, restarted>>

\* The row of its run is left alone, or ends, or starts to run.
Marks(w) ==
  /\ scrapeRun' \in [Runs -> ScrapeRuns]
  /\ \A q \in Runs : q # worker[w].run => scrapeRun'[q] = scrapeRun[q]
  /\ LET status == scrapeRun'[worker[w].run].status IN
       \/ status = scrapeRun[worker[w].run].status
       \/ status \in Final
       \/ At(w, "running") /\ status = "running"

\* The actions of a worker that has a run.
Processes(w) ==
  \/ MarkRunning(w) \/ Collect(w) \/ UpsertMany(w) \/ UpsertFails(w)
  \/ MarkSucceeded(w) \/ SucceedFails(w) \/ MarkNeedsAdminAction(w) \/ MarkThrottled(w)
  \/ MarkFailed(w) \/ NotifyAdminAttention(w) \/ ProcessorThrows(w) \/ OnJobError(w)
  \/ Crash(w)

Rows == scrapeRun \in [Runs -> ScrapeRuns]

LEMMA JobCounts ==
  ASSUME TypeOK, NEW r \in Runs PROVE job[r].made \in Nat /\ job[r].stalls \in Nat
<1>1. job[r] \in Jobs
  BY DEF TypeOK
<1>2. job[r].made \in 0..MaxAttempts /\ job[r].stalls \in 0..1
  BY ONLY <1>1 DEF Jobs
<1> QED
  BY ONLY <1>2, Constants

LEMMA HasRun ==
  ASSUME TypeOK, JobInv, NEW w \in Workers, ~At(w, "idle")
  PROVE  worker[w] \in Deliveries /\ worker[w].run \in Runs
BY DEF TypeOK, JobInv, Deliveries

LEMMA ReturnsGoes ==
  ASSUME TypeOK, NEW w \in Workers, ~At(w, "idle"), Returns(w),
         UNCHANGED <<mode, request, client, judged, restarted>>
  PROVE  Goes(w)
BY NothingDelivered DEF Goes, Returns, Release, JobKept, TypeOK

LEMMA StepGoes ==
  ASSUME TypeOK, NEW w \in Workers, ~At(w, "idle"), NEW pc, Step(w, pc),
         pc \in {"collect", "attention", "throttle", "fail", "alert", "fail_alert", "recover"},
         UNCHANGED <<queue, job, mode, request, client, judged, restarted>>
  PROVE  Goes(w)
BY DEF Goes, Step, JobKept, TypeOK, Deliveries

LEMMA ThrowsGoes ==
  ASSUME TypeOK, NEW w \in Workers, ~At(w, "idle"), Throws(w),
         UNCHANGED <<mode, request, client, judged, restarted>>
  PROVE  Goes(w)
<1>1. CASE Step(w, "recover") /\ UNCHANGED <<queue, job>>
  BY <1>1, StepGoes
<1>2. CASE Release(w) /\ JobKept(w)
  BY <1>2, NothingDelivered DEF Goes, Release, TypeOK
<1> QED
  BY <1>1, <1>2 DEF Throws, JobKept

LEMMA MarkMarks ==
  ASSUME Rows, NEW w \in Workers, worker[w].run \in Runs, NEW status, Mark(worker[w].run, status),
         status \in Final \/ (At(w, "running") /\ status = "running")
  PROVE  Marks(w)
BY DEF Rows, Marks, Mark, ScrapeRuns, Final, Active

LEMMA ProcessesGo ==
  ASSUME TypeOK, JobInv, NEW w \in Workers, Processes(w) PROVE Goes(w)
<1> USE DEF At, WorkerOnly
<1>1. CASE MarkRunning(w)
  BY <1>1, StepGoes DEF MarkRunning
<1>2. CASE Collect(w)
  <2>1. ASSUME NEW batch \in Batches,
               worker' = [worker EXCEPT ![w].pc = "upsert", ![w].found = batch]
        PROVE  Goes(w)
    <3>1. worker \in [Workers -> Deliveries] /\ worker[w].pc = "collect"
      BY <1>2 DEF Collect, TypeOK
    <3>2. /\ worker' \in [Workers -> Deliveries]
          /\ \A v \in Workers \ {w} : worker'[v] = worker[v]
      <4>1. worker' = [worker EXCEPT ![w] = [worker[w] EXCEPT !.pc = "upsert", !.found = batch]]
        BY <2>1, <3>1 DEF Deliveries
      <4>2. [worker[w] EXCEPT !.pc = "upsert", !.found = batch] \in Deliveries
        BY <3>1 DEF Deliveries
      <4> QED
        BY ONLY <3>1, <4>1, <4>2
    <3>3. worker'[w].pc = "upsert" /\ worker'[w].run = worker[w].run
      BY <2>1, <3>1 DEF Deliveries
    <3>4. UNCHANGED <<queue, job, mode, request, client, judged, restarted>>
      BY <1>2 DEF Collect
    <3> QED
      BY <3>1, <3>2, <3>3, <3>4 DEF Goes, JobKept
  <2>2. ASSUME NEW pc \in {"attention", "throttle", "fail"}, Step(w, pc) PROVE Goes(w)
    BY <1>2, <2>2, StepGoes DEF Collect
  <2> QED
    BY <1>2, <2>1, <2>2 DEF Collect
<1>3. CASE UpsertMany(w)
  <2> DEFINE n == Cardinality(Unknown(worker[w].found))
  <2>1. n \in Nat
    BY Constants, FS_Subset, FS_CardinalityType DEF Unknown
  <2> DEFINE row == [worker[w] EXCEPT !.pc = "succeed", !.fresh = n]
  <2>2. worker' = [worker EXCEPT ![w] = row]
    BY <1>3 DEF UpsertMany
  <2> HIDE DEF n
  <2>3. row \in Deliveries /\ row.pc = "succeed" /\ row.run = worker[w].run
    BY <2>1 DEF TypeOK, Deliveries
  <2> HIDE DEF row
  <2> QED
    BY <1>3, <2>1, <2>2, <2>3 DEF Goes, UpsertMany, JobKept, TypeOK
<1>4. CASE UpsertFails(w)
  BY <1>4, StepGoes DEF UpsertFails
<1>5. CASE MarkSucceeded(w)
  BY <1>5, ReturnsGoes DEF MarkSucceeded
<1>6. CASE SucceedFails(w)
  BY <1>6, StepGoes DEF SucceedFails
<1>7. CASE MarkNeedsAdminAction(w)
  BY <1>7, StepGoes DEF MarkNeedsAdminAction
<1>8. CASE MarkThrottled(w)
  BY <1>8, ReturnsGoes DEF MarkThrottled
<1>9. CASE MarkFailed(w)
  BY <1>9, StepGoes DEF MarkFailed
<1>10. CASE NotifyAdminAttention(w)
  BY <1>10, ReturnsGoes DEF NotifyAdminAttention
<1>11. CASE ProcessorThrows(w)
  BY <1>11, ThrowsGoes DEF ProcessorThrows, CallThrows
<1>12. CASE OnJobError(w)
  BY <1>12, ReturnsGoes DEF OnJobError
<1>13. CASE Crash(w)
  BY <1>13, NothingDelivered DEF Crash, Goes, Release, JobKept, TypeOK
<1> QED
  BY <1>1, <1>2, <1>3, <1>4, <1>5, <1>6, <1>7, <1>8, <1>9, <1>10, <1>11, <1>12, <1>13
     DEF Processes

\* What MarkSucceeded writes: the counts are numbers, for no more is new than
\* was listed.
LEMMA SucceededMarks ==
  ASSUME TypeOK, JobInv, StoreInv, NEW w \in Workers, At(w, "succeed"), Succeeded(w)
  PROVE  Marks(w) /\ reported' \in [Runs -> Batches]
<1> DEFINE r == worker[w].run
           n == worker[w].fresh
           skipped == Size(worker[w].found) - n
<1>1. r \in Runs /\ worker[w] \in Deliveries
  BY HasRun DEF At
<1>2. n \in Nat /\ worker[w].found \in Batches
  BY <1>1 DEF Deliveries
<1>3. Size(worker[w].found) \in Nat
  <2>1. IsFiniteSet(Movements \X (1..MaxCopies))
    <3>1. IsFiniteSet(1..MaxCopies)
      BY Constants, FS_Interval
    <3> QED
      BY <3>1, Constants, FS_Product
  <2> QED
    BY <2>1, FS_Subset, FS_CardinalityType DEF Size
<1>4. skipped \in Nat
  BY <1>2, <1>3 DEF StoreInv
<1>5. /\ scrapeRun' = [scrapeRun EXCEPT ![r] =
           [status |-> "succeeded", inserted |-> n, skipped |-> skipped]]
      /\ reported' = [reported EXCEPT ![r] = worker[w].found]
  BY DEF Succeeded
<1> HIDE DEF r, n, skipped
<1>6. /\ scrapeRun' \in [Runs -> ScrapeRuns] /\ scrapeRun'[r].status \in Final
      /\ \A q \in Runs : q # r => scrapeRun'[q] = scrapeRun[q]
  BY <1>1, <1>2, <1>4, <1>5 DEF TypeOK, ScrapeRuns, Final
<1> QED
  BY <1>1, <1>2, <1>5, <1>6 DEF Marks, TypeOK, r

LEMMA ProcessesMark ==
  ASSUME TypeOK, JobInv, StoreInv, NEW w \in Workers, Processes(w)
  PROVE  Marks(w) /\ reported' \in [Runs -> Batches]
<1>0. worker[w].run \in Runs /\ Rows /\ reported \in [Runs -> Batches]
  <2>1. ~At(w, "idle")
    BY DEF Processes, MarkRunning, Collect, UpsertMany, UpsertFails, MarkSucceeded, SucceedFails,
           MarkNeedsAdminAction, MarkThrottled, MarkFailed, NotifyAdminAttention,
           ProcessorThrows, CallThrows, OnJobError, Crash, At
  <2> QED
    BY <2>1, HasRun DEF TypeOK, Rows
<1>1. ASSUME UNCHANGED <<scrapeRun, reported>> PROVE Marks(w) /\ reported' \in [Runs -> Batches]
  BY <1>0, <1>1 DEF Marks, Rows
<1>2. ASSUME NEW status, Mark(worker[w].run, status), UNCHANGED reported,
             status \in Final \/ (At(w, "running") /\ status = "running")
      PROVE  Marks(w) /\ reported' \in [Runs -> Batches]
  BY <1>0, <1>2, MarkMarks
<1>3. CASE MarkRunning(w)
  BY <1>2, <1>3 DEF MarkRunning
<1>4. CASE Collect(w) \/ UpsertMany(w) \/ UpsertFails(w) \/ NotifyAdminAttention(w)
            \/ Crash(w)
  BY <1>1, <1>4 DEF Collect, UpsertMany, UpsertFails, NotifyAdminAttention, Crash
<1>5. CASE MarkSucceeded(w) \/ SucceedFails(w)
  BY <1>1, <1>5, SucceededMarks DEF MarkSucceeded, SucceedFails
<1>6. CASE MarkNeedsAdminAction(w) \/ MarkThrottled(w) \/ MarkFailed(w) \/ OnJobError(w)
  BY <1>1, <1>2, <1>6
     DEF MarkNeedsAdminAction, MarkThrottled, MarkFailed, OnJobError, Final
<1>7. CASE ProcessorThrows(w)
  <2>1. PICK pc : CallThrows(w, pc)
    BY <1>7 DEF ProcessorThrows
  <2>2. CASE UNCHANGED scrapeRun
    BY <1>1, <2>1, <2>2 DEF CallThrows
  <2>3. CASE pc \in DOMAIN Written /\ Mark(worker[w].run, Written[pc])
    <3>1. Written[pc] \in Final \/ (pc = "running" /\ Written[pc] = "running")
      BY <2>3 DEF Written, Final
    <3> QED
      BY <1>2, <2>1, <2>3, <3>1 DEF CallThrows
  <2> QED
    BY <2>1, <2>2, <2>3 DEF CallThrows
<1> QED
  BY <1>3, <1>4, <1>5, <1>6, <1>7 DEF Processes

\* The queue and the job of its run, after a worker's step.
LEMMA KeptJobs ==
  ASSUME TypeOK, JobInv, NEW w \in Workers, Goes(w)
  PROVE  /\ queue' \in Seq(Runs) /\ IsInjective(queue') /\ job' \in [Runs -> Jobs]
         /\ \A r \in Runs :
              /\ Queued(r)' => ~Held(r)'
              /\ Queued(r)' \/ Held(r)' => job'[r].made < MaxAttempts
              /\ Held(r)' => Held(r)
              /\ Queued(r) => Queued(r)'
              /\ Queued(r)' /\ ~Queued(r) => Held(r) /\ job'[r].made > 0
              /\ job'[r].made >= job[r].made /\ job'[r].stalls = job[r].stalls
              /\ job'[r] # job[r] => Held(r)
<1> DEFINE r == worker[w].run
<1>1. r \in Runs
  BY HasRun DEF Goes
<1>2. /\ queue \in Seq(Runs) /\ IsInjective(queue) /\ job \in [Runs -> Jobs]
      /\ \A q \in Runs : /\ Queued(q) => ~Held(q)
                         /\ Queued(q) \/ Held(q) => job[q].made < MaxAttempts
  BY DEF TypeOK, JobInv
<1>3. \A q \in Runs : job[q].made \in Nat
  BY <1>2, Constants DEF Jobs
<1>4. CASE UNCHANGED <<queue, job>>
  BY <1>2, <1>3, <1>4 DEF Queued, Held
<1>5. CASE UNCHANGED queue /\ job' = [job EXCEPT ![r].holder = None]
  BY <1>1, <1>2, <1>3, <1>5 DEF Queued, Held, Jobs
<1>6. CASE /\ job[r].holder = w
           /\ job' = [job EXCEPT ![r].holder = None, ![r].made = @ + 1]
           /\ queue' = IF job[r].made + 1 < MaxAttempts THEN Append(queue, r) ELSE queue
  <2>1. Held(r) /\ ~Queued(r) /\ job[r].made < MaxAttempts
    BY <1>1, <1>2, <1>6, Constants DEF Held
  <2>2. job[r].made + 1 \in 0..MaxAttempts
    BY <1>1, <1>3, <2>1, Constants
  <2>3. /\ job' \in [Runs -> Jobs] /\ job'[r].holder = None /\ job'[r].made = job[r].made + 1
        /\ job'[r].stalls = job[r].stalls
        /\ \A q \in Runs : q # r => job'[q] = job[q]
    BY <1>1, <1>2, <1>6, <2>2 DEF Jobs
  <2>4. /\ queue' \in Seq(Runs) /\ IsInjective(queue')
        /\ Range(queue') = IF job[r].made + 1 < MaxAttempts THEN Range(queue) \cup {r} ELSE Range(queue)
    <3>1. /\ Append(queue, r) \in Seq(Runs) /\ IsInjective(Append(queue, r))
          /\ Range(Append(queue, r)) = Range(queue) \cup {r}
      BY <1>1, <1>2, <2>1, AppendToQueue DEF Queued
    <3> HIDE DEF r
    <3> QED
      BY <1>2, <1>6, <3>1
  <2>5. /\ Held(r) /\ job'[r].holder = None /\ job'[r].made > 0
        /\ r \in Range(queue') => job'[r].made < MaxAttempts
    BY <1>1, <1>2, <1>3, <2>1, <2>3, <2>4 DEF Queued, Held
  <2>6. ~Queued(r) /\ job'[r].made >= job[r].made /\ job'[r].stalls = job[r].stalls
    BY <1>1, <1>3, <2>1, <2>3
  <2>7. \A q \in Runs : q # r => /\ Queued(q)' <=> Queued(q)
                               /\ job'[q] = job[q] /\ job[q].made >= job[q].made
    BY <1>3, <2>3, <2>4 DEF Queued
  <2> HIDE DEF r
  <2> QED
    BY <1>2, <2>3, <2>4, <2>5, <2>6, <2>7 DEF Queued, Held
<1> QED
  BY <1>4, <1>5, <1>6 DEF Goes, JobKept
-----------------------------------------------------------------------------
(* The processor.                                                          *)

LEMMA GoesJobs ==
  ASSUME TypeOK, JobInv, NEW w \in Workers, Goes(w) PROVE JobInv'
<1>1. \E n \in 0..MaxRuns : Requested' = 1..n
  BY DEF JobInv, Goes, Requested
<1>2. \A v \in Workers : worker'[v].run = None <=> worker'[v].pc = "idle"
  BY DEF JobInv, Goes, At, NoDelivery
<1>3. \A r \in Runs : Delivered(r)' => Delivered(r)
  BY Constants DEF Goes, Delivered, Works, NoDelivery
<1>4. ASSUME NEW r \in Runs, Queued(r)' \/ Held(r)' \/ Delivered(r)' \/ Revived(r)'
      PROVE  request[r].pc = "accepted" \/ request[r].ghost
  <2>1. CASE job'[r] # job[r] \/ Held(r)' \/ Delivered(r)'
    BY <1>3, <2>1, KeptJobs DEF JobInv
  <2>2. CASE job'[r] = job[r] /\ Revived(r)'
    BY <2>2 DEF JobInv, Revived, Goes
  <2>3. CASE Queued(r)'
    BY <2>3, KeptJobs DEF JobInv
  <2> QED
    BY <1>4, <2>1, <2>2, <2>3
<1>5. /\ IsInjective(queue')
      /\ \A r \in Runs : /\ Queued(r)' => ~Held(r)'
                         /\ Queued(r)' \/ Held(r)' => job'[r].made < MaxAttempts
  BY KeptJobs
<1>6. UNCHANGED request
  BY DEF Goes
<1> QED
  BY <1>1, <1>2, <1>4, <1>5, <1>6 DEF JobInv, At

LEMMA GoesRuns ==
  ASSUME TypeOK, JobInv, RunInv, NEW w \in Workers, Goes(w), Marks(w) PROVE RunInv'
<1>0. PICK r \in Runs : r = worker[w].run
  BY HasRun DEF Goes
<1> DEFINE status(q) == scrapeRun[q].status
<1>1. Works(w, r) /\ Delivered(r)
  BY <1>0 DEF Works, Delivered
<1>2. /\ request[r].pc \notin Rowless \cup {"add"}
      /\ status(r) # "none"
  BY <1>1 DEF JobInv, RunInv, Rowless
<1>3. /\ \A q \in Runs : q # r => status(q)' = status(q)
      /\ \/ status(r)' = status(r)
         \/ status(r)' \in Final
         \/ At(w, "running") /\ status(r)' = "running"
  BY <1>0 DEF Marks
<1>4. UNCHANGED request
  BY DEF Goes
<1>5. ASSUME NEW q \in Runs PROVE Revived(q) => Revived(q)'
  <2>1. job[q].made \in Nat /\ job[q].stalls \in Nat
    BY Constants DEF TypeOK, Jobs
  <2>2. job'[q].made >= job[q].made /\ job'[q].stalls = job[q].stalls
    BY KeptJobs
  <2>3. job'[q].made \in Nat
    BY Constants, KeptJobs DEF Jobs
  <2> QED
    BY <1>4, <2>1, <2>2, <2>3 DEF Revived
<1>6. \A v \in Workers, q \in Runs :
        /\ Works(v, q)' => Works(v, q)
        /\ Works(v, q)' /\ At(v, "running")' => v # w /\ At(v, "running")
  BY Constants DEF Goes, Works, At, NoDelivery
<1>7. \A q \in Runs : status(q)' = "none" <=> status(q) = "none"
  BY <1>2, <1>3 DEF Final
<1>8. \A q \in Runs : ~Revived(q)' /\ Queued(q)' => Queued(q)
  <2> SUFFICES ASSUME NEW q \in Runs, Queued(q)', ~Queued(q) PROVE Revived(q)'
    OBVIOUS
  <2>1. job'[q].made > 0 /\ job'[q].made \in Nat /\ job'[q].stalls \in Nat
    BY Constants, KeptJobs DEF Jobs
  <2> QED
    BY <2>1 DEF Revived
<1> HIDE DEF status
<1>9. ASSUME NEW q \in Runs, ~Revived(q)'
      PROVE  /\ Queued(q)' => status(q)' = "queued" /\ ~Delivered(q)'
             /\ \A v \in Workers : Works(v, q)' =>
                  /\ \A u \in Workers : Works(u, q)' => u = v
                  /\ At(v, "running")' => status(q)' = "queued"
  <2>1. /\ Queued(q) => status(q) = "queued" /\ ~Delivered(q)
        /\ \A v \in Workers : Works(v, q) =>
             /\ \A u \in Workers : Works(u, q) => u = v
             /\ At(v, "running") => status(q) = "queued"
    BY <1>5, <1>9 DEF RunInv, status
  <2>2. Queued(q)' => status(q)' = "queued" /\ ~Delivered(q)'
    BY <1>1, <1>3, <1>6, <1>8, <1>9, <2>1 DEF Delivered
  <2>3. ASSUME NEW v \in Workers, Works(v, q)', At(v, "running")' PROVE status(q)' = "queued"
    BY <1>1, <1>3, <1>6, <2>1, <2>3
  <2> QED
    BY <1>6, <2>1, <2>2, <2>3
<1>10. ASSUME NEW q \in Runs, NEW p \in Runs, q \in request[p].known,
              request[p].pc = "create" \/ status(p)' # "none"
       PROVE  Revived(q)' \/ status(q)' \in Final
  <2>1. Revived(q) \/ status(q) \in Final
    BY <1>7, <1>10 DEF RunInv, status
  <2>2. CASE ~Revived(q) /\ status(q) \in Final
    <3>1. Works(w, q) => ~At(w, "running")
      BY <2>2 DEF RunInv, status, Final
    <3> QED
      BY <1>1, <1>3, <2>2, <3>1
  <2> QED
    BY <1>5, <2>1, <2>2
<1>11. \A q \in Runs : /\ request[q].pc \in Rowless => status(q)' = "none"
                       /\ request[q].pc = "add" => status(q)' = "queued"
                       /\ request[q].pc \in {"recover", "accepted"} \/ request[q].ghost
                          => status(q)' # "none"
  BY <1>2, <1>3, <1>7 DEF RunInv, status
<1> QED
  BY <1>4, <1>9, <1>10, <1>11 DEF RunInv, status

\* A job that is taken leaves the queue, and its worker has it alone.
LEMMA TakeKeeps ==
  ASSUME TypeOK, JobInv, RunInv, NEW w \in Workers, NEW r \in Runs, TakeJob(w, r)
  PROVE  TypeOK' /\ JobInv' /\ RunInv'
<1>1. PICK i \in DOMAIN queue : queue[i] = r /\ queue' = RemoveAt(queue, i)
  BY DEF TakeJob
<1>2. /\ queue' \in Seq(Runs) /\ IsInjective(queue') /\ Range(queue') = Range(queue) \ {r}
  BY <1>1, RemoveFromQueue DEF TypeOK, JobInv
<1>3. Queued(r) /\ At(w, "idle")
  BY <1>1 DEF Queued, Range, TakeJob
<1>4. /\ job' \in [Runs -> Jobs] /\ job'[r].holder = w /\ job'[r].made = job[r].made
      /\ job'[r].stalls = job[r].stalls /\ \A q \in Runs : q # r => job'[q] = job[q]
  BY DEF TypeOK, TakeJob, Jobs
<1>5. /\ worker' \in [Workers -> Deliveries] /\ worker'[w].pc = "running" /\ worker'[w].run = r
      /\ \A v \in Workers : v # w => worker'[v] = worker[v]
  <2>1. worker \in [Workers -> Deliveries]
    BY DEF TypeOK
  <2>2. worker' = [worker EXCEPT ![w] = [worker[w] EXCEPT !.pc = "running", !.run = r]]
    BY <2>1 DEF TakeJob, Deliveries
  <2>3. [worker[w] EXCEPT !.pc = "running", !.run = r] \in Deliveries
    BY <2>1 DEF Deliveries
  <2>4. worker' \in [Workers -> Deliveries]
    BY ONLY <2>1, <2>2, <2>3
  <2>5. worker'[w] = [worker[w] EXCEPT !.pc = "running", !.run = r]
    BY ONLY <2>1, <2>2
  <2>6. \A v \in Workers : v # w => worker'[v] = worker[v]
    BY ONLY <2>1, <2>2
  <2> QED
    BY <2>1, <2>4, <2>5, <2>6 DEF Deliveries
<1>6. UNCHANGED <<mode, scrapeRun, transaction, request, client, reported, judged, restarted, faults>>
  BY DEF TakeJob, WorkerOnly
<1>7. TypeOK'
  BY <1>2, <1>4, <1>5, <1>6 DEF TypeOK
<1>8. /\ \A q \in Runs : Queued(q)' <=> Queued(q) /\ q # r
      /\ \A q \in Runs : Revived(q)' <=> Revived(q)
      /\ \A q \in Runs : q # r => (Delivered(q)' <=> Delivered(q)) /\ (Held(q)' <=> Held(q))
  <2>1. \A q \in Runs : Queued(q)' <=> Queued(q) /\ q # r
    BY <1>2 DEF Queued
  <2>2. \A q \in Runs : Revived(q)' <=> Revived(q)
    BY <1>4, <1>6 DEF Revived
  <2>3. \A q \in Runs : q # r => (Held(q)' <=> Held(q))
    BY <1>4 DEF Held
  <2>4. worker[w].run = None /\ None \notin Runs
    BY <1>3, Constants DEF JobInv
  <2>5. \A q \in Runs, v \in Workers : q # r => (Works(v, q)' <=> Works(v, q))
    BY <1>5, <2>4 DEF Works
  <2>6. \A q \in Runs : q # r => (Delivered(q)' <=> Delivered(q))
    BY <2>5 DEF Delivered
  <2> QED
    BY <2>1, <2>2, <2>3, <2>6
<1>9. JobInv'
  <2>1. \E n \in 0..MaxRuns : Requested' = 1..n
    BY <1>6 DEF JobInv, Requested
  <2>2. \A v \in Workers : worker'[v].run = None <=> worker'[v].pc = "idle"
    BY <1>5, Constants DEF JobInv, At
  <2>3. \A q \in Runs : /\ Queued(q)' => ~Held(q)'
                        /\ Queued(q)' \/ Held(q)' => job'[q].made < MaxAttempts
    BY <1>3, <1>4, <1>8 DEF JobInv
  <2>4. \A q \in Runs : Queued(q)' \/ Held(q)' \/ Delivered(q)' \/ Revived(q)'
                        => request[q].pc = "accepted" \/ request[q].ghost
    BY <1>3, <1>8 DEF JobInv
  <2> QED
    BY <1>2, <1>6, <2>1, <2>2, <2>3, <2>4 DEF JobInv, At
<1>10. RunInv'
  <2>1. ASSUME NEW q \in Runs, ~Revived(q)'
        PROVE  /\ Queued(q)' => scrapeRun[q].status = "queued" /\ ~Delivered(q)'
               /\ \A v \in Workers : Works(v, q)' =>
                    /\ \A u \in Workers : Works(u, q)' => u = v
                    /\ At(v, "running")' => scrapeRun[q].status = "queued"
    <3>1. CASE q = r
      BY <1>3, <1>5, <1>8, <2>1, <3>1 DEF RunInv, Works, Delivered
    <3>2. CASE q # r
      <4>1. \A v \in Workers : Works(v, q)' <=> Works(v, q)
        BY <1>3, <1>5, <3>2, Constants DEF Works, JobInv, At
      <4>2. \A v \in Workers : Works(v, q) => (At(v, "running")' <=> At(v, "running"))
        BY <1>3, <1>5, <3>2, Constants DEF Works, JobInv, At
      <4> QED
        BY <1>8, <2>1, <3>2, <4>1, <4>2 DEF RunInv
    <3> QED
      BY <3>1, <3>2
  <2> QED
    BY <1>6, <1>8, <2>1 DEF RunInv
<1> QED
  BY <1>7, <1>9, <1>10

\* A run of the processor: the types of what it writes.
LEMMA ProcessTypes ==
  ASSUME TypeOK, JobInv, StoreInv, NEW w \in Workers, Processes(w) PROVE TypeOK'
<1>1. Goes(w) /\ Marks(w) /\ reported' \in [Runs -> Batches]
  BY ProcessesGo, ProcessesMark
<1>2. queue' \in Seq(Runs) /\ job' \in [Runs -> Jobs]
  BY <1>1, KeptJobs
<1>3. worker[w].run \in Runs
  BY <1>1, HasRun DEF Goes
<1>4. \A batch : Store(batch, worker[w].run) => transaction' \in [Movements -> Transactions]
  BY <1>3 DEF Store, TypeOK, Transactions, ReviewStates
<1>5. transaction' \in [Movements -> Transactions]
  <2>1. CASE UpsertMany(w) \/ UpsertFails(w)
    BY <1>4, <2>1 DEF UpsertMany, UpsertFails, TypeOK
  <2>2. CASE UNCHANGED transaction
    BY <2>2 DEF TypeOK
  <2> QED
    BY <2>1, <2>2
       DEF Processes, MarkRunning, Collect, MarkSucceeded, SucceedFails, MarkNeedsAdminAction,
           MarkThrottled, MarkFailed, NotifyAdminAttention, ProcessorThrows, CallThrows,
           OnJobError, Crash
<1>6. Fault \/ Fine => faults' \in 0..MaxFaults
  BY Constants DEF Fault, Fine, TypeOK
<1>7. Fault \/ Fine
  BY DEF Fine, Processes, MarkRunning, Collect, UpsertMany, UpsertFails, MarkSucceeded,
         SucceedFails, MarkNeedsAdminAction, MarkThrottled, MarkFailed, NotifyAdminAttention,
         ProcessorThrows, CallThrows, OnJobError, Crash
<1> QED
  BY <1>1, <1>2, <1>5, <1>6, <1>7 DEF Goes, Marks, TypeOK
-----------------------------------------------------------------------------
(* The requests.                                                           *)

\* A request goes on, and neither queue nor processor does.
LEMMA RequestGoes ==
  ASSUME JobInv, NEW r \in Runs, UNCHANGED <<queue, job, worker>>,
         request \in [Runs -> Requests], request' \in [Runs -> Requests],
         \A q \in Runs : q # r => request'[q] = request[q],
         request[r].pc \in {"lock", "create", "add", "recover"},
         request'[r].pc # "none", request'[r].ghost = request[r].ghost,
         request[r].pc = "recover" => request'[r].pc = "refused"
  PROVE  JobInv' /\ \A q \in Runs : Revived(q)' <=> Revived(q)
<1>1. Requested' = Requested
  BY DEF Requested
<1>2. \A q \in Runs : Revived(q)' <=> Revived(q)
  BY DEF Revived
<1>3. \A q \in Runs : /\ Queued(q)' <=> Queued(q)
                      /\ Held(q)' <=> Held(q)
                      /\ Delivered(q)' <=> Delivered(q)
  BY DEF Queued, Held, Delivered, Works
<1>4. \A v \in Workers : worker'[v].run = None <=> At(v, "idle")'
  BY DEF JobInv, At
<1> QED
  BY <1>1, <1>2, <1>3, <1>4 DEF JobInv

LEMMA RequestRuns ==
  ASSUME JobInv, RunInv, NEW r \in Runs, UNCHANGED <<queue, job, worker>>,
         request \in [Runs -> Requests], request' \in [Runs -> Requests],
         \A q \in Runs : q # r => request'[q] = request[q] /\ scrapeRun'[q] = scrapeRun[q],
         request[r].pc \in {"lock", "create", "add", "recover"},
         request'[r].pc # "none", request'[r].ghost = request[r].ghost,
         request[r].pc = "recover" => request'[r].pc = "refused",
         request'[r].pc \in Rowless => scrapeRun'[r].status = "none",
         request'[r].pc = "add" => scrapeRun'[r].status = "queued",
         request'[r].pc \in {"recover", "accepted"} \/ request[r].ghost
           => scrapeRun'[r].status # "none",
         scrapeRun[r].status \in Final => scrapeRun'[r].status \in Final,
         \A q \in request'[r].known :
           request'[r].pc = "create" \/ scrapeRun'[r].status # "none"
             => Revived(q) \/ scrapeRun'[q].status \in Final
  PROVE  JobInv' /\ RunInv'
<1>1. JobInv' /\ \A q \in Runs : Revived(q)' <=> Revived(q)
  BY RequestGoes
<1>2. \A q \in Runs : (Queued(q)' <=> Queued(q)) /\ (Delivered(q)' <=> Delivered(q))
  BY DEF Queued, Delivered, Works
<1>3. \A v \in Workers : (At(v, "running")' <=> At(v, "running"))
                         /\ \A q \in Runs : Works(v, q)' <=> Works(v, q)
  BY DEF At, Works
<1>4. ~Revived(r) => ~Queued(r) /\ ~Delivered(r)
  BY DEF JobInv, Revived
<1>5. ASSUME NEW q \in Runs, ~Revived(q)'
      PROVE  /\ Queued(q)' => scrapeRun'[q].status = "queued" /\ ~Delivered(q)'
             /\ \A w \in Workers : Works(w, q)' =>
                  /\ \A v \in Workers : Works(v, q)' => v = w
                  /\ At(w, "running")' => scrapeRun'[q].status = "queued"
  <2>1. CASE q = r
    BY <1>1, <1>2, <1>3, <1>4, <1>5, <2>1 DEF Delivered
  <2>2. CASE q # r
    BY <1>1, <1>2, <1>3, <1>5, <2>2 DEF RunInv
  <2> QED
    BY <2>1, <2>2
<1>6. ASSUME NEW q \in Runs, NEW p \in Runs, q \in request'[p].known,
             request'[p].pc = "create" \/ scrapeRun'[p].status # "none"
      PROVE  Revived(q)' \/ scrapeRun'[q].status \in Final
  <2>1. CASE p = r
    BY <1>1, <1>6, <2>1
  <2>2. CASE p # r
    <3>1. Revived(q) \/ scrapeRun[q].status \in Final
      BY <1>6, <2>2 DEF RunInv
    <3> QED
      BY <1>1, <3>1
  <2> QED
    BY <2>1, <2>2
<1>7. \A q \in Runs : /\ request'[q].pc \in Rowless => scrapeRun'[q].status = "none"
                      /\ request'[q].pc = "add" => scrapeRun'[q].status = "queued"
                      /\ request'[q].pc \in {"recover", "accepted"} \/ request'[q].ghost
                         => scrapeRun'[q].status # "none"
  BY DEF RunInv
<1> QED
  BY <1>1, <1>5, <1>6, <1>7 DEF RunInv

\* Most of the route: one request goes on, with its row or without.
LEMMA RouteKeeps ==
  ASSUME TypeOK, JobInv, RunInv, NEW r \in Runs,
         Refuse(r) \/ HasActiveRunForBank(r) \/ CallFails(r) \/ CreateQueued(r) \/ MarkUnscheduled(r)
  PROVE  TypeOK' /\ JobInv' /\ RunInv'
<1> USE DEF Goto, ServerOnly
<1>1. request \in [Runs -> Requests] /\ scrapeRun \in [Runs -> ScrapeRuns]
  BY DEF TypeOK
<1>2. Fault \/ Fine => faults' \in 0..MaxFaults
  BY Constants DEF Fault, Fine, TypeOK
<1>3. ASSUME request' \in [Runs -> Requests], scrapeRun' \in [Runs -> ScrapeRuns],
             Fault \/ Fine, UNCHANGED <<queue, job>>, ServerOnly
      PROVE  TypeOK'
  BY <1>2, <1>3 DEF TypeOK
<1>4. ASSUME \/ Refuse(r)
             \/ (CallFails(r) \/ MarkUnscheduled(r)) /\ Goto(r, "refused") /\ UNCHANGED scrapeRun
      PROVE  TypeOK' /\ JobInv' /\ RunInv'
  <2>1. /\ request' = [request EXCEPT ![r].pc = "refused"]
        /\ request[r].pc \in {"lock", "create", "recover"} /\ UNCHANGED <<scrapeRun, queue, job, worker>>
    BY <1>4 DEF Refuse, CallFails, MarkUnscheduled
  <2>2. /\ request' \in [Runs -> Requests] /\ request'[r].pc = "refused"
        /\ request'[r].ghost = request[r].ghost /\ request'[r].known = request[r].known
        /\ \A q \in Runs : q # r => request'[q] = request[q]
    BY <1>1, <2>1 DEF Requests, Answers
  <2>3. /\ request[r].ghost => scrapeRun[r].status # "none"
        /\ \A q \in request[r].known :
             scrapeRun[r].status # "none" => Revived(q) \/ scrapeRun[q].status \in Final
    BY <1>1 DEF RunInv, Requests
  <2>4. JobInv' /\ RunInv'
    BY <1>1, <2>1, <2>2, <2>3, RequestRuns DEF Rowless
  <2>5. Fault \/ Fine
    BY <1>4 DEF Refuse, CallFails, MarkUnscheduled, Fine
  <2> QED
    BY <1>1, <1>3, <1>4, <2>1, <2>2, <2>4, <2>5 DEF Refuse, CallFails, MarkUnscheduled
<1>5. ASSUME HasActiveRunForBank(r) PROVE TypeOK' /\ JobInv' /\ RunInv'
  <2> DEFINE seen == {q \in Runs : scrapeRun[q].status # "none"}
             pc   == IF \E q \in Runs : scrapeRun[q].status \in Active THEN "refused" ELSE "create"
             row  == [request[r] EXCEPT !.pc = pc, !.known = seen]
  <2>0. /\ request' = [request EXCEPT ![r] = row]
        /\ request[r].pc = "lock" /\ UNCHANGED <<scrapeRun, queue, job, worker, faults>>
    BY <1>5 DEF HasActiveRunForBank
  <2>6. seen \in SUBSET Runs /\ pc \in {"refused", "create"}
    OBVIOUS
  <2>7. pc = "create" => \A q \in seen : scrapeRun[q].status \in Final
    BY <1>1 DEF ScrapeRuns, Active, Final
  <2> HIDE DEF seen, pc
  <2>8. row \in Requests /\ row.pc = pc /\ row.known = seen /\ row.ghost = request[r].ghost
    <3>1. request[r] \in Requests
      BY <1>1
    <3> QED
      BY ONLY <2>6, <3>1 DEF Requests, Answers, row
  <2> HIDE DEF row
  <2>1. /\ request'[r].pc = pc /\ request'[r].known = seen /\ request'[r].ghost = request[r].ghost
        /\ \A q \in Runs : q # r => request'[q] = request[q]
    BY <1>1, <2>0, <2>8
  <2>2. request' \in [Runs -> Requests]
    BY <1>1, <2>0, <2>8
  <2>3. scrapeRun[r].status = "none" /\ ~request[r].ghost
    BY <2>0 DEF RunInv, JobInv, Rowless
  <2>4. \A q \in request'[r].known : request'[r].pc = "create" => scrapeRun[q].status \in Final
    BY <2>1, <2>7
  <2>5. JobInv' /\ RunInv'
    BY <1>1, <2>0, <2>1, <2>2, <2>3, <2>4, <2>6, RequestRuns DEF Rowless
  <2> QED
    BY <1>1, <1>3, <1>5, <2>0, <2>2, <2>5 DEF HasActiveRunForBank, Fine
<1>6. ASSUME NEW status, NEW pc, NEW lost \in BOOLEAN, Mark(r, status),
             request' = [request EXCEPT ![r].pc = pc, ![r].lost = lost],
             \/ request[r].pc = "create" /\ pc \in {"add", "refused"} /\ status = "queued"
             \/ request[r].pc = "recover" /\ pc = "refused" /\ status = "failed",
             UNCHANGED <<queue, job>>, Fault \/ Fine, ServerOnly
      PROVE  TypeOK' /\ JobInv' /\ RunInv'
  <2>1. /\ request' \in [Runs -> Requests] /\ request'[r].pc = pc
        /\ request'[r].ghost = request[r].ghost /\ request'[r].known = request[r].known
        /\ \A q \in Runs : q # r => request'[q] = request[q]
    BY <1>1, <1>6 DEF Requests, Answers
  <2>2. /\ scrapeRun' \in [Runs -> ScrapeRuns] /\ scrapeRun'[r].status = status
        /\ \A q \in Runs : q # r => scrapeRun'[q] = scrapeRun[q]
    BY <1>1, <1>6 DEF Mark, ScrapeRuns, Active, Final
  <2>3. /\ request[r].pc = "create" => scrapeRun[r].status = "none"
        /\ request[r].pc = "recover" => scrapeRun[r].status # "none"
    BY DEF RunInv, Rowless
  <2>4. ASSUME NEW q \in request[r].known PROVE Revived(q) \/ scrapeRun'[q].status \in Final
    <3>1. q \in Runs
      BY <1>1 DEF Requests
    <3>2. Revived(q) \/ scrapeRun[q].status \in Final
      BY <1>6, <2>3, <3>1 DEF RunInv
    <3> QED
      BY <1>6, <2>2, <2>3, <3>1, <3>2 DEF Final
  <2>5. JobInv' /\ RunInv'
    BY <1>1, <1>6, <2>1, <2>2, <2>3, <2>4, RequestRuns DEF Rowless, Final
  <2> QED
    BY <1>3, <1>6, <2>1, <2>2, <2>5
<1>7. CASE CallFails(r)
  BY <1>4, <1>6, <1>7 DEF CallFails
<1>8. CASE CreateQueued(r) \/ MarkUnscheduled(r)
  <2>1. ASSUME NEW pc, request' = [request EXCEPT ![r].pc = pc]
        PROVE  request' = [request EXCEPT ![r].pc = pc, ![r].lost = request[r].lost]
    BY <1>1, <2>1 DEF Requests
  <2>2. request[r].lost \in BOOLEAN
    BY <1>1 DEF Requests
  <2>3. CASE MarkUnscheduled(r) /\ UNCHANGED scrapeRun
    BY <1>4, <2>3 DEF MarkUnscheduled
  <2>4. CASE CreateQueued(r) \/ (MarkUnscheduled(r) /\ Mark(r, "failed"))
    BY <1>6, <2>1, <2>2, <2>4 DEF CreateQueued, MarkUnscheduled, Fine
  <2> QED
    BY <1>8, <2>3, <2>4 DEF MarkUnscheduled
<1> QED
  BY <1>4, <1>5, <1>7, <1>8

\* The job of a row that is "queued" and of a run that nobody had works on.
LEMMA ScheduleKeeps ==
  ASSUME TypeOK, JobInv, RunInv, NEW r \in Runs, ScheduleIngestionJob(r) \/ ScheduleFails(r)
  PROVE  TypeOK' /\ JobInv' /\ RunInv'
<1> USE DEF Goto, ServerOnly
<1>0. \E row \in Requests :
        /\ request' = [request EXCEPT ![r] = row]
        /\ row.known = request[r].known
        /\ row.pc = "accepted" \/ row.pc = "recover"
        /\ row.pc = "accepted" => ~row.ghost /\ queue' = Append(queue, r)
        /\ row.pc = "recover" => queue' = IF row.ghost THEN Append(queue, r) ELSE queue
  <2>0. request[r] \in Requests
    BY DEF TypeOK
  <2>1. CASE ScheduleIngestionJob(r)
    <3> DEFINE row == [request[r] EXCEPT !.pc = "accepted"]
    <3>1. row \in Requests /\ row.pc = "accepted" /\ row.known = request[r].known
          /\ row.ghost = request[r].ghost
      BY <2>0 DEF Requests, Answers
    <3>2. ~request[r].ghost
      BY <2>1 DEF ScheduleIngestionJob, JobInv
    <3>3. request' = [request EXCEPT ![r] = row] /\ queue' = Append(queue, r)
      BY <2>1 DEF ScheduleIngestionJob
    <3> HIDE DEF row
    <3> QED
      BY <3>1, <3>2, <3>3
  <2>2. CASE ScheduleFails(r)
    <3>1. PICK taken \in BOOLEAN :
            /\ queue' = IF taken THEN Append(queue, r) ELSE queue
            /\ request' = [request EXCEPT ![r].pc = "recover", ![r].ghost = taken]
      BY <2>2 DEF ScheduleFails
    <3> DEFINE row == [request[r] EXCEPT !.pc = "recover", !.ghost = taken]
    <3>2. row \in Requests /\ row.pc = "recover" /\ row.known = request[r].known
          /\ row.ghost = taken
      BY ONLY <2>0 DEF Requests, Answers
    <3>3. request' = [request EXCEPT ![r] = row]
      BY <3>1
    <3> HIDE DEF row
    <3> QED
      BY <3>1, <3>2, <3>3
  <2> QED
    BY <2>1, <2>2
<1>1. PICK row \in Requests :
        /\ request' = [request EXCEPT ![r] = row]
        /\ row.known = request[r].known
        /\ row.pc = "accepted" \/ row.pc = "recover"
        /\ row.pc = "accepted" => ~row.ghost /\ queue' = Append(queue, r)
        /\ row.pc = "recover" => queue' = IF row.ghost THEN Append(queue, r) ELSE queue
  BY <1>0
<1>2. /\ request[r].pc = "add" /\ UNCHANGED <<scrapeRun, job>> /\ ServerOnly
      /\ faults' = faults \/ Fault
  BY DEF ScheduleIngestionJob, ScheduleFails
<1>3. /\ request' \in [Runs -> Requests] /\ request'[r] = row
      /\ \A q \in Runs : q # r => request'[q] = request[q]
  BY <1>1 DEF TypeOK
<1>4. /\ ~Queued(r) /\ ~Held(r) /\ ~Delivered(r) /\ ~Revived(r) /\ ~request[r].ghost
      /\ scrapeRun[r].status = "queued"
  BY <1>2 DEF JobInv, RunInv
<1>5. /\ Append(queue, r) \in Seq(Runs) /\ IsInjective(Append(queue, r))
      /\ Range(Append(queue, r)) = Range(queue) \cup {r}
  BY <1>4, AppendToQueue DEF Queued, JobInv, TypeOK
<1>6. /\ queue' \in Seq(Runs) /\ IsInjective(queue')
      /\ \A q \in Runs : q # r => (Queued(q)' <=> Queued(q))
      /\ Queued(r)' => row.pc = "accepted" \/ row.ghost
  BY <1>1, <1>4, <1>5 DEF Queued, JobInv, TypeOK
<1>7. /\ \A q \in Runs : (Held(q)' <=> Held(q)) /\ (Delivered(q)' <=> Delivered(q))
      /\ \A q \in Runs : q # r => (Revived(q)' <=> Revived(q))
      /\ Revived(r)' => row.ghost
      /\ \A w \in Workers : At(w, "running")' <=> At(w, "running")
      /\ \A w \in Workers, q \in Runs : Works(w, q)' <=> Works(w, q)
  BY <1>2, <1>3, <1>4 DEF Held, Delivered, Works, Revived, At
<1>8. job[r].made < MaxAttempts
  <2>1. job[r].made \in Nat /\ job[r].stalls \in Nat
    BY JobCounts
  <2> QED
    BY <1>4, <2>1, Constants DEF Revived
<1>9. TypeOK'
  BY <1>2, <1>3, <1>6, Constants DEF Fault, TypeOK
<1>10. JobInv'
  <2>1. Requested' = Requested
    BY <1>1, <1>2, <1>3 DEF Requested
  <2>2. \A w \in Workers : worker'[w].run = None <=> At(w, "idle")'
    BY <1>2 DEF JobInv, At
  <2>3. \A q \in Runs : /\ Queued(q)' => ~Held(q)'
                        /\ Queued(q)' \/ Held(q)' => job'[q].made < MaxAttempts
    BY <1>2, <1>4, <1>6, <1>7, <1>8 DEF JobInv
  <2>4. \A q \in Runs : Queued(q)' \/ Held(q)' \/ Delivered(q)' \/ Revived(q)'
                        => request'[q].pc = "accepted" \/ request'[q].ghost
    BY <1>3, <1>4, <1>6, <1>7 DEF JobInv
  <2>5. \A q \in Runs : request'[q].ghost => request'[q].pc \in {"recover", "refused"}
    BY <1>1, <1>3 DEF JobInv
  <2> QED
    BY <1>6, <2>1, <2>2, <2>3, <2>4, <2>5 DEF JobInv
<1>11. RunInv'
  <2>1. \A q \in Runs :
          /\ request'[q].pc \in Rowless => scrapeRun[q].status = "none"
          /\ request'[q].pc = "add" => scrapeRun[q].status = "queued"
          /\ request'[q].pc \in {"recover", "accepted"} \/ request'[q].ghost
             => scrapeRun[q].status # "none"
    BY <1>1, <1>3, <1>4 DEF RunInv, Rowless
  <2>2. ASSUME NEW q \in Runs, ~Revived(q)'
        PROVE  /\ Queued(q)' => scrapeRun[q].status = "queued" /\ ~Delivered(q)'
               /\ \A w \in Workers : Works(w, q)' =>
                    /\ \A v \in Workers : Works(v, q)' => v = w
                    /\ At(w, "running")' => scrapeRun[q].status = "queued"
    <3>1. CASE q = r
      BY <1>4, <1>7, <3>1 DEF Delivered
    <3>2. CASE q # r
      BY <1>6, <1>7, <2>2, <3>2 DEF RunInv
    <3> QED
      BY <3>1, <3>2
  <2>3. ASSUME NEW q \in Runs, NEW p \in Runs, q \in request'[p].known,
               request'[p].pc = "create" \/ scrapeRun[p].status # "none"
        PROVE  Revived(q)' \/ scrapeRun[q].status \in Final
    <3>1. Revived(q) \/ scrapeRun[q].status \in Final
      BY <1>1, <1>3, <1>4, <2>3 DEF RunInv
    <3> QED
      BY <1>4, <1>7, <3>1
  <2> QED
    BY <1>2, <2>1, <2>2, <2>3 DEF RunInv
<1> QED
  BY <1>9, <1>10, <1>11
-----------------------------------------------------------------------------
(* Pages, people and faults.                                               *)

\* Nothing moves that the invariants speak of.
LEMMA Untouched ==
  ASSUME UNCHANGED <<scrapeRun, queue, job, request, worker>> PROVE UNCHANGED <<JobInv, RunInv>>
BY DEF JobInv, RunInv, Requested, Queued, Held, Delivered, Works, Revived, At

\* The id that is drawn is the next one.
LEMMA PostKeeps ==
  ASSUME TypeOK, JobInv, RunInv, NEW c \in Clients, NEW pc \in {"posting", "triggering"}, Post(c, pc)
  PROVE  TypeOK' /\ JobInv' /\ RunInv'
<1>1. PICK n \in 0..MaxRuns : Requested = 1..n
  BY DEF JobInv
<1>2. Cardinality(Requested) = n
  BY <1>1, FS_Interval
<1>3. n \in Nat /\ n + 1 \in Runs
  <2>1. n # MaxRuns
    BY <1>1 DEF Post, Runs
  <2> QED
    BY <1>1, <2>1, Constants DEF Runs
<1>4. PICK r \in Runs : r = n + 1
  BY <1>3
<1>5. /\ client' = [client EXCEPT ![c] = [pc |-> pc, run |-> r]]
      /\ request' = [request EXCEPT ![r].pc = "lock"]
      /\ UNCHANGED <<mode, scrapeRun, transaction, queue, job, worker, reported, judged,
                     restarted, faults>>
  BY <1>2, <1>4 DEF Post
<1>6. request[r].pc = "none"
  <2>1. r \notin Requested
    BY <1>1, <1>3, <1>4
  <2> QED
    BY <2>1 DEF Requested
<1>7. /\ request' \in [Runs -> Requests] /\ request'[r].pc = "lock"
      /\ request'[r].known = request[r].known /\ request'[r].ghost = request[r].ghost
      /\ \A q \in Runs : q # r => request'[q] = request[q]
  <2>1. request \in [Runs -> Requests]
    BY DEF TypeOK
  <2> QED
    BY ONLY <1>5, <2>1 DEF Requests
<1>8. TypeOK'
  <2>1. client' \in [Clients -> Pages]
    BY <1>5 DEF TypeOK, Pages
  <2> QED
    BY <1>5, <1>7, <2>1 DEF TypeOK
<1>9. /\ \A q \in Runs : /\ Queued(q)' <=> Queued(q)
                         /\ Held(q)' <=> Held(q)
                         /\ Delivered(q)' <=> Delivered(q)
                         /\ Revived(q)' <=> Revived(q)
      /\ \A w \in Workers : At(w, "running")' <=> At(w, "running")
      /\ \A w \in Workers, q \in Runs : Works(w, q)' <=> Works(w, q)
  BY <1>5, <1>7 DEF Queued, Held, Delivered, Works, Revived, At
<1>10. JobInv'
  <2>1. Requested' = 1..(n + 1)
    <3>1. Requested' = Requested \cup {r}
      BY <1>6, <1>7 DEF Requested
    <3> QED
      BY <1>1, <1>3, <1>4, <3>1
  <2>2. n + 1 \in 0..MaxRuns
    BY <1>3, Constants DEF Runs
  <2>3. \A w \in Workers : worker'[w].run = None <=> At(w, "idle")'
    BY <1>5 DEF JobInv, At
  <2>4. \A q \in Runs : /\ Queued(q)' => ~Held(q)'
                        /\ Queued(q)' \/ Held(q)' => job'[q].made < MaxAttempts
    BY <1>5, <1>9 DEF JobInv
  <2>5. \A q \in Runs : Queued(q)' \/ Held(q)' \/ Delivered(q)' \/ Revived(q)'
                        => request'[q].pc = "accepted" \/ request'[q].ghost
    BY <1>6, <1>7, <1>9 DEF JobInv
  <2>6. \A q \in Runs : request'[q].ghost => request'[q].pc \in {"recover", "refused"}
    BY <1>6, <1>7 DEF JobInv
  <2> QED
    BY <1>5, <2>1, <2>2, <2>3, <2>4, <2>5, <2>6 DEF JobInv
<1>11. RunInv'
  <2>1. \A q \in Runs :
          /\ request'[q].pc \in Rowless => scrapeRun[q].status = "none"
          /\ request'[q].pc = "add" => scrapeRun[q].status = "queued"
          /\ request'[q].pc \in {"recover", "accepted"} \/ request'[q].ghost
             => scrapeRun[q].status # "none"
    BY <1>6, <1>7 DEF RunInv, Rowless
  <2>2. \A q, p \in Runs :
          /\ q \in request'[p].known
          /\ request'[p].pc = "create" \/ scrapeRun[p].status # "none"
          => Revived(q) \/ scrapeRun[q].status \in Final
    BY <1>7 DEF RunInv
  <2> QED
    BY <1>5, <1>9, <2>1, <2>2 DEF RunInv
<1> QED
  BY <1>8, <1>10, <1>11

LEMMA PageKeeps ==
  ASSUME TypeOK, JobInv, RunInv, NEW c \in Clients, Page(c) \/ Timer(c)
  PROVE  TypeOK' /\ JobInv' /\ RunInv' /\ UNCHANGED <<scrapeRun, transaction, worker, reported, judged>>
<1>1. PageOnly
  BY DEF Page, Timer, Receive, ReceiveTrigger, TriggerFails, Poll, PollUnverified, AbortPost,
         PollDeadline
<1>2. client' \in [Clients -> Pages]
  <2>1. Tell(c) => client' \in [Clients -> Pages]
    BY DEF Tell, TypeOK, Pages
  <2>2. client' = [client EXCEPT ![c].pc = "polling"] => client' \in [Clients -> Pages]
    BY DEF TypeOK, Pages
  <2> QED
    BY <2>1, <2>2 DEF Page, Timer, Receive, ReceiveTrigger, TriggerFails, Poll, PollUnverified,
                      AbortPost, PollDeadline
<1> QED
  BY <1>1, <1>2, Untouched DEF PageOnly, TypeOK

LEMMA ReviewKeeps ==
  ASSUME TypeOK, JobInv, RunInv, NEW m \in Movements, Review(m)
  PROVE  TypeOK' /\ JobInv' /\ RunInv'
<1>1. UNCHANGED <<mode, scrapeRun, queue, job, request, client, worker, reported, restarted, faults>>
  BY DEF Review
<1>2. PICK verdict \in ReviewStates :
        /\ transaction' = [transaction EXCEPT ![m].review = verdict]
        /\ judged' = [judged EXCEPT ![m] = verdict]
  BY DEF Review
<1>3. transaction' \in [Movements -> Transactions] /\ judged' \in [Movements -> ReviewStates]
  BY <1>2 DEF TypeOK, Transactions
<1> QED
  BY <1>1, <1>3, Untouched DEF TypeOK

\* A job that stalls has been taken up again, whatever its worker still does.
LEMMA StallKeeps ==
  ASSUME TypeOK, JobInv, RunInv, NEW r \in Runs, Stall(r) PROVE TypeOK' /\ JobInv' /\ RunInv'
<1>1. /\ Held(r) /\ job' = [job EXCEPT ![r].holder = None, ![r].stalls = 1]
      /\ queue' = IF job[r].stalls = 0 THEN Append(queue, r) ELSE queue
      /\ UNCHANGED <<mode, scrapeRun, transaction, request, client, worker, reported, judged,
                     restarted>>
      /\ Fault \/ Fine
  BY DEF Stall, Held
<1>2. /\ job' \in [Runs -> Jobs] /\ job'[r].holder = None /\ job'[r].made = job[r].made
      /\ job'[r].stalls = 1 /\ \A q \in Runs : q # r => job'[q] = job[q]
  <2> DEFINE row == [job[r] EXCEPT !.holder = None, !.stalls = 1]
  <2>1. job[r] \in Jobs
    BY DEF TypeOK
  <2>2. row \in Jobs /\ row.holder = None /\ row.made = job[r].made /\ row.stalls = 1
    <3>1. 1 \in 0..1
      OBVIOUS
    <3> QED
      BY ONLY <2>1, <3>1 DEF Jobs, row
  <2>3. job' = [job EXCEPT ![r] = row]
    BY <1>1
  <2> HIDE DEF row
  <2> QED
    BY <2>2, <2>3 DEF TypeOK
<1>3. ~Queued(r) /\ job[r].made < MaxAttempts /\ job[r].made \in Nat
  BY <1>1, Constants DEF JobInv, TypeOK, Jobs
<1>4. /\ Append(queue, r) \in Seq(Runs) /\ IsInjective(Append(queue, r))
      /\ Range(Append(queue, r)) = Range(queue) \cup {r}
  BY <1>3, AppendToQueue DEF Queued, JobInv, TypeOK
<1>5. /\ queue' \in Seq(Runs) /\ IsInjective(queue')
      /\ \A q \in Runs : q # r => (Queued(q)' <=> Queued(q))
  BY <1>1, <1>4 DEF Queued, JobInv, TypeOK
<1>6. /\ \A q \in Runs : (Delivered(q)' <=> Delivered(q))
      /\ \A q \in Runs : q # r => (Revived(q)' <=> Revived(q)) /\ (Held(q)' <=> Held(q))
      /\ Revived(r)' /\ ~Held(r)'
      /\ \A w \in Workers : At(w, "running")' <=> At(w, "running")
      /\ \A w \in Workers, q \in Runs : Works(w, q)' <=> Works(w, q)
  <2>1. Revived(r)'
    BY <1>2, <1>3 DEF Revived
  <2> QED
    BY <1>1, <1>2, <2>1 DEF Held, Delivered, Works, Revived, At
<1>7. TypeOK'
  BY <1>1, <1>2, <1>5, Constants DEF TypeOK, Fault, Fine
<1>8. JobInv'
  <2>1. \E n \in 0..MaxRuns : Requested' = 1..n
    BY <1>1 DEF JobInv, Requested
  <2>2. \A w \in Workers : worker'[w].run = None <=> At(w, "idle")'
    BY <1>1 DEF JobInv, At
  <2>3. \A q \in Runs : /\ Queued(q)' => ~Held(q)'
                        /\ Queued(q)' \/ Held(q)' => job'[q].made < MaxAttempts
    BY <1>2, <1>3, <1>5, <1>6 DEF JobInv
  <2>4. \A q \in Runs : Queued(q)' \/ Held(q)' \/ Delivered(q)' \/ Revived(q)'
                        => request'[q].pc = "accepted" \/ request'[q].ghost
    BY <1>1, <1>5, <1>6 DEF JobInv
  <2> QED
    BY <1>1, <1>5, <2>1, <2>2, <2>3, <2>4 DEF JobInv
<1>9. RunInv'
  BY <1>1, <1>5, <1>6 DEF RunInv
<1> QED
  BY <1>7, <1>8, <1>9

LEMMA RestartKeeps ==
  ASSUME TypeOK, JobInv, RunInv, Restart PROVE TypeOK' /\ JobInv' /\ RunInv'
<1>1. /\ UNCHANGED <<mode, scrapeRun, transaction, client, reported, judged>> /\ Fault
      /\ restarted' \in BOOLEAN
  BY DEF Restart, TypeOK
<1>2. /\ request' \in [Runs -> Requests]
      /\ \A r \in Runs : /\ request'[r].known = request[r].known
                         /\ request'[r].ghost = request[r].ghost
                         /\ \/ request'[r].pc = request[r].pc
                               /\ request[r].pc \in {"none", "accepted", "refused"}
                            \/ request'[r].pc = "refused" /\ request[r].pc \notin {"none", "accepted"}
  <2> SUFFICES ASSUME NEW r \in Runs
               PROVE  /\ request'[r] \in Requests
                      /\ request'[r].known = request[r].known
                      /\ request'[r].ghost = request[r].ghost
                      /\ \/ request'[r].pc = request[r].pc
                            /\ request[r].pc \in {"none", "accepted", "refused"}
                         \/ request'[r].pc = "refused" /\ request[r].pc \notin {"none", "accepted"}
    BY DEF Restart
  <2> DEFINE lost == request[r].lost \/ request[r].pc = "add"
  <2>1. request'[r] = IF request[r].pc \in {"none"} \cup Answers THEN request[r]
                      ELSE [request[r] EXCEPT !.pc = "refused", !.lost = lost]
    BY Zenon DEF Restart, Dropped
  <2>2. request[r] \in Requests /\ lost \in BOOLEAN
    BY DEF TypeOK
  <2> HIDE DEF lost
  <2> QED
    BY ONLY <2>1, <2>2 DEF Requests, Answers
<1>3. CASE mode = "bullmq" /\ UNCHANGED <<queue, job, worker>>
  <2>1. TypeOK'
    BY <1>1, <1>2, <1>3, Constants DEF TypeOK, Fault
  <2>2. Requested' = Requested
    BY <1>2 DEF Requested
  <2>3. /\ \A r \in Runs : /\ Queued(r)' <=> Queued(r)
                           /\ Held(r)' <=> Held(r)
                           /\ Delivered(r)' <=> Delivered(r)
                           /\ Revived(r)' <=> Revived(r)
        /\ \A w \in Workers : /\ At(w, "running")' <=> At(w, "running")
                              /\ At(w, "idle")' <=> At(w, "idle")
                              /\ \A r \in Runs : Works(w, r)' <=> Works(w, r)
    BY <1>2, <1>3 DEF Queued, Held, Delivered, Revived, Works, At
  <2>4. JobInv'
    <3>1. \A w \in Workers : worker'[w].run = None <=> At(w, "idle")'
      BY <1>3, <2>3 DEF JobInv
    <3>2. \A r \in Runs : /\ Queued(r)' => ~Held(r)'
                          /\ Queued(r)' \/ Held(r)' => job'[r].made < MaxAttempts
      BY <1>3, <2>3 DEF JobInv
    <3>3. \A r \in Runs :
            /\ Queued(r)' \/ Held(r)' \/ Delivered(r)' \/ Revived(r)'
               => request'[r].pc = "accepted" \/ request'[r].ghost
            /\ request'[r].ghost => request'[r].pc \in {"recover", "refused"}
      BY <1>2, <2>3 DEF JobInv
    <3>4. IsInjective(queue') /\ \E n \in 0..MaxRuns : Requested' = 1..n
      BY <1>3, <2>2 DEF JobInv
    <3> QED
      BY <3>1, <3>2, <3>3, <3>4 DEF JobInv
  <2>5. RunInv'
    <3>1. \A r \in Runs :
            /\ request'[r].pc \in Rowless => scrapeRun'[r].status = "none"
            /\ request'[r].pc = "add" => scrapeRun'[r].status = "queued"
            /\ request'[r].pc \in {"recover", "accepted"} \/ request'[r].ghost
               => scrapeRun'[r].status # "none"
      BY <1>1, <1>2 DEF RunInv, Rowless
    <3>2. \A r \in Runs : ~Revived(r)' =>
            /\ Queued(r)' => scrapeRun'[r].status = "queued" /\ ~Delivered(r)'
            /\ \A w \in Workers : Works(w, r)' =>
                 /\ \A v \in Workers : Works(v, r)' => v = w
                 /\ At(w, "running")' => scrapeRun'[r].status = "queued"
      BY <1>1, <2>3 DEF RunInv
    <3>3. \A q, r \in Runs :
            /\ q \in request'[r].known
            /\ request'[r].pc = "create" \/ scrapeRun'[r].status # "none"
            => Revived(q)' \/ scrapeRun'[q].status \in Final
      BY <1>1, <1>2, <2>3 DEF RunInv
    <3> QED
      BY <3>1, <3>2, <3>3 DEF RunInv
  <2> QED
    BY <2>1, <2>4, <2>5
<1>4. CASE /\ queue' = <<>>
           /\ job' = [r \in Runs |-> [job[r] EXCEPT !.holder = None]]
           /\ worker' = [w \in Workers |-> NoDelivery]
  <2>1. /\ job' \in [Runs -> Jobs]
        /\ \A r \in Runs : /\ job'[r].holder = None /\ job'[r].made = job[r].made
                           /\ job'[r].stalls = job[r].stalls
    BY <1>4 DEF TypeOK, Jobs
  <2>2. /\ queue' \in Seq(Runs) /\ IsInjective(queue') /\ Range(queue') = {}
    BY <1>4, EmptySeq DEF IsInjective, Range
  <2>3. \A r \in Runs : ~Queued(r)' /\ ~Held(r)' /\ ~Delivered(r)' /\ (Revived(r)' <=> Revived(r))
    BY <1>2, <1>4, <2>1, <2>2, Constants DEF Queued, Held, Delivered, Works, Revived, NoDelivery
  <2>4. TypeOK'
    BY <1>1, <1>2, <1>4, <2>1, <2>2, Constants, NothingDelivered DEF TypeOK, Fault
  <2>5. JobInv'
    <3>1. Requested' = Requested
      BY <1>2 DEF Requested
    <3>2. \A w \in Workers : worker'[w].run = None <=> At(w, "idle")'
      BY <1>4 DEF At, NoDelivery
    <3> QED
      BY <1>2, <2>2, <2>3, <3>1, <3>2 DEF JobInv
  <2>6. RunInv'
    <3>1. \A w \in Workers, r \in Runs : ~Works(w, r)'
      BY <2>3 DEF Delivered
    <3> QED
      BY <1>1, <1>2, <2>3, <3>1 DEF RunInv, Rowless
  <2> QED
    BY <2>4, <2>5, <2>6
<1> QED
  BY <1>3, <1>4 DEF Restart
-----------------------------------------------------------------------------
(* Rows, counts and movements.                                             *)

LEMMA SizeIsNumber == \A batch : Size(batch) \in Nat
<1>1. IsFiniteSet(1..MaxCopies)
  BY Constants, FS_Interval
<1>2. IsFiniteSet(Movements \X (1..MaxCopies))
  BY <1>1, Constants, FS_Product
<1> QED
  BY <1>2, FS_Subset, FS_CardinalityType DEF Size

\* A movement that is new is listed at least once.
LEMMA NoMoreNewThanListed ==
  ASSUME NEW batch \in Batches PROVE Cardinality(Unknown(batch)) <= Size(batch)
<1> DEFINE E == {entry \in Movements \X (1..MaxCopies) : entry[2] <= batch[entry[1]]}
           f == [m \in Unknown(batch) |-> <<m, 1>>]
<1>1. IsFiniteSet(E)
  <2>1. IsFiniteSet(1..MaxCopies)
    BY Constants, FS_Interval
  <2>2. IsFiniteSet(Movements \X (1..MaxCopies))
    BY <2>1, Constants, FS_Product
  <2> QED
    BY <2>2, FS_Subset
<1>2. ASSUME NEW m \in Unknown(batch) PROVE <<m, 1>> \in E
  <2>1. m \in Movements /\ batch[m] > 0 /\ batch[m] \in Nat
    BY Constants DEF Unknown, Batches
  <2>2. 1 \in 1..MaxCopies /\ 1 <= batch[m]
    BY <2>1, Constants
  <2> QED
    BY <2>1, <2>2
<1> HIDE DEF E
<1>3. f \in Injection(Unknown(batch), E)
  BY <1>2 DEF Injection, IsInjective
<1> HIDE DEF f
<1>4. Cardinality(Unknown(batch)) <= Cardinality(E)
  BY <1>1, <1>3, FS_Injection
<1> QED
  BY <1>4 DEF E, Size

LEMMA BroughtIsFinite == \A r : IsFiniteSet(Brought(r)) /\ Cardinality(Brought(r)) \in Nat
BY Constants, FS_Subset, FS_CardinalityType DEF Brought

\* Runs only gain movements.
RunsStay ==
  \A m \in Movements : transaction[m].run # None => transaction'[m].run = transaction[m].run

LEMMA BroughtGrows ==
  ASSUME RunsStay, NEW r \in Runs
  PROVE  /\ IsFiniteSet(Brought(r)')
         /\ Cardinality(Brought(r)) <= Cardinality(Brought(r)')
         /\ Cardinality(Brought(r)') \in Nat
<1>1. Brought(r) \subseteq Brought(r)' /\ Brought(r)' \subseteq Movements
  BY Constants DEF RunsStay, Brought
<1>2. IsFiniteSet(Brought(r)')
  BY <1>1, Constants, FS_Subset
<1> QED
  BY <1>1, <1>2, FS_Subset, FS_CardinalityType

\* The facts of a worker that may report its success, after a step.
Reportable(w, r) ==
  /\ \A m \in Movements : worker[w].found[m] > 0 => transaction[m].run # None
  /\ worker[w].fresh <= Size(worker[w].found)
  /\ worker[w].fresh <= Cardinality(Brought(r))

LEMMA StoreKept ==
  ASSUME TypeOK, JobInv, StoreInv, RunsStay,
         \A m \in Movements : /\ transaction'[m].review = judged'[m]
                              /\ transaction'[m].run = None => judged'[m] = "new",
         \A r \in Runs : scrapeRun'[r].status = "succeeded" =>
           \/ scrapeRun'[r] = scrapeRun[r] /\ reported'[r] = reported[r]
           \/ \E w \in Workers :
                /\ At(w, "succeed") /\ worker[w].run = r /\ reported'[r] = worker[w].found
                /\ scrapeRun'[r].inserted = worker[w].fresh
                /\ scrapeRun'[r].skipped = Size(worker[w].found) - worker[w].fresh,
         \A w \in Workers : worker'[w].pc = "succeed" =>
           /\ worker'[w].run \in Runs
           /\ worker'[w] = worker[w] \/ \A r \in Runs : worker'[w].run = r => Reportable(w, r)'
  PROVE  StoreInv'
<1>1. ASSUME NEW w \in Workers, NEW r \in Runs, At(w, "succeed"), worker[w].run = r
      PROVE  /\ \A m \in Movements : worker[w].found[m] > 0 => transaction'[m].run # None
             /\ worker[w].fresh <= Size(worker[w].found)
             /\ worker[w].fresh <= Cardinality(Brought(r)')
             /\ worker[w].fresh \in Nat
  <2>1. worker[w] \in Deliveries
    BY DEF TypeOK
  <2>2. worker[w].fresh \in Nat
    BY <2>1 DEF Deliveries
  <2>3. worker[w].fresh <= Cardinality(Brought(r)) /\ worker[w].fresh <= Size(worker[w].found)
    BY <1>1 DEF StoreInv
  <2>4. \A m \in Movements : worker[w].found[m] > 0 => transaction'[m].run # None
    BY <1>1 DEF StoreInv, AllStored, RunsStay
  <2> QED
    BY <2>2, <2>3, <2>4, BroughtGrows, BroughtIsFinite
<1>2. ASSUME NEW r \in Runs, scrapeRun'[r].status = "succeeded"
      PROVE  /\ \A m \in Movements : reported'[r][m] > 0 => transaction'[m].run # None
             /\ scrapeRun'[r].inserted + scrapeRun'[r].skipped = Size(reported'[r])
             /\ scrapeRun'[r].inserted <= Cardinality(Brought(r)')
  <2>1. CASE scrapeRun'[r] = scrapeRun[r] /\ reported'[r] = reported[r]
    <3>1. /\ \A m \in Movements : reported[r][m] > 0 => transaction[m].run # None
          /\ scrapeRun[r].inserted + scrapeRun[r].skipped = Size(reported[r])
          /\ scrapeRun[r].inserted <= Cardinality(Brought(r))
      <4>1. scrapeRun[r].status = "succeeded"
        BY <1>2, <2>1
      <4>2. SuccessIsBacked
        BY DEF StoreInv
      <4> QED
        BY ONLY <4>1, <4>2 DEF SuccessIsBacked, Brought
    <3>2. scrapeRun[r].inserted \in Nat
      BY DEF TypeOK, ScrapeRuns
    <3>3. scrapeRun[r].inserted <= Cardinality(Brought(r)')
      BY <3>1, <3>2, BroughtGrows, BroughtIsFinite
    <3> QED
      BY <2>1, <3>1, <3>3 DEF RunsStay
  <2>2. ASSUME NEW w \in Workers,
               At(w, "succeed"), worker[w].run = r, reported'[r] = worker[w].found,
               scrapeRun'[r].inserted = worker[w].fresh,
               scrapeRun'[r].skipped = Size(worker[w].found) - worker[w].fresh
        PROVE  /\ \A m \in Movements : reported'[r][m] > 0 => transaction'[m].run # None
               /\ scrapeRun'[r].inserted + scrapeRun'[r].skipped = Size(reported'[r])
               /\ scrapeRun'[r].inserted <= Cardinality(Brought(r)')
    <3>1. Size(worker[w].found) \in Nat /\ worker[w].fresh \in Nat
      BY <1>1, <2>2, SizeIsNumber
    <3>2. scrapeRun'[r].inserted + scrapeRun'[r].skipped = Size(reported'[r])
      BY <2>2, <3>1
    <3> QED
      BY <1>1, <2>2, <3>2
  <2> QED
    BY <1>2, <2>1, <2>2
<1>3. ASSUME NEW w \in Workers, NEW r \in Runs, At(w, "succeed")', worker'[w].run = r
      PROVE  Reportable(w, r)'
  <2>1. worker'[w] = worker[w] \/ Reportable(w, r)'
    BY <1>3 DEF At
  <2>2. CASE worker'[w] = worker[w]
    <3>1. At(w, "succeed") /\ worker[w].run = r
      BY <1>3, <2>2 DEF At
    <3> QED
      BY <1>1, <2>2, <3>1 DEF Reportable
  <2> QED
    BY <2>1, <2>2
<1>4. SuccessIsBacked'
  BY <1>2 DEF SuccessIsBacked, Brought
<1>5. \A w \in Workers : At(w, "succeed")' => worker'[w].run \in Runs
  BY DEF At
<1> QED
  BY <1>3, <1>4, <1>5 DEF StoreInv, Reportable, AllStored

\* No step of a worker but its report and its upsert matters here.
LEMMA QuietStep ==
  ASSUME TypeOK, JobInv, StoreInv, UNCHANGED <<transaction, judged, reported>>,
         \A r \in Runs : scrapeRun'[r] = scrapeRun[r] \/ scrapeRun'[r].status # "succeeded",
         \A w \in Workers : worker'[w] = worker[w] \/ worker'[w].pc # "succeed"
  PROVE  StoreInv'
<1>1. RunsStay
  BY DEF RunsStay
<1>2. \A w \in Workers : worker'[w].pc = "succeed" => worker'[w].run \in Runs
  BY HasRun DEF At
<1> QED
  BY <1>1, <1>2, StoreKept DEF StoreInv

\* skipDuplicates: what is there stays as it is.
LEMMA StoreStays ==
  ASSUME TypeOK, StoreInv, NEW batch \in Batches, NEW r \in Runs, Store(batch, r), UNCHANGED judged
  PROVE  /\ RunsStay
         /\ \A m \in Movements : /\ transaction'[m].review = judged'[m]
                                 /\ transaction'[m].run = None => judged'[m] = "new"
         /\ \A m \in Movements : batch[m] > 0 => transaction'[m].run # None
         /\ Unknown(batch) \subseteq Brought(r)'
<1>1. \A m \in Movements :
        transaction'[m] = IF m \in Unknown(batch) THEN [run |-> r, review |-> "new"]
                          ELSE transaction[m]
  BY DEF Store
<1>2. \A m \in Unknown(batch) : m \in Movements /\ transaction[m].run = None /\ judged[m] = "new"
  BY DEF Unknown, StoreInv
<1>3. r # None
  BY Constants
<1>4. \A m \in Movements : /\ transaction'[m].review = judged'[m]
                           /\ transaction'[m].run = None => judged'[m] = "new"
  BY <1>1, <1>2, <1>3 DEF StoreInv
<1>5. \A m \in Movements : batch[m] > 0 => transaction'[m].run # None
  BY <1>1, <1>3 DEF Unknown
<1> QED
  BY <1>1, <1>2, <1>4, <1>5 DEF RunsStay, Brought

LEMMA UpsertStores ==
  ASSUME TypeOK, JobInv, StoreInv, NEW w \in Workers, UpsertMany(w)
  PROVE  StoreInv' /\ RunsStay
<1>1. PICK r \in Runs : r = worker[w].run
  BY HasRun DEF UpsertMany, At
<1>2. PICK batch \in Batches : batch = worker[w].found
  BY DEF TypeOK, Deliveries
<1> DEFINE n == Cardinality(Unknown(batch))
<1>3. /\ Store(batch, r) /\ UNCHANGED <<scrapeRun, reported, judged>>
      /\ worker' = [worker EXCEPT ![w].pc = "succeed", ![w].fresh = n]
  BY <1>1, <1>2 DEF UpsertMany, WorkerOnly
<1>4. /\ worker'[w].found = batch /\ worker'[w].fresh = n /\ worker'[w].run = r
      /\ \A v \in Workers : v # w => worker'[v] = worker[v]
  BY <1>1, <1>2, <1>3 DEF TypeOK, Deliveries
<1>5. n <= Size(batch) /\ n \in Nat
  BY Constants, NoMoreNewThanListed, FS_Subset, FS_CardinalityType DEF Unknown
<1>6. /\ RunsStay
      /\ \A m \in Movements : /\ transaction'[m].review = judged'[m]
                              /\ transaction'[m].run = None => judged'[m] = "new"
      /\ \A m \in Movements : batch[m] > 0 => transaction'[m].run # None
      /\ Unknown(batch) \subseteq Brought(r)'
  BY <1>3, StoreStays
<1>7. n <= Cardinality(Brought(r)')
  BY <1>6, BroughtGrows, FS_Subset
<1> HIDE DEF n
<1>8. Reportable(w, r)'
  BY <1>4, <1>5, <1>6, <1>7 DEF Reportable
<1>9. \A v \in Workers : worker'[v].pc = "succeed" => worker'[v].run \in Runs
  BY <1>1, <1>4, HasRun DEF At
<1> QED
  BY <1>3, <1>4, <1>6, <1>8, <1>9, StoreKept

LEMMA ReportStores ==
  ASSUME TypeOK, JobInv, StoreInv, NEW w \in Workers, At(w, "succeed"), Succeeded(w),
         UNCHANGED <<transaction, judged>>,
         \A v \in Workers : worker'[v] = worker[v] \/ worker'[v].pc # "succeed"
  PROVE  StoreInv'
<1>1. PICK r \in Runs : r = worker[w].run
  BY HasRun DEF At
<1>2. /\ scrapeRun' = [scrapeRun EXCEPT ![r] =
            [status |-> "succeeded", inserted |-> worker[w].fresh,
             skipped |-> Size(worker[w].found) - worker[w].fresh]]
      /\ reported' = [reported EXCEPT ![r] = worker[w].found]
  BY <1>1 DEF Succeeded
<1>3. /\ scrapeRun'[r].inserted = worker[w].fresh
      /\ scrapeRun'[r].skipped = Size(worker[w].found) - worker[w].fresh
      /\ reported'[r] = worker[w].found
      /\ \A q \in Runs : q # r => scrapeRun'[q] = scrapeRun[q] /\ reported'[q] = reported[q]
  BY <1>2 DEF TypeOK
<1>4. RunsStay
  BY DEF RunsStay
<1>5. \A v \in Workers : worker'[v].pc = "succeed" => worker'[v].run \in Runs
  BY HasRun DEF At
<1> QED
  BY <1>1, <1>3, <1>4, <1>5, StoreKept DEF StoreInv

LEMMA WorkerStores ==
  ASSUME TypeOK, JobInv, StoreInv, NEW w \in Workers, Processes(w)
  PROVE  StoreInv' /\ RunsStay
<1> USE DEF WorkerOnly
<1>1. Goes(w)
  BY ProcessesGo
<1>2. ASSUME UNCHANGED transaction PROVE RunsStay
  BY <1>2 DEF RunsStay
<1>3. ASSUME NEW pc, Step(w, pc), pc # "succeed" PROVE worker'[w].pc # "succeed"
  BY <1>3 DEF Step, TypeOK, Deliveries
<1>4. Returns(w) \/ Throws(w) \/ Release(w) => worker'[w].pc # "succeed"
  <2>1. Release(w) => worker'[w].pc # "succeed"
    BY DEF Release, NoDelivery, TypeOK
  <2> QED
    BY <1>3, <2>1 DEF Returns, Throws
<1>5. ASSUME worker'[w].pc # "succeed"
      PROVE  \A v \in Workers : worker'[v] = worker[v] \/ worker'[v].pc # "succeed"
  BY <1>1, <1>5 DEF Goes
<1>6. ASSUME UNCHANGED <<transaction, judged, reported, scrapeRun>>, worker'[w].pc # "succeed"
      PROVE  StoreInv' /\ RunsStay
  BY <1>2, <1>5, <1>6, QuietStep
<1>7. ASSUME UNCHANGED <<transaction, judged, reported>>, worker'[w].pc # "succeed",
             NEW status \in {"running", "needs_admin_action", "throttled", "failed"},
             Mark(worker[w].run, status)
      PROVE  StoreInv' /\ RunsStay
  <2>1. \A r \in Runs : scrapeRun'[r] = scrapeRun[r] \/ scrapeRun'[r].status # "succeeded"
    BY <1>7 DEF Mark, TypeOK, ScrapeRuns
  <2> QED
    BY <1>2, <1>5, <1>7, <2>1, QuietStep
<1>8. CASE MarkRunning(w)
  BY <1>3, <1>7, <1>8 DEF MarkRunning
<1>9. CASE Collect(w)
  <2>1. worker'[w].pc # "succeed"
    BY <1>9, <1>3 DEF Collect, TypeOK, Deliveries
  <2> QED
    BY <1>6, <1>9, <2>1 DEF Collect
<1>10. CASE UpsertMany(w)
  BY <1>10, UpsertStores
<1>11. CASE UpsertFails(w)
  <2>1. /\ worker'[w].pc # "succeed" /\ UNCHANGED <<scrapeRun, reported, judged>>
        /\ UNCHANGED transaction \/ Store(worker[w].found, worker[w].run)
    BY <1>3, <1>11 DEF UpsertFails
  <2>2. CASE UNCHANGED transaction
    BY <1>6, <2>1, <2>2
  <2>3. CASE Store(worker[w].found, worker[w].run)
    <3>1. worker[w].found \in Batches /\ worker[w].run \in Runs
      BY <1>1, HasRun DEF Goes, Deliveries
    <3>2. /\ RunsStay
          /\ \A m \in Movements : /\ transaction'[m].review = judged'[m]
                                  /\ transaction'[m].run = None => judged'[m] = "new"
      BY <2>1, <2>3, <3>1, StoreStays
    <3>3. \A v \in Workers : worker'[v].pc = "succeed" =>
            worker'[v] = worker[v] /\ worker'[v].run \in Runs
      BY <1>5, <2>1, HasRun DEF At
    <3> QED
      BY <2>1, <3>2, <3>3, StoreKept
  <2> QED
    BY <2>1, <2>2, <2>3
<1>12. CASE MarkSucceeded(w)
  BY <1>2, <1>4, <1>5, <1>12, ReportStores DEF MarkSucceeded
<1>13. CASE SucceedFails(w)
  <2>1. worker'[w].pc # "succeed" /\ UNCHANGED <<transaction, judged>> /\ At(w, "succeed")
    BY <1>3, <1>13 DEF SucceedFails
  <2>2. CASE Succeeded(w)
    BY <1>2, <1>5, <2>1, <2>2, ReportStores
  <2>3. CASE UNCHANGED <<scrapeRun, reported>>
    BY <1>6, <2>1, <2>3
  <2> QED
    BY <1>13, <2>2, <2>3 DEF SucceedFails
<1>14. CASE MarkNeedsAdminAction(w)
  BY <1>3, <1>7, <1>14 DEF MarkNeedsAdminAction
<1>15. CASE MarkThrottled(w)
  BY <1>4, <1>7, <1>15 DEF MarkThrottled
<1>16. CASE MarkFailed(w)
  BY <1>3, <1>7, <1>16 DEF MarkFailed
<1>17. CASE NotifyAdminAttention(w)
  BY <1>4, <1>6, <1>17 DEF NotifyAdminAttention
<1>18. CASE ProcessorThrows(w)
  <2>1. PICK pc : CallThrows(w, pc)
    BY <1>18 DEF ProcessorThrows
  <2>2. CASE UNCHANGED scrapeRun
    BY <1>4, <1>6, <2>1, <2>2 DEF CallThrows
  <2>3. CASE pc \in DOMAIN Written /\ Mark(worker[w].run, Written[pc])
    <3>1. Written[pc] \in {"running", "needs_admin_action", "throttled", "failed"}
      BY <2>3 DEF Written
    <3> QED
      BY <1>4, <1>7, <2>1, <2>3, <3>1 DEF CallThrows
  <2> QED
    BY <2>1, <2>2, <2>3 DEF CallThrows
<1>19. CASE OnJobError(w)
  BY <1>4, <1>6, <1>7, <1>19 DEF OnJobError
<1>20. CASE Crash(w)
  BY <1>4, <1>6, <1>20 DEF Crash
<1> QED
  BY <1>8, <1>9, <1>10, <1>11, <1>12, <1>13, <1>14, <1>15, <1>16, <1>17, <1>18, <1>19, <1>20
     DEF Processes

\* The other steps leave the reports alone.
LEMMA OthersStore ==
  ASSUME TypeOK, JobInv, StoreInv,
         \/ \E c \in Clients : Click(c) \/ ClickTrigger(c) \/ Page(c) \/ Timer(c)
         \/ \E r \in Runs : Serve(r) \/ Stall(r)
         \/ \E w \in Workers, r \in Runs : TakeJob(w, r)
         \/ \E m \in Movements : Review(m)
         \/ Restart
  PROVE  StoreInv' /\ RunsStay
<1>0. ASSUME UNCHANGED <<transaction, judged, reported, scrapeRun, worker>>
      PROVE  StoreInv' /\ RunsStay
  BY <1>0, QuietStep DEF RunsStay
<1>1. ASSUME NEW c \in Clients, Click(c) \/ ClickTrigger(c) PROVE StoreInv' /\ RunsStay
  BY <1>0, <1>1 DEF Click, ClickTrigger, Post
<1>2. ASSUME NEW c \in Clients, Page(c) \/ Timer(c) PROVE StoreInv' /\ RunsStay
  <2>1. PageOnly
    BY <1>2 DEF Page, Timer, Receive, ReceiveTrigger, TriggerFails, Poll, PollUnverified,
                AbortPost, PollDeadline
  <2> QED
    BY <1>0, <2>1 DEF PageOnly
<1>3. ASSUME NEW r \in Runs, Serve(r) PROVE StoreInv' /\ RunsStay
  <2>1. UNCHANGED <<transaction, judged, reported, worker>>
    BY <1>3 DEF Serve, Refuse, HasActiveRunForBank, CallFails, CreateQueued, ScheduleIngestionJob,
                ScheduleFails, MarkUnscheduled, ServerOnly
  <2>2. Mark(r, "queued") \/ Mark(r, "failed") \/ UNCHANGED scrapeRun
    BY <1>3 DEF Serve, Refuse, HasActiveRunForBank, CallFails, CreateQueued, ScheduleIngestionJob,
                ScheduleFails, MarkUnscheduled
  <2>3. \A q \in Runs : scrapeRun'[q] = scrapeRun[q] \/ scrapeRun'[q].status # "succeeded"
    BY <2>2 DEF Mark, TypeOK, ScrapeRuns
  <2> QED
    BY <2>1, <2>3, QuietStep DEF RunsStay
<1>4. ASSUME NEW r \in Runs, Stall(r) PROVE StoreInv' /\ RunsStay
  BY <1>0, <1>4 DEF Stall
<1>5. ASSUME NEW w \in Workers, NEW r \in Runs, TakeJob(w, r) PROVE StoreInv' /\ RunsStay
  <2>1. \A v \in Workers : worker'[v] = worker[v] \/ worker'[v].pc # "succeed"
    BY <1>5 DEF TakeJob, TypeOK, Deliveries
  <2> QED
    BY <1>5, <2>1, QuietStep DEF TakeJob, WorkerOnly, RunsStay
<1>6. ASSUME NEW m \in Movements, Review(m) PROVE StoreInv' /\ RunsStay
  <2>1. PICK verdict \in ReviewStates :
          /\ transaction' = [transaction EXCEPT ![m].review = verdict]
          /\ judged' = [judged EXCEPT ![m] = verdict]
    BY <1>6 DEF Review
  <2>2. /\ UNCHANGED <<scrapeRun, worker, reported>> /\ transaction[m].run # None
    BY <1>6 DEF Review
  <2>3. /\ \A n \in Movements : transaction'[n].run = transaction[n].run
        /\ transaction'[m].review = verdict /\ judged'[m] = verdict
        /\ \A n \in Movements : n # m => transaction'[n] = transaction[n] /\ judged'[n] = judged[n]
    BY <2>1 DEF TypeOK, Transactions
  <2>4. RunsStay
    BY <2>3 DEF RunsStay
  <2>5. \A n \in Movements : /\ transaction'[n].review = judged'[n]
                             /\ transaction'[n].run = None => judged'[n] = "new"
    BY <2>2, <2>3 DEF StoreInv
  <2>6. \A v \in Workers : worker'[v].pc = "succeed" =>
          worker'[v] = worker[v] /\ worker'[v].run \in Runs
    BY <2>2, HasRun DEF At
  <2> QED
    BY <2>2, <2>4, <2>5, <2>6, StoreKept
<1>7. CASE Restart
  <2>1. \A v \in Workers : worker'[v] = worker[v] \/ worker'[v].pc # "succeed"
    BY <1>7 DEF Restart, NoDelivery
  <2> QED
    BY <1>7, <2>1, QuietStep DEF Restart, RunsStay
<1> QED
  BY <1>1, <1>2, <1>3, <1>4, <1>5, <1>6, <1>7
-----------------------------------------------------------------------------
(* The theorems.                                                           *)

LEMMA Initially == Init => IInv
<1> SUFFICES ASSUME Init PROVE IInv
  OBVIOUS
<1>1. TypeOK
  <2>1. /\ mode \in Modes /\ queue \in Seq(Runs) /\ restarted \in BOOLEAN /\ faults \in 0..MaxFaults
    <3>1. /\ mode \in Modes /\ queue = <<>> /\ restarted = FALSE /\ faults = 0
      BY DEF Init
    <3>2. 0 \in 0..MaxFaults
      BY Constants
    <3> QED
      BY ONLY <3>1, <3>2, EmptySeq
  <2>2. /\ scrapeRun \in [Runs -> ScrapeRuns] /\ transaction \in [Movements -> Transactions]
        /\ judged \in [Movements -> ReviewStates] /\ client \in [Clients -> Pages]
    BY DEF Init, ScrapeRuns, Transactions, ReviewStates, Pages
  <2>3. /\ job \in [Runs -> Jobs] /\ request \in [Runs -> Requests]
    BY Constants DEF Init, Jobs, Requests
  <2>4. worker \in [Workers -> Deliveries] /\ reported \in [Runs -> Batches]
    BY Constants, NothingDelivered DEF Init, Empty, Batches
  <2> QED
    BY <2>1, <2>2, <2>3, <2>4 DEF TypeOK
<1>2. /\ Requested = 1..0
      /\ \A r \in Runs : ~Queued(r) /\ ~Held(r) /\ ~Delivered(r) /\ ~Revived(r)
      /\ \A w \in Workers, r \in Runs : ~Works(w, r)
      /\ IsInjective(queue)
  <2>1. \A r \in Runs : ~Held(r) /\ ~Revived(r)
    BY DEF Init, Held, Revived
  <2>2. Range(queue) = {} /\ IsInjective(queue)
    BY EmptySeq DEF Init, Range, IsInjective
  <2>3. \A w \in Workers, r \in Runs : ~Works(w, r)
    BY Constants DEF Init, Works, NoDelivery
  <2>4. Requested = 1..0
    BY DEF Init, Requested
  <2> QED
    BY <2>1, <2>2, <2>3, <2>4 DEF Delivered, Queued
<1>3. JobInv
  <2>1. 0 \in 0..MaxRuns
    BY Constants
  <2>2. \A w \in Workers : worker[w].run = None <=> At(w, "idle")
    BY DEF Init, At, NoDelivery
  <2>3. \A r \in Runs : ~request[r].ghost
    BY DEF Init
  <2> QED
    BY <1>2, <2>1, <2>2, <2>3 DEF JobInv
<1>4. RunInv
  <2>1. \A r \in Runs : /\ request[r].pc = "none" /\ request[r].known = {} /\ ~request[r].ghost
                        /\ scrapeRun[r].status = "none"
    BY DEF Init
  <2> QED
    BY <1>2, <2>1 DEF RunInv, Rowless
<1>5. StoreInv
  <2>1. SuccessIsBacked
    BY DEF Init, SuccessIsBacked
  <2>2. \A w \in Workers : ~At(w, "succeed")
    BY DEF Init, At, NoDelivery
  <2> QED
    BY <2>1, <2>2 DEF Init, StoreInv
<1> QED
  BY <1>1, <1>3, <1>4, <1>5 DEF IInv

LEMMA Inductive == IInv /\ [Next]_vars => IInv' /\ (RunsStay \/ UNCHANGED vars)
<1> SUFFICES ASSUME IInv, [Next]_vars PROVE IInv' /\ (RunsStay \/ UNCHANGED vars)
  OBVIOUS
<1> USE DEF IInv
<1>1. ASSUME NEW c \in Clients, Click(c) \/ ClickTrigger(c) PROVE IInv' /\ RunsStay
  <2>1. TypeOK' /\ JobInv' /\ RunInv'
    BY <1>1, PostKeeps DEF Click, ClickTrigger
  <2> QED
    BY <1>1, <2>1, OthersStore
<1>2. ASSUME NEW c \in Clients, Page(c) \/ Timer(c) PROVE IInv' /\ RunsStay
  BY <1>2, PageKeeps, OthersStore
<1>3. ASSUME NEW r \in Runs, Serve(r) PROVE IInv' /\ RunsStay
  <2>1. TypeOK' /\ JobInv' /\ RunInv'
    BY <1>3, RouteKeeps, ScheduleKeeps DEF Serve
  <2> QED
    BY <1>3, <2>1, OthersStore
<1>4. ASSUME NEW r \in Runs, Stall(r) PROVE IInv' /\ RunsStay
  BY <1>4, StallKeeps, OthersStore
<1>5. ASSUME NEW w \in Workers, NEW r \in Runs, TakeJob(w, r) PROVE IInv' /\ RunsStay
  BY <1>5, TakeKeeps, OthersStore
<1>6. ASSUME NEW w \in Workers, Processes(w) PROVE IInv' /\ RunsStay
  <2>1. Goes(w) /\ Marks(w)
    BY <1>6, ProcessesGo, ProcessesMark
  <2>2. TypeOK' /\ JobInv' /\ RunInv'
    BY <1>6, <2>1, ProcessTypes, GoesJobs, GoesRuns
  <2> QED
    BY <1>6, <2>2, WorkerStores
<1>7. ASSUME NEW m \in Movements, Review(m) PROVE IInv' /\ RunsStay
  BY <1>7, ReviewKeeps, OthersStore
<1>8. CASE Restart
  BY <1>8, RestartKeeps, OthersStore
<1>9. CASE UNCHANGED vars
  <2>1. UNCHANGED <<JobInv, RunInv>> /\ UNCHANGED TypeOK
    BY <1>9, Untouched DEF vars, TypeOK
  <2>2. UNCHANGED <<transaction, judged, reported, scrapeRun, worker>>
    BY <1>9 DEF vars
  <2> QED
    BY <1>9, <2>1, <2>2, QuietStep
<1> QED
  BY <1>1, <1>2, <1>3, <1>4, <1>5, <1>6, <1>7, <1>8, <1>9 DEF Next, Work, Processes

LEMMA Invariance == Spec => []IInv
<1>1. IInv /\ [Next]_vars => IInv'
  BY Inductive
<1> QED
  BY <1>1, Initially, PTL DEF Spec

\* Rows, jobs, requests, deliveries and movements keep their types.
THEOREM TypeCorrect == Spec => []TypeOK
<1>1. IInv => TypeOK
  BY DEF IInv
<1> QED
  BY <1>1, Invariance, PTL

\* A row that says "succeeded" is backed by the stored movements, however many
\* pages, workers, deliveries and faults there are (markSucceeded, upsertMany).
THEOREM SuccessesAreBacked == Spec => []SuccessIsBacked
<1>1. IInv => SuccessIsBacked
  BY DEF IInv, StoreInv
<1> QED
  BY <1>1, Invariance, PTL

\* Two runs are active at once only by a race of their two requests, or because
\* the queue took up again one that had ended (hasActiveRunForBank).
THEOREM RunsOverlapByRaceOrRevival == Spec => []ActiveRunsOverlap
<1>1. IInv => ActiveRunsOverlap
  <2> SUFFICES ASSUME IInv, NEW q \in Runs, NEW r \in Runs, q # r, scrapeRun[q].status \in Active,
                      scrapeRun[r].status \in Active, q \in request[r].known
               PROVE  Revived(q)
    BY DEF ActiveRunsOverlap
  <2>1. scrapeRun[r].status # "none"
    BY DEF Active
  <2>2. Revived(q) \/ scrapeRun[q].status \in Final
    BY <2>1 DEF IInv, RunInv
  <2> QED
    BY <2>2 DEF Active, Final
<1> QED
  BY <1>1, Invariance, PTL

\* A stored movement keeps the run that brought it and its reviewer's verdict
\* (createMany with skipDuplicates, updateReviewState).
THEOREM MovementsStay == Spec => StoredMovementsStay
<1>1. IInv /\ IInv' /\ [Next]_vars =>
        [\A m \in Movements : transaction[m].run # None =>
           /\ transaction'[m].run = transaction[m].run
           /\ transaction'[m].review = judged'[m]]_vars
  <2> SUFFICES ASSUME IInv, IInv', [Next]_vars, ~UNCHANGED vars,
                      NEW m \in Movements, transaction[m].run # None
               PROVE  /\ transaction'[m].run = transaction[m].run
                      /\ transaction'[m].review = judged'[m]
    OBVIOUS
  <2>1. RunsStay
    BY Inductive
  <2> QED
    BY <2>1 DEF RunsStay, IInv, StoreInv
<1> QED
  BY <1>1, Invariance, PTL DEF Spec, StoredMovementsStay
=============================================================================
