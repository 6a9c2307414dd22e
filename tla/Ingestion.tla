------------------------------ MODULE Ingestion ------------------------------
(***************************************************************************)
(* A manual scrape of one bank, from the click to the stored movements:    *)
(* the buttons of the pages, the run-now route with its active-run lock,   *)
(* the ingestion queue (BullMQ, or the in-memory queue with its drain),    *)
(* the worker's processor, the ScrapeRun rows and the transactions.        *)
(*                                                                         *)
(* A run id is time-ordered (createRunId) and is drawn by one request, so  *)
(* the n-th request and its run are both n.  Every await is a step of its  *)
(* own.  An audit that fails is swallowed wherever it is recorded, so      *)
(* audits are left out.  A recovery of an expired session is one of the    *)
(* ways to a result of Collect; module ExpiryRecovery opens it up.         *)
(***************************************************************************)
EXTENDS Naturals, Sequences, SequencesExt, FiniteSets

CONSTANTS Clients,      \* open pages
          Workers,      \* job slots of the worker, drains of the in-memory queue
          Movements,    \* what the bank may show
          None,         \* no run, no worker
          MaxRuns,      \* bound: requests, hence runs
          MaxAttempts,  \* createIngestionQueueOptions: attempts
          MaxCopies,    \* bound: times one collection lists a movement
          MaxFaults     \* bound: calls that fail, processes that stop

ASSUME IngestionAssumption ==
  /\ None \notin Nat \cup Clients \cup Workers \cup Movements
  /\ {MaxRuns, MaxAttempts, MaxCopies} \subseteq Nat \ {0} /\ MaxFaults \in Nat
  /\ IsFiniteSet(Movements)

VARIABLES mode,         \* "bullmq" or "memory": RD_SYNC_REDIS_URL at load time
          scrapeRun,    \* the ScrapeRun rows; status "none" when there is no row
          transaction,  \* per movement (sourceHash): who brought it, its review
          queue,        \* jobs waiting, in the order of arrival
          job,          \* per run, the state of its job
          request,      \* per run, the run-now request that drew its id
          client,       \* the pages
          worker,       \* the processor's calls
          reported,     \* history: what the last success of a run had found
          judged,       \* history: the last verdict a reviewer gave
          restarted,    \* history: the process of the in-memory queue stopped
          faults

vars == <<mode, scrapeRun, transaction, queue, job, request, client, worker,
          reported, judged, restarted, faults>>

Runs == 1..MaxRuns

Final == {"succeeded", "failed", "needs_admin_action", "throttled"}
Active == {"queued", "running"}
ReviewStates == {"new", "seen"}
\* createDefaultIngestionConsumer: none when a worker process consumes the queue.
Modes == {"bullmq", "memory"}
\* What one collection lists.  Movements of the same sourceHash are one movement.
Batches == [Movements -> 0..MaxCopies]
Empty == [m \in Movements |-> 0]
\* movements.length: a movement that is listed twice counts twice.
Size(batch) ==
  Cardinality({entry \in Movements \X (1..MaxCopies) : entry[2] <= batch[entry[1]]})

ScrapeRuns ==
  [status : {"none"} \cup Active \cup Final, inserted : Nat, skipped : Nat]
Transactions == [run : Runs \cup {None}, review : ReviewStates]
\* 202; any other status is told to the page as an error.
Answers == {"accepted", "refused"}
Requests ==
  [pc    : {"none", "lock", "create", "add", "recover"} \cup Answers,
   known : SUBSET Runs,   \* history: the runs that existed when it read the list
   ghost : BOOLEAN,       \* history: its job was taken although add threw
   lost  : BOOLEAN]       \* history: its row was inserted and nobody went on to add
Jobs == [holder : Workers \cup {None}, made : 0..MaxAttempts, stalls : 0..1]
\* "posting", "polling": a refresh button; "triggering": one that does not follow
\* its run.
Pages ==
  [pc : {"idle", "posting", "polling", "triggering"}, run : Runs \cup {None}]
Deliveries ==
  [pc    : {"idle", "running", "collect", "upsert", "succeed", "attention",
            "alert", "throttle", "fail", "fail_alert", "recover"},
   run   : Runs \cup {None},
   found : Batches,
   fresh : Nat]           \* UpsertResult.inserted

TypeOK ==
  /\ mode \in Modes
  /\ scrapeRun \in [Runs -> ScrapeRuns]
  /\ transaction \in [Movements -> Transactions]
  /\ queue \in Seq(Runs)
  /\ job \in [Runs -> Jobs]
  /\ request \in [Runs -> Requests]
  /\ client \in [Clients -> Pages]
  /\ worker \in [Workers -> Deliveries]
  /\ reported \in [Runs -> Batches]
  /\ judged \in [Movements -> ReviewStates]
  /\ restarted \in BOOLEAN /\ faults \in 0..MaxFaults

NoDelivery == [pc |-> "idle", run |-> None, found |-> Empty, fresh |-> 0]

Init ==
  /\ mode \in Modes
  /\ scrapeRun = [r \in Runs |-> [status |-> "none", inserted |-> 0, skipped |-> 0]]
  /\ transaction = [m \in Movements |-> [run |-> None, review |-> "new"]]
  /\ queue = <<>>
  /\ job = [r \in Runs |-> [holder |-> None, made |-> 0, stalls |-> 0]]
  /\ request = [r \in Runs |-> [pc |-> "none", known |-> {}, ghost |-> FALSE, lost |-> FALSE]]
  /\ client = [c \in Clients |-> [pc |-> "idle", run |-> None]]
  /\ worker = [w \in Workers |-> NoDelivery]
  /\ reported = [r \in Runs |-> Empty]
  /\ judged = [m \in Movements |-> "new"]
  /\ restarted = FALSE /\ faults = 0

Fault == faults < MaxFaults /\ faults' = faults + 1
Fine == UNCHANGED faults

\* An unconditional UPDATE of the row's status; the counts stay as they are.
Mark(r, status) == scrapeRun' = [scrapeRun EXCEPT ![r].status = status]

-----------------------------------------------------------------------------
(* The pages.                                                              *)

Requested == {r \in Runs : request[r].pc # "none"}

\* An idle button posts; one that is pending ignores the click.
Post(c, pc) ==
  /\ client[c].pc = "idle" /\ Requested # Runs
  /\ LET r == Cardinality(Requested) + 1 IN
       /\ client' = [client EXCEPT ![c] = [pc |-> pc, run |-> r]]
       /\ request' = [request EXCEPT ![r].pc = "lock"]
  /\ UNCHANGED <<mode, scrapeRun, transaction, queue, job, worker, reported, judged,
                 restarted, faults>>

Click(c) == Post(c, "posting")
ClickTrigger(c) == Post(c, "triggering")

\* The page shows a toast and is done.
Tell(c) == client' = [client EXCEPT ![c] = [pc |-> "idle", run |-> None]]

\* The page keeps to its answer, and nothing else changes.
PageOnly == UNCHANGED <<mode, scrapeRun, transaction, queue, job, request, worker,
                        reported, judged, restarted, faults>>

Answer(c) == request[client[c].run].pc

\* refreshTransactions, when the response comes.
Receive(c) ==
  /\ client[c].pc = "posting"
  /\ \/ Answer(c) = "accepted" /\ client' = [client EXCEPT ![c].pc = "polling"]
     \/ Answer(c) = "refused" /\ Tell(c)
  /\ PageOnly

\* The abort of the POST, or of its body, after timeoutMs; or a network error.
AbortPost(c) ==
  /\ client[c].pc = "posting"
  /\ Tell(c)
  /\ PageOnly

\* triggerRunNow and triggerRunNowForBank: the answer, whatever it is.
ReceiveTrigger(c) ==
  /\ client[c].pc = "triggering"
  /\ Answer(c) \in Answers
  /\ Tell(c)
  /\ PageOnly

\* Their POST has no timer: only a network error ends it early.
TriggerFails(c) ==
  /\ client[c].pc = "triggering"
  /\ Tell(c)
  /\ PageOnly

\* A poll that finds a final status; any other poll sleeps and polls again.
Poll(c) ==
  /\ client[c].pc = "polling"
  /\ scrapeRun[client[c].run].status \in Final
  /\ Tell(c)
  /\ PageOnly

\* 401, 403 or 404 in the middle of the polls: unverified.
PollUnverified(c) == client[c].pc = "polling" /\ Tell(c) /\ PageOnly

\* Bug: the polls have no deadline of their own.
PollDeadline_Bug(c) == FALSE

\* pollTimeoutMs: between two polls, in the headers or in the body of one.
PollDeadline(c) == client[c].pc = "polling" /\ Tell(c) /\ PageOnly

-----------------------------------------------------------------------------
(* The run-now route.                                                      *)

ServerOnly == UNCHANGED <<mode, transaction, client, worker, reported, judged, restarted>>

Goto(r, pc) == request' = [request EXCEPT ![r].pc = pc]

\* No session, no role, a bank without adapter: 401, 403, 400.
Refuse(r) ==
  /\ request[r].pc = "lock" /\ Goto(r, "refused")
  /\ UNCHANGED <<scrapeRun, queue, job, faults>> /\ ServerOnly

\* The lock counts the runs in progress, not those that wait.
HasActiveRunForBank_Bug(r) ==
  /\ request[r].pc = "lock"
  /\ request' = [request EXCEPT
       ![r].pc = IF \E q \in Runs : scrapeRun[q].status = "running"
                 THEN "refused" ELSE "create",
       ![r].known = {q \in Runs : scrapeRun[q].status # "none"}]
  /\ UNCHANGED <<scrapeRun, queue, job, faults>> /\ ServerOnly

\* The active-run lock: a list, read once.
HasActiveRunForBank(r) ==
  /\ request[r].pc = "lock"
  /\ request' = [request EXCEPT
       ![r].pc = IF \E q \in Runs : scrapeRun[q].status \in Active
                 THEN "refused" ELSE "create",
       ![r].known = {q \in Runs : scrapeRun[q].status # "none"}]
  /\ UNCHANGED <<scrapeRun, queue, job, faults>> /\ ServerOnly

\* The list or the insert fails: 503.  The insert may have had its effect, and
\* nobody looks back at it.
CallFails(r) ==
  /\ request[r].pc \in {"lock", "create"} /\ Fault
  /\ \/ Goto(r, "refused") /\ UNCHANGED scrapeRun
     \/ /\ request[r].pc = "create" /\ Mark(r, "queued")
        /\ request' = [request EXCEPT ![r].pc = "refused", ![r].lost = TRUE]
  /\ UNCHANGED <<queue, job>> /\ ServerOnly

CreateQueued(r) ==
  /\ request[r].pc = "create" /\ Goto(r, "add")
  /\ Mark(r, "queued")
  /\ UNCHANGED <<queue, job, faults>> /\ ServerOnly

\* scheduleIngestionJob; in memory, the route then starts a drain.
ScheduleIngestionJob(r) ==
  /\ request[r].pc = "add" /\ Goto(r, "accepted")
  /\ queue' = Append(queue, r)
  /\ UNCHANGED <<scrapeRun, job, faults>> /\ ServerOnly

\* The add throws.  Redis may have taken the job and lost the reply.
ScheduleFails(r) ==
  /\ request[r].pc = "add" /\ Fault
  /\ \E taken \in BOOLEAN :
       /\ taken => mode = "bullmq"
       /\ queue' = IF taken THEN Append(queue, r) ELSE queue
       /\ request' = [request EXCEPT ![r].pc = "recover", ![r].ghost = taken]
  /\ UNCHANGED <<scrapeRun, job>> /\ ServerOnly

\* The run that could not be scheduled is failed, if that call works: 503.
MarkUnscheduled(r) ==
  /\ request[r].pc = "recover" /\ Goto(r, "refused")
  /\ \/ Mark(r, "failed") /\ Fine
     \/ UNCHANGED scrapeRun /\ Fault
  /\ UNCHANGED <<queue, job>> /\ ServerOnly

-----------------------------------------------------------------------------
(* The queue and the processor.                                            *)

WorkerOnly == UNCHANGED <<mode, request, client, judged, restarted>>

At(w, pc) == worker[w].pc = pc
Step(w, pc) == worker' = [worker EXCEPT ![w].pc = pc]
Release(w) == worker' = [worker EXCEPT ![w] = NoDelivery]

\* BullMQ hands out any job that is due (a retry waits for its backoff); a
\* drain takes the oldest.  Slots are alike: any idle one stands for all.
TakeJob(w, r) ==
  /\ At(w, "idle") /\ w = CHOOSE v \in Workers : At(v, "idle")
  /\ \E i \in DOMAIN queue :
       queue[i] = r /\ (mode = "memory" => i = 1) /\ queue' = RemoveAt(queue, i)
  /\ job' = [job EXCEPT ![r].holder = w]
  /\ worker' = [worker EXCEPT ![w].pc = "running", ![w].run = r]
  /\ UNCHANGED <<scrapeRun, transaction, reported, faults>> /\ WorkerOnly

\* The processor returned.  A result without the job's lock is discarded.
Returns(w) ==
  LET r == worker[w].run IN
  /\ Release(w)
  /\ job' = IF job[r].holder = w THEN [job EXCEPT ![r].holder = None] ELSE job
  /\ UNCHANGED queue

\* A job that throws is not tried again.
Throws_Bug(w) == Returns(w)

\* The processor threw: BullMQ tries again until its attempts are used up, the
\* drain goes to onJobError.
Throws(w) ==
  LET r == worker[w].run
      again == job[r].made + 1 < MaxAttempts
  IN
  \/ mode = "memory" /\ Step(w, "recover") /\ UNCHANGED <<queue, job>>
  \/ /\ mode = "bullmq" /\ Release(w)
     /\ IF job[r].holder = w
        THEN /\ job' = [job EXCEPT ![r].holder = None, ![r].made = @ + 1]
             /\ queue' = IF again THEN Append(queue, r) ELSE queue
        ELSE UNCHANGED <<queue, job>>

\* The statements that write a status.
Written == [running |-> "running", attention |-> "needs_admin_action",
            throttle |-> "throttled", fail |-> "failed"]

\* The call fails, with or without its effect, and its exception leaves the
\* processor.
CallThrows(w, pc) ==
  /\ At(w, pc) /\ Fault /\ Throws(w)
  /\ \/ UNCHANGED scrapeRun
     \/ pc \in DOMAIN Written /\ Mark(worker[w].run, Written[pc])
  /\ UNCHANGED <<transaction, reported>> /\ WorkerOnly

MarkRunning(w) ==
  /\ At(w, "running") /\ Step(w, "collect")
  /\ Mark(worker[w].run, "running")
  /\ UNCHANGED <<transaction, queue, job, reported, faults>> /\ WorkerOnly

\* collect, with the recovery of an expired session.
Collect(w) ==
  /\ At(w, "collect")
  /\ \/ \E batch \in Batches :
          worker' = [worker EXCEPT ![w].pc = "upsert", ![w].found = batch]
     \/ \E pc \in {"attention", "throttle", "fail"} : Step(w, pc)
  /\ UNCHANGED <<scrapeRun, transaction, queue, job, reported, faults>> /\ WorkerOnly

Unknown(batch) == {m \in Movements : batch[m] > 0 /\ transaction[m].run = None}

\* A movement that is already there is written anew.
Store_Bug(batch, r) ==
  transaction' = [m \in Movements |->
    IF batch[m] > 0 THEN [run |-> r, review |-> "new"] ELSE transaction[m]]

\* createMany with skipDuplicates: one statement, first come first kept.
Store(batch, r) ==
  transaction' = [m \in Movements |->
    IF m \in Unknown(batch) THEN [run |-> r, review |-> "new"] ELSE transaction[m]]

UpsertMany(w) ==
  /\ At(w, "upsert")
  /\ Store(worker[w].found, worker[w].run)
  /\ worker' = [worker EXCEPT ![w].pc = "succeed",
                              ![w].fresh = Cardinality(Unknown(worker[w].found))]
  /\ UNCHANGED <<scrapeRun, queue, job, reported, faults>> /\ WorkerOnly

\* upsertMany throws, with or without its effect: the catch of the processor.
UpsertFails(w) ==
  /\ At(w, "upsert") /\ Fault /\ Step(w, "fail")
  /\ UNCHANGED transaction \/ Store(worker[w].found, worker[w].run)
  /\ UNCHANGED <<scrapeRun, queue, job, reported>> /\ WorkerOnly

\* The counts of a run that is delivered again are added up.
Succeeded_Bug(w) ==
  LET r == worker[w].run
      n == worker[w].fresh IN
  /\ scrapeRun' = [scrapeRun EXCEPT ![r].status = "succeeded", ![r].inserted = @ + n,
                                    ![r].skipped = @ + Size(worker[w].found) - n]
  /\ reported' = [reported EXCEPT ![r] = worker[w].found]

\* The UPDATE of markSucceeded.
Succeeded(w) ==
  LET r == worker[w].run
      n == worker[w].fresh IN
  /\ scrapeRun' = [scrapeRun EXCEPT ![r] =
       [status |-> "succeeded", inserted |-> n, skipped |-> Size(worker[w].found) - n]]
  /\ reported' = [reported EXCEPT ![r] = worker[w].found]

MarkSucceeded(w) ==
  /\ At(w, "succeed") /\ Succeeded(w) /\ Returns(w)
  /\ UNCHANGED <<transaction, faults>> /\ WorkerOnly

SucceedFails(w) ==
  /\ At(w, "succeed") /\ Fault /\ Step(w, "fail")
  /\ Succeeded(w) \/ UNCHANGED <<scrapeRun, reported>>
  /\ UNCHANGED <<transaction, queue, job>> /\ WorkerOnly

\* markNeedsAdminActionTerminal is returned, not awaited: what it throws passes
\* by the processor's catch.
MarkNeedsAdminAction(w) ==
  /\ At(w, "attention") /\ Step(w, "alert")
  /\ Mark(worker[w].run, "needs_admin_action")
  /\ UNCHANGED <<transaction, queue, job, reported, faults>> /\ WorkerOnly

MarkThrottled(w) ==
  /\ At(w, "throttle") /\ Returns(w)
  /\ Mark(worker[w].run, "throttled")
  /\ UNCHANGED <<transaction, reported, faults>> /\ WorkerOnly

MarkFailed(w) ==
  /\ At(w, "fail") /\ Step(w, "fail_alert")
  /\ Mark(worker[w].run, "failed")
  /\ UNCHANGED <<transaction, queue, job, reported, faults>> /\ WorkerOnly

\* notifyAdminAttention is the last call that can throw.
NotifyAdminAttention(w) ==
  /\ worker[w].pc \in {"alert", "fail_alert"} /\ Returns(w)
  /\ UNCHANGED <<scrapeRun, transaction, reported, faults>> /\ WorkerOnly

ProcessorThrows(w) ==
  \E pc \in {"running", "attention", "alert", "throttle", "fail", "fail_alert"} :
    CallThrows(w, pc)

\* onJobError of the drain; what it throws is swallowed.
OnJobError(w) ==
  /\ At(w, "recover") /\ Returns(w)
  /\ \/ Mark(worker[w].run, "failed") /\ Fine
     \/ UNCHANGED scrapeRun /\ Fault
  /\ UNCHANGED <<transaction, reported>> /\ WorkerOnly

-----------------------------------------------------------------------------
(* People and faults.                                                      *)

\* updateReviewState: the last reviewer is right.
Review(m) ==
  /\ transaction[m].run # None
  /\ \E verdict \in ReviewStates \ {transaction[m].review} :
       /\ transaction' = [transaction EXCEPT ![m].review = verdict]
       /\ judged' = [judged EXCEPT ![m] = verdict]
  /\ UNCHANGED <<mode, scrapeRun, queue, job, request, client, worker, reported,
                 restarted, faults>>

\* A worker process stops; the job keeps its lock until it is found stalled.
Crash(w) ==
  /\ mode = "bullmq" /\ ~At(w, "idle") /\ Fault /\ Release(w)
  /\ UNCHANGED <<scrapeRun, transaction, queue, job, reported>> /\ WorkerOnly

Works(w, r) == worker[w].run = r

\* A lock that is not renewed: the job goes back to the queue once, then fails.
\* Its worker may be dead, or alive and merely late.
Stall(r) ==
  /\ mode = "bullmq" /\ job[r].holder # None
  /\ IF Works(job[r].holder, r) THEN Fault ELSE Fine
  /\ job' = [job EXCEPT ![r].holder = None, ![r].stalls = 1]
  /\ queue' = IF job[r].stalls = 0 THEN Append(queue, r) ELSE queue
  /\ UNCHANGED <<mode, scrapeRun, transaction, request, client, worker, reported,
                 judged, restarted>>

StallOfDead(r) == job[r].holder # None /\ ~Works(job[r].holder, r) /\ Stall(r)

\* A request in the middle gets no answer; its row may be without a job.
Dropped(row) ==
  IF row.pc \in {"none"} \cup Answers THEN row
  ELSE [row EXCEPT !.pc = "refused", !.lost = @ \/ row.pc = "add"]

\* The web process stops in the middle of its requests: rows stay.  The jobs of
\* the in-memory queue go with it, those of BullMQ are in Redis.
Restart ==
  /\ Fault
  /\ request' = [r \in Runs |-> Dropped(request[r])]
  /\ \/ /\ mode = "memory" /\ restarted' = TRUE
        /\ queue' = <<>>
        /\ job' = [r \in Runs |-> [job[r] EXCEPT !.holder = None]]
        /\ worker' = [w \in Workers |-> NoDelivery]
     \/ mode = "bullmq" /\ UNCHANGED <<restarted, queue, job, worker>>
  /\ UNCHANGED <<mode, scrapeRun, transaction, client, reported, judged>>

-----------------------------------------------------------------------------
Serve(r) ==
  \/ Refuse(r) \/ HasActiveRunForBank(r) \/ CallFails(r) \/ CreateQueued(r)
  \/ ScheduleIngestionJob(r) \/ ScheduleFails(r) \/ MarkUnscheduled(r)

Page(c) ==
  \/ Receive(c) \/ ReceiveTrigger(c) \/ TriggerFails(c) \/ Poll(c) \/ PollUnverified(c)

Timer(c) == AbortPost(c) \/ PollDeadline(c)

Work(w) ==
  \/ \E r \in Runs : TakeJob(w, r)
  \/ MarkRunning(w) \/ Collect(w) \/ UpsertMany(w) \/ UpsertFails(w)
  \/ MarkSucceeded(w) \/ SucceedFails(w) \/ MarkNeedsAdminAction(w) \/ MarkThrottled(w)
  \/ MarkFailed(w) \/ NotifyAdminAttention(w) \/ ProcessorThrows(w) \/ OnJobError(w)

Next ==
  \/ \E c \in Clients : Click(c) \/ ClickTrigger(c) \/ Page(c) \/ Timer(c)
  \/ \E r \in Runs : Serve(r) \/ Stall(r)
  \/ \E w \in Workers : Work(w) \/ Crash(w)
  \/ \E m \in Movements : Review(m)
  \/ Restart

Spec == Init /\ [][Next]_vars

\* The calls nobody has put a time limit to: an add while Redis is away, for its
\* connection retries for ever (maxRetriesPerRequest is null), and what the
\* scraper asks of its browser.
Adding(r) == mode = "bullmq" /\ request[r].pc = "add"
Collecting(w) == At(w, "collect")

\* Timers fire, an answer reaches its page, PostgreSQL and the alerts answer the
\* server and the worker, Redis gives out the jobs it has, and BullMQ finds those
\* of the dead.  Nobody has to click or to review, no connection has to fail, and
\* the calls above owe nothing.
FairSpec ==
  /\ Spec
  /\ \A c \in Clients : WF_vars(Timer(c)) /\ WF_vars(ReceiveTrigger(c))
  /\ \A r \in Runs : WF_vars(~Adding(r) /\ Serve(r)) /\ WF_vars(StallOfDead(r))
  /\ \A w \in Workers : WF_vars(~Collecting(w) /\ Work(w))

-----------------------------------------------------------------------------
(* Properties.                                                             *)

\* A row that says "succeeded" is backed by what is stored, however many times
\* and by however many workers its job was delivered: everything the success
\* found is there, the counts add up to it, and no movement another run brought
\* is claimed as new.
SuccessIsBacked ==
  /\ \A r \in Runs : scrapeRun[r].status = "succeeded" =>
       /\ \A m \in Movements : reported[r][m] > 0 => transaction[m].run # None
       /\ scrapeRun[r].inserted + scrapeRun[r].skipped = Size(reported[r])
       /\ scrapeRun[r].inserted <= Cardinality({m \in Movements : transaction[m].run = r})

\* A stored movement keeps the run that brought it and its reviewer's verdict,
\* whichever collections list it again.
StoredMovementsStay ==
  [][\A m \in Movements : transaction[m].run # None =>
       /\ transaction'[m].run = transaction[m].run
       /\ transaction'[m].review = judged'[m]]_vars

Revived(r) == job[r].made + job[r].stalls > 0 \/ request[r].ghost

\* Two runs of the bank are active at once only if neither request could know
\* of the other run, or the queue has taken up again a run that had ended.
ActiveRunsOverlap ==
  \A q, r \in Runs :
    /\ q # r /\ scrapeRun[q].status \in Active /\ scrapeRun[r].status \in Active
    /\ q \in request[r].known
    => Revived(q)

\* Its job cannot be queued, or collects for ever itself, or waits for a slot
\* behind others that do.
Unanswered(r) ==
  \/ Adding(r)
  \/ \E w \in Workers : Collecting(w) /\ Works(w, r)
  \/ \A w \in Workers : Collecting(w)

\* No single failure leaves a run "queued" or "running" for good, whether a call
\* throws with or without its effect, a worker dies or a lock expires.  What
\* does: an inserted row whose request went no further (createQueued lost its
\* reply, or the web process stopped before the add), the restart of the
\* in-memory queue, and a call that is never answered.
OneFaultIsSurvived ==
  \A r \in Runs :
    scrapeRun[r].status \in Active
      ~> \/ scrapeRun[r].status \in Final
         \/ request[r].lost \/ restarted \/ faults > 1
         \/ Unanswered(r)

\* A page that asked comes back even if its run never ends, but a button without
\* a timer of its own (triggerRunNow) waits as long as its request waits for Redis.
ButtonsComeBack ==
  \A c \in Clients :
    client[c].pc # "idle"
      ~> client[c].pc = "idle" \/ (client[c].pc = "triggering" /\ Adding(client[c].run))
=============================================================================
