--------------------------- MODULE ExpiryRecovery ---------------------------
(***************************************************************************)
(* Who moves the expiry episode of one bank: the session monitors with     *)
(* their terminal observer (bank-sessions/index.ts, expiry-runtime.ts),    *)
(* the ingestion workers, which recover an expired session while they      *)
(* scrape (worker/queues/index.ts) and consume the publication job         *)
(* (worker/expiry-publication-consumer.ts), BullMQ, and the operator.      *)
(*                                                                         *)
(* A process is at one await at a time: pc names the call it is about to   *)
(* make, so the others move between any two of its calls.  Alerts, the     *)
(* audit outbox (its delivery is one step here) and the per-event login    *)
(* lock are left to modules of their own; what the login does in the       *)
(* portal is one step with any outcome.  Leased claims are dormant: no     *)
(* production code asks for one.                                           *)
(***************************************************************************)
EXTENDS EpisodeStore

CONSTANTS Monitors,    \* expiry runtimes; each proposes its own publication tokens
          Workers,     \* ingestion workers, with their tokens and claims
          Schedule,    \* the claim every delivery of a publication job derives
          KnownAccount,\* the bank's account fingerprint is configured
          MaxExpiries, \* bound: times the session expires
          MaxMishaps   \* bound: calls that fail, processes that stop

ASSUME RecoveryAssumption ==
  /\ Monitors \cap Workers = {}
  /\ Monitors \cup Workers \subseteq Tokens
  /\ Workers \cup {Schedule} \subseteq Claims
  /\ Schedule \notin Workers
  /\ KnownAccount \in BOOLEAN
  /\ MaxExpiries \in Nat
  /\ MaxMishaps \in Nat

MaxAttempts == 3       \* expiryPublicationRetryOptions.attempts

VARIABLES proc,        \* per process: where it is and what it has read
          memory,      \* per monitor: what survives a tick
          jobs,        \* per event, its publication job in BullMQ
          session,     \* the bank's browser session
          audits,      \* canonical audit events: their ids are deterministic
          closed,      \* history: events whose row a restoration deleted
          expiries, mishaps

vars == <<episodeVars, proc, memory, jobs, session, audits, closed,
          expiries, mishaps>>
world == <<memory, jobs, session, audits, closed, expiries, mishaps>>

Processes == Monitors \cup Workers

PCs == {"idle",
        "elect", "audit", "mark", "reread",                          \* tick, restoration
        "publish", "observe", "claimPublication", "schedule", "report", "published",
        "find", "cancel", "close", "recheck",
        "terminal", "terminalObserve", "job_missing", "job_failed",
        "claim", "start", "login", "giveUp", "recollect", "resolve",
        "jobRead", "jobClaim", "jobReread", "jobRun"}

Snapshots ==
  [pc    : PCs,
   event : Events \cup {None},
   token : Tokens \cup {None},
   cancelled : BOOLEAN,       \* the publication it has read was cancelled
   stage : {"tick", "restore"},
   kind  : {"expired", "restored"}]

Idle == [pc |-> "idle", event |-> None, token |-> None, cancelled |-> FALSE,
         stage |-> "tick", kind |-> "expired"]

Jobs == [state : {"missing", "waiting", "active", "completed", "failed"},
         token : Tokens \cup {None}, tries : 0..MaxAttempts, stalls : 0..1,
         holder : Workers \cup {None}]

NoJob == [state |-> "missing", token |-> None, tries |-> 0, stalls |-> 0, holder |-> None]

\* recoveryEpisode; pendingExpiryCandidate, whose id counts once it was inserted.
Memories == [recovery : Events \cup {None}, pending : BOOLEAN,
             candidate : Events \cup {None}]

Forgotten == [recovery |-> None, pending |-> FALSE, candidate |-> None]

RecoveryTypeOK ==
  /\ EpisodeTypeOK
  /\ proc \in [Processes -> Snapshots]
  /\ memory \in [Monitors -> Memories]
  /\ jobs \in [Events -> Jobs]
  /\ session \in {"active", "expired"}
  /\ audits \subseteq {"expired", "restored"} \X Events
  /\ closed \subseteq Events
  /\ expiries \in 0..MaxExpiries /\ mishaps \in 0..MaxMishaps

-----------------------------------------------------------------------------
At(p, pc) == proc[p].pc = pc
Goto(p, pc) == proc' = [proc EXCEPT ![p].pc = pc]

\* At the expired audit of the row it has read.
Expired(row, stage) ==
  [Idle EXCEPT !.pc = "audit", !.event = row.event, !.stage = stage,
               !.cancelled = stage = "tick" /\ row.publication = "cancelled"]

\* The process has nothing more to do with the episode.
Done(p) == proc' = [proc EXCEPT ![p] = Idle]

\* The monitor's part of the tick is over; the terminal observer takes over.
Observer == [Idle EXCEPT !.pc = "terminal"]
EndTick(m) == proc' = [proc EXCEPT ![m] = Observer]

Delivered(e, kind) ==
  Exists(e) /\ (IF kind = "expired" THEN episode.expired ELSE episode.restored)

Mishap == mishaps < MaxMishaps /\ mishaps' = mishaps + 1

-----------------------------------------------------------------------------
(* A monitor's tick, up to the restoration or the publication.             *)

\* The candidate of an expiry is forgotten: nothing has thrown, or all is well.
Settle(m) == memory' = [memory EXCEPT ![m].pending = FALSE, ![m].candidate = None]

\* check(): an expired session, or a browser out of reach, which counts as bad
\* news only while a candidate is pending.
BadTick(m) ==
  /\ \/ /\ session = "expired"
        /\ memory' = [memory EXCEPT ![m].pending = TRUE]
        /\ Goto(m, "elect")
     \/ memory[m].pending /\ Goto(m, "elect") /\ UNCHANGED memory
     \/ ~memory[m].pending /\ EndTick(m) /\ UNCHANGED memory

\* The candidate is dropped; an episode is restored.
ActiveTick(m) ==
  /\ session = "active"
  /\ LET known == memory[m].recovery
     IN /\ Settle(m)
        /\ proc' = [proc EXCEPT ![m] =
             [Idle EXCEPT !.pc = IF known = None THEN "find" ELSE "audit",
                          !.event = known, !.stage = "restore"]]

Check(m) ==
  /\ At(m, "idle") /\ m \in Monitors
  /\ BadTick(m) \/ ActiveTick(m)
  /\ UNCHANGED <<episodeVars, jobs, session, audits, closed, expiries, mishaps>>

\* getOrCreate of the candidate.
Elect(m) ==
  /\ At(m, "elect") /\ m \in Monitors
  /\ \/ \E e \in Events :
          /\ IF memory[m].candidate = None THEN e \notin born ELSE e = memory[m].candidate
          /\ Create(e)
          /\ memory' = [memory EXCEPT ![m].recovery = e, ![m].candidate = e]
          /\ proc' = [proc EXCEPT ![m] = Expired(Fresh(e), "tick")]
          /\ UNCHANGED mishaps
     \/ /\ episode.event # None
        /\ memory' = [memory EXCEPT ![m].recovery = episode.event]
        /\ proc' = [proc EXCEPT ![m] = Expired(episode, "tick")]
        /\ UNCHANGED <<episodeVars, mishaps>>
     \/ \* The bound on ids: with none left the call is one that throws.
        /\ episode.event = None /\ memory[m].candidate = None /\ born = Events
        /\ EndTick(m) /\ UNCHANGED <<episodeVars, memory, mishaps>>
     \/ \* The call throws, having inserted the row or not: the candidate stays.
        /\ Mishap /\ EndTick(m)
        /\ \/ UNCHANGED <<episodeVars, memory>>
           \/ \E e \in Events :
                /\ IF memory[m].candidate = None THEN e \notin born ELSE e = memory[m].candidate
                /\ Create(e)
                /\ memory' = [memory EXCEPT ![m].candidate = e]
  /\ UNCHANGED <<jobs, session, audits, closed, expiries>>

\* findByBankCode of an active tick that knows of no episode.
FindRecovery(m) ==
  /\ At(m, "find")
  /\ \/ /\ episode.event # None
        /\ memory' = [memory EXCEPT ![m].recovery = episode.event]
        /\ proc' = [proc EXCEPT ![m] = Expired(episode, "restore")]
     \/ episode.event = None /\ EndTick(m) /\ UNCHANGED memory
  /\ UNCHANGED <<episodeVars, jobs, session, audits, closed, expiries, mishaps>>

-----------------------------------------------------------------------------
(* deliverExpiryEpisodeAudit, for a monitor or a worker.                   *)

AuditAcknowledged(p) ==
  IF proc[p].stage = "tick"
  THEN \/ proc[p].cancelled /\ EndTick(p) /\ Settle(p)
       \/ /\ ~proc[p].cancelled /\ UNCHANGED memory
          /\ proc' = [proc EXCEPT ![p] = [Idle EXCEPT !.pc = "publish", !.event = proc[p].event]]
  ELSE /\ UNCHANGED memory
       /\ proc' = [proc EXCEPT ![p].pc = IF proc[p].kind = "restored" THEN "cancel" ELSE "audit",
                               ![p].kind = "restored"]

AuditRefused(p) ==
  IF proc[p].stage = "tick" THEN EndTick(p) /\ Settle(p)
                            ELSE Goto(p, "recheck") /\ UNCHANGED memory

\* A record that failed is marked all the same.
RecordAudit_Bug(p) ==
  /\ At(p, "audit")
  /\ \/ /\ Delivered(proc[p].event, proc[p].kind)
        /\ AuditAcknowledged(p)
        /\ UNCHANGED <<audits, mishaps>>
     \/ /\ ~Delivered(proc[p].event, proc[p].kind)
        /\ Goto(p, "mark") /\ UNCHANGED memory
        /\ \/ audits' = audits \cup {<<proc[p].kind, proc[p].event>>} /\ UNCHANGED mishaps
           \/ Mishap /\ UNCHANGED audits
  /\ UNCHANGED <<episodeVars, jobs, session, closed, expiries>>

\* isAuditDelivered, then the record itself; a replayed id is the same record.
RecordAudit(p) ==
  /\ At(p, "audit")
  /\ \/ /\ Delivered(proc[p].event, proc[p].kind)
        /\ AuditAcknowledged(p)
        /\ UNCHANGED <<audits, mishaps>>
     \/ /\ ~Delivered(proc[p].event, proc[p].kind)
        /\ audits' = audits \cup {<<proc[p].kind, proc[p].event>>}
        /\ Goto(p, "mark")
        /\ UNCHANGED <<memory, mishaps>>
     \/ Mishap /\ AuditRefused(p) /\ UNCHANGED audits
  /\ UNCHANGED <<episodeVars, jobs, session, closed, expiries>>

MarkAudit(p) ==
  /\ At(p, "mark")
  /\ LET e == proc[p].event
     IN \/ proc[p].kind = "expired"  /\ MarkExpiredAudit(e)  /\ AuditAcknowledged(p)
        \/ proc[p].kind = "restored" /\ MarkRestoredAudit(e) /\ AuditAcknowledged(p)
        \/ /\ Exists(e) => Delivered(e, proc[p].kind)
           /\ Goto(p, "reread")
           /\ UNCHANGED <<episodeVars, memory>>
  /\ UNCHANGED <<jobs, session, audits, closed, expiries, mishaps>>

RereadAudit(p) ==
  /\ At(p, "reread")
  /\ IF Delivered(proc[p].event, proc[p].kind) THEN AuditAcknowledged(p)
                                               ELSE AuditRefused(p)
  /\ UNCHANGED <<episodeVars, jobs, session, audits, closed, expiries, mishaps>>

-----------------------------------------------------------------------------
(* The end of restoreExpiryEpisode.                                        *)

\* The caller learns whether its episode is still there.
Restored(p, gone) ==
  IF p \in Monitors
  THEN /\ EndTick(p)
       /\ memory' = [memory EXCEPT ![p].recovery = IF gone THEN None ELSE @]
  ELSE Done(p) /\ UNCHANGED memory

Cancel(p) ==
  /\ At(p, "cancel")
  /\ \/ CancelPublication(proc[p].event)
     \/ ~Cancellable(proc[p].event) /\ UNCHANGED episodeVars
  /\ Goto(p, "close")
  /\ UNCHANGED world

CloseEpisode(p) ==
  /\ At(p, "close")
  /\ LET e == proc[p].event
     IN \/ Close(e) /\ closed' = closed \cup {e} /\ Restored(p, TRUE)
        \/ /\ ~Closable(e)
           /\ Goto(p, "recheck")
           /\ UNCHANGED <<episodeVars, closed, memory>>
  /\ UNCHANGED <<jobs, session, audits, expiries, mishaps>>

Recheck(p) ==
  /\ At(p, "recheck")
  /\ Restored(p, ~Exists(proc[p].event))
  /\ UNCHANGED <<episodeVars, jobs, session, audits, closed, expiries, mishaps>>

-----------------------------------------------------------------------------
(* publishExpiryEpisode.  What throws leaves the candidate pending.        *)

FindForPublication(m) ==
  /\ At(m, "publish")
  /\ LET e == proc[m].event
     IN \/ /\ Exists(e) /\ ~episode.restored
           /\ proc' = [proc EXCEPT
                ![m].token = IF episode.token = None THEN m ELSE episode.token,
                ![m].pc = IF episode.publication = "published" THEN "observe"
                                                              ELSE "claimPublication"]
           /\ UNCHANGED memory
        \/ (Exists(e) => episode.restored) /\ EndTick(m) /\ Settle(m)
  /\ UNCHANGED <<episodeVars, jobs, session, audits, closed, expiries, mishaps>>

\* A published episode's job is only looked at.
Observe(m) ==
  /\ At(m, "observe")
  /\ EndTick(m)
  /\ \/ Settle(m) /\ UNCHANGED mishaps
     \/ Mishap /\ UNCHANGED memory
  /\ UNCHANGED <<episodeVars, jobs, session, audits, closed, expiries>>

ClaimForSchedule(m) ==
  /\ At(m, "claimPublication") /\ m \in Monitors
  /\ LET e == proc[m].event  t == proc[m].token
     IN \/ ClaimPublication(e, t) /\ Goto(m, "schedule") /\ UNCHANGED memory
        \/ /\ ~MayClaimPublication(e, t) /\ UNCHANGED episodeVars
           /\ EndTick(m) /\ Settle(m)
  /\ UNCHANGED <<jobs, session, audits, closed, expiries, mishaps>>

\* queue.add under the run id: a job that is still known is not added again.
Added(e, t) ==
  IF jobs[e].state = "missing"
  THEN [jobs EXCEPT ![e] = [NoJob EXCEPT !.state = "waiting", !.token = t]]
  ELSE jobs

AddJob(m) ==
  /\ At(m, "schedule")
  /\ \/ jobs' = Added(proc[m].event, proc[m].token) /\ Goto(m, "published") /\ UNCHANGED mishaps
     \/ Mishap /\ jobs' \in {jobs, Added(proc[m].event, proc[m].token)} /\ Goto(m, "report")
  /\ UNCHANGED <<episodeVars, memory, session, audits, closed, expiries>>

Report(m) ==
  /\ At(m, "report")
  /\ LET e == proc[m].event  t == proc[m].token
     IN \/ MarkPublicationFailureReported(e, t)
        \/ ~(Publishing(e, t) /\ ~episode.reported) /\ UNCHANGED episodeVars
  /\ EndTick(m)
  /\ UNCHANGED world

MarkPublished(m) ==
  /\ At(m, "published") /\ m \in Monitors
  /\ LET e == proc[m].event  t == proc[m].token
     IN \/ MarkPublicationPublished(e, t)
        \/ ~(Publishing(e, t) /\ ~episode.restored) /\ UNCHANGED episodeVars
  /\ EndTick(m) /\ Settle(m)
  /\ UNCHANGED <<jobs, session, audits, closed, expiries, mishaps>>

-----------------------------------------------------------------------------
(* observeTerminalEpisode.                                                 *)

TerminalFind(m) ==
  /\ At(m, "terminal")
  /\ \/ /\ episode.event # None /\ episode.publication = "published"
        /\ proc' = [proc EXCEPT ![m] = 
             [Idle EXCEPT !.pc = "terminalObserve", !.event = episode.event, !.token = episode.token]]
     \/ episode.publication # "published" /\ Done(m)
  /\ UNCHANGED <<episodeVars, world>>

\* A failed job counts as one that is still known.
TerminalObserve_Bug(m) ==
  /\ At(m, "terminalObserve")
  /\ LET state == jobs[proc[m].event].state
     IN \/ state = "missing" /\ Goto(m, "job_missing") /\ UNCHANGED mishaps
        \/ state # "missing" /\ Done(m) /\ UNCHANGED mishaps
        \/ Mishap /\ Done(m)
  /\ UNCHANGED <<episodeVars, memory, jobs, session, audits, closed, expiries>>

\* An answer that is not terminal, or none at all, is left for the next tick.
TerminalObserve(m) ==
  /\ At(m, "terminalObserve")
  /\ LET state == jobs[proc[m].event].state
     IN \/ state = "missing" /\ Goto(m, "job_missing") /\ UNCHANGED mishaps
        \/ state = "failed"  /\ Goto(m, "job_failed")  /\ UNCHANGED mishaps
        \/ state \notin {"missing", "failed"} /\ Done(m) /\ UNCHANGED mishaps
        \/ Mishap /\ Done(m)
  /\ UNCHANGED <<episodeVars, memory, jobs, session, audits, closed, expiries>>

TerminalReconcile(m) ==
  /\ proc[m].pc \in {"job_missing", "job_failed"}
  /\ LET e == proc[m].event  t == proc[m].token
     IN \/ ReconcileTerminalFailure(e, t, proc[m].pc)
        \/ ~Terminable(e, t, proc[m].pc) /\ UNCHANGED episodeVars
  /\ Done(m)
  /\ UNCHANGED world

-----------------------------------------------------------------------------
(* recoverExpiredSession, on a worker whose scrape met an expired session. *)

\* getOrCreate under a fresh id; a published episode is claimed as it is.
Recover(w) ==
  /\ At(w, "idle") /\ w \in Workers
  /\ session = "expired"
  /\ LET Reserve(row) == proc' = [proc EXCEPT ![w] =
           [Idle EXCEPT !.event = row.event,
                        !.token = IF row.token = None THEN w ELSE row.token,
                        !.pc = IF row.publication = "published" THEN "claim"
                                                                ELSE "claimPublication"]]
     IN \/ \E e \in Events \ born : Create(e) /\ Reserve(Fresh(e))
        \/ episode.event # None /\ Reserve(episode) /\ UNCHANGED episodeVars
  /\ UNCHANGED world

\* claimPublication: the episode is published with no job behind it.
ClaimForLogin(w) ==
  /\ At(w, "claimPublication") /\ w \in Workers
  /\ LET e == proc[w].event  t == proc[w].token
     IN \/ ClaimPublication(e, t) /\ Goto(w, "published")
        \/ ~MayClaimPublication(e, t) /\ Done(w) /\ UNCHANGED episodeVars
  /\ UNCHANGED world

PublishForLogin(w) ==
  /\ At(w, "published") /\ w \in Workers
  /\ LET e == proc[w].event  t == proc[w].token
     IN \/ MarkPublicationPublished(e, t) /\ Goto(w, "claim")
        \/ ~(Publishing(e, t) /\ ~episode.restored) /\ Done(w) /\ UNCHANGED episodeVars
  /\ UNCHANGED world

ClaimLogin(w) ==
  /\ At(w, "claim")
  /\ LET e == proc[w].event  t == proc[w].token
     IN \/ ClaimConsumerAttempt(e, t, w) /\ Goto(w, "start")
        \/ ~(Published(e, t) /\ Unclaimed) /\ Done(w) /\ UNCHANGED episodeVars
  /\ UNCHANGED world

StartLogin(w) ==
  /\ At(w, "start")
  /\ LET e == proc[w].event  t == proc[w].token
     IN \/ MarkConsumerMutationStarted(e, t, w) /\ Goto(w, "login")
        \/ ~(Claimant(e, t, w) /\ Reserved) /\ Done(w) /\ UNCHANGED episodeVars
  /\ UNCHANGED world

\* runScrapeTimeAutoLogin returns or throws.  Anything but a success, even a
\* throttled or a skipped login, calls for manual recovery.
Login(w) ==
  /\ At(w, "login")
  /\ \/ session' = "active" /\ Goto(w, "recollect")
     \/ session' \in {session, "active"} /\ Goto(w, "giveUp")
  /\ UNCHANGED <<episodeVars, memory, jobs, audits, closed, expiries, mishaps>>

\* requireManualRecovery: that the statement failed is swallowed.
GiveUp(w) ==
  /\ At(w, "giveUp")
  /\ LET e == proc[w].event  t == proc[w].token
     IN \/ MarkConsumerManualRecoveryRequired(e, t, w) /\ UNCHANGED mishaps
        \/ /\ ~(Claimant(e, t, w) /\ episode.attempt = "mutation_started")
           /\ UNCHANGED <<episodeVars, mishaps>>
        \/ Mishap /\ UNCHANGED episodeVars
  /\ Done(w)
  /\ UNCHANGED <<memory, jobs, session, audits, closed, expiries>>

\* The second collect: it may come back empty-handed for any reason.
Recollect(w) ==
  /\ At(w, "recollect")
  /\ \/ session = "active" /\ Goto(w, "resolve")
     \/ Goto(w, "giveUp")
  /\ UNCHANGED <<episodeVars, world>>

\* A claim that was taken away is audited as a conflict, nothing more.
ResolveLogin(w) ==
  /\ At(w, "resolve")
  /\ LET e == proc[w].event  t == proc[w].token
     IN \/ /\ MarkConsumerResolved(e, t, w)
           /\ proc' = [proc EXCEPT ![w] = Expired(episode, "restore")]
        \/ ~(Claimant(e, t, w) /\ Resolvable) /\ Done(w) /\ UNCHANGED episodeVars
  /\ UNCHANGED world

-----------------------------------------------------------------------------
(* The publication job and its consumer.                                   *)

\* BullMQ accepts the end of a job from the delivery that holds it.
Finish(w, job) ==
  /\ jobs' = [jobs EXCEPT ![proc[w].event] =
       IF @.state = "active" /\ @.holder = w THEN job ELSE @]
  /\ Done(w)

Completed(w) == Finish(w, [NoJob EXCEPT !.state = "completed"])

\* A throw costs one of the attempts.
Thrown(w) ==
  LET job == jobs[proc[w].event]
  IN Finish(w, [job EXCEPT !.tries = @ + 1, !.holder = None,
                  !.state = IF job.tries + 1 < MaxAttempts THEN "waiting" ELSE "failed"])

TakeJob(w) ==
  /\ At(w, "idle") /\ w \in Workers
  /\ \E e \in Events :
       /\ jobs[e].state = "waiting"
       /\ jobs' = [jobs EXCEPT ![e].state = "active", ![e].holder = w]
       /\ proc' = [proc EXCEPT ![w] =
            [Idle EXCEPT !.pc = "jobRead", !.event = e, !.token = jobs[e].token]]
  /\ UNCHANGED <<episodeVars, memory, session, audits, closed, expiries, mishaps>>

\* classifyCurrentConsumerReservation; "open" stands for its null.
Reservation(e, t) ==
  IF ~(Published(e, t) /\ ~episode.restored) THEN "ignored_stale_envelope"
  ELSE IF episode.attempt = "reserved" /\ episode.claim = Schedule THEN "claim_resumed"
  ELSE IF episode.claim # None THEN "ignored_already_claimed"
  ELSE "open"

\* The reread after a lost claim: an open reservation is an invariant violation.
JobRead(w) ==
  /\ At(w, "jobRead") \/ At(w, "jobReread")
  /\ LET r == Reservation(proc[w].event, proc[w].token)
     IN \/ r = "claim_resumed" /\ Goto(w, "jobRun") /\ UNCHANGED jobs
        \/ r \in {"ignored_stale_envelope", "ignored_already_claimed"} /\ Completed(w)
        \/ r = "open" /\ At(w, "jobRead") /\ Goto(w, "jobClaim") /\ UNCHANGED jobs
        \/ r = "open" /\ At(w, "jobReread") /\ Thrown(w)
  /\ UNCHANGED <<episodeVars, memory, session, audits, closed, expiries, mishaps>>

JobClaim(w) ==
  /\ At(w, "jobClaim")
  /\ LET e == proc[w].event  t == proc[w].token
     IN \/ ClaimConsumerAttempt(e, t, Schedule) /\ Goto(w, "jobRun")
        \/ ~(Published(e, t) /\ Unclaimed) /\ Goto(w, "jobReread") /\ UNCHANGED episodeVars
  /\ UNCHANGED world

\* With no account to scrape the claim is resolved.  Otherwise the ingestion
\* starts with markRunning, which throws: no ScrapeRun row bears an expiry run id.
JobRun(w) ==
  /\ At(w, "jobRun")
  /\ LET e == proc[w].event  t == proc[w].token
     IN \/ KnownAccount /\ Thrown(w) /\ UNCHANGED episodeVars
        \/ /\ ~KnownAccount /\ Completed(w)
           /\ \/ MarkConsumerResolved(e, t, Schedule)
              \/ ~(Claimant(e, t, Schedule) /\ Resolvable) /\ UNCHANGED episodeVars
  /\ UNCHANGED <<memory, session, audits, closed, expiries, mishaps>>

\* One of the consumer's own calls throws.
JobFault(w) ==
  /\ proc[w].pc \in {"jobRead", "jobClaim", "jobReread"}
  /\ Mishap
  /\ Thrown(w)
  /\ UNCHANGED <<episodeVars, memory, session, audits, closed, expiries>>

\* removeOnComplete, removeOnFail: others have pushed it out of the history.
ForgetJob(e) ==
  /\ jobs[e].state \in {"completed", "failed"}
  /\ jobs' = [jobs EXCEPT ![e] = NoJob]
  /\ UNCHANGED <<episodeVars, proc, memory, session, audits, closed, expiries, mishaps>>

\* BullMQ delivers a stalled job once more (maxStalledCount), then fails it.
Stalled(job) ==
  [job EXCEPT !.holder = None, !.stalls = 1,
              !.state = IF job.stalls = 0 THEN "waiting" ELSE "failed"]

\* A delivery stalls while its worker may still run.
Stall(e) ==
  /\ jobs[e].state = "active"
  /\ Mishap
  /\ jobs' = [jobs EXCEPT ![e] = Stalled(@)]
  /\ UNCHANGED <<episodeVars, proc, memory, session, audits, closed, expiries>>

-----------------------------------------------------------------------------
(* The operator, the portal, the processes.                                *)

\* The other outcomes are a "safe_to_retry" no replay follows.
Operator ==
  /\ \E e \in Events :
       \/ /\ Exists(e) /\ episode.token # None /\ episode.claim # None
          /\ ResolveConsumerManualRecovery(e, episode.token, episode.claim, "safe_to_retry")
       \/ ResolutionAuditDelivered(e)
       \/ \E f \in Events \ born : AuthorizeManualRecoveryReplay(e, f)
  /\ UNCHANGED <<proc, world>>

SessionExpires ==
  /\ session = "active" /\ expiries < MaxExpiries
  /\ session' = "expired" /\ expiries' = expiries + 1
  /\ UNCHANGED <<episodeVars, proc, memory, jobs, audits, closed, mishaps>>

SomeoneLogsIn ==
  /\ session = "expired" /\ session' = "active"
  /\ UNCHANGED <<episodeVars, proc, memory, jobs, audits, closed, expiries, mishaps>>

\* A process stops.  For a worker that recovers a session a call that throws,
\* its work done or not, is the same: the caller catches it and forgets.
Crash(p) ==
  /\ ~At(p, "idle")
  /\ Mishap
  /\ Done(p)
  /\ memory' = IF p \in Monitors THEN [memory EXCEPT ![p] = Forgotten] ELSE memory
  /\ jobs' = [e \in Events |-> IF jobs[e].holder = p THEN Stalled(jobs[e]) ELSE jobs[e]]
  /\ UNCHANGED <<episodeVars, session, audits, closed, expiries>>

Clock == Age /\ UNCHANGED <<proc, world>>

RestoreStep(p) ==
  RecordAudit(p) \/ MarkAudit(p) \/ RereadAudit(p) \/ Cancel(p) \/ CloseEpisode(p) \/ Recheck(p)

MonitorStep(m) ==
  \/ Check(m) \/ Elect(m) \/ FindRecovery(m) \/ RestoreStep(m)
  \/ FindForPublication(m) \/ Observe(m) \/ ClaimForSchedule(m) \/ AddJob(m)
  \/ Report(m) \/ MarkPublished(m)
  \/ TerminalFind(m) \/ TerminalObserve(m) \/ TerminalReconcile(m)

WorkerStep(w) ==
  \/ ClaimForLogin(w) \/ PublishForLogin(w) \/ ClaimLogin(w) \/ StartLogin(w)
  \/ Login(w) \/ GiveUp(w) \/ Recollect(w) \/ ResolveLogin(w) \/ RestoreStep(w)
  \/ JobRead(w) \/ JobClaim(w) \/ JobRun(w) \/ JobFault(w)

Init ==
  /\ EpisodeInit
  /\ proc = [p \in Processes |-> Idle]
  /\ memory = [m \in Monitors |-> Forgotten]
  /\ jobs = [e \in Events |-> NoJob]
  /\ session = "active"
  /\ audits = {} /\ closed = {} /\ expiries = 0 /\ mishaps = 0

Next ==
  \/ \E m \in Monitors : MonitorStep(m)
  \/ \E w \in Workers : WorkerStep(w) \/ Recover(w) \/ TakeJob(w)
  \/ \E p \in Processes : Crash(p)
  \/ \E e \in Events : ForgetJob(e) \/ Stall(e)
  \/ Operator \/ SessionExpires \/ SomeoneLogsIn \/ Clock

Spec == Init /\ [][Next]_vars

\* The runtime's timer fires again and again, and an active session's browser
\* is within reach again and again.  Workers and operators owe nothing.
FairSpec ==
  /\ Spec
  /\ \A m \in Monitors :
       WF_vars(MonitorStep(m)) /\ SF_vars(Check(m) /\ ActiveTick(m))
-----------------------------------------------------------------------------
(* Properties.                                                             *)

\* Two logins into one bank overlap only if an operator has taken the first
\* one for settled; no expiry, crash, redelivery or verdict of the queue does.
LoginsOverlapOnlyByDecision ==
  \A v, w \in Workers : At(v, "login") /\ At(w, "login") /\ v # w =>
    \E p \in {v, w} : resolution[proc[p].event].outcome # "none"

\* A restoration leaves its two canonical audits behind, the expiry's first,
\* whichever processes took part in it and whichever of them died.
AuditsPrecedeClose ==
  /\ \A e \in closed : <<"restored", e>> \in audits
  /\ \A e \in Events : <<"restored", e>> \in audits => <<"expired", e>> \in audits

\* A session that stays restored is rid of its episode, unless a login that may
\* have happened keeps it; a claim nobody acted upon does not.
RestoredEpisodesClose ==
  <>[](session = "active") =>
    <>[](episode.event = None \/ episode.attempt \in Unresolved)

\* A delivery that has used up its attempts ends in a durable verdict, unless
\* its episode was settled or restored meanwhile, or a monitor that was late to
\* publish has queued the job anew after BullMQ forgot it.
FailedDeliveryIsNoticed ==
  \A e \in Events :
    (Exists(e) /\ episode.publication = "published" /\ jobs[e].state = "failed") ~>
      (~Exists(e) \/ episode.terminal # "none" \/ episode.restored
        \/ episode.attempt = "resolved" \/ jobs[e].state \in {"waiting", "active"})

\* What spec.md says of the expired event's identity, and a test of a candidate:
\* once its session was restored it is not used again.
ClosedIdentityIsNotRevived == \A e \in closed : episode.event # e

\* What a test says of a recovery: the login that brought the session back
\* finds its own attempt open, and so resolves it.
RecoveryFindsItsAttempt ==
  \A w \in Workers : At(w, "resolve") =>
    Claimant(proc[w].event, proc[w].token, w) /\ Resolvable
=============================================================================
