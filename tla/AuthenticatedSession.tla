------------------------ MODULE AuthenticatedSession ------------------------
(***************************************************************************)
(* Deliveries of one run at work on its durable authentication attempt:    *)
(* the coordinator (ensure-authenticated-session.ts), the mint and vault   *)
(* of the mutation authority (authentication-mutation-authority.ts), the   *)
(* mutation runner with its heartbeat, the durable page fence, and the     *)
(* precondition that turns all of it into one answer for the scrape.       *)
(*                                                                         *)
(* A worker is at one await at a time: pc names the call it is about to    *)
(* make.  Repository calls are the atomic statements of AttemptStore;      *)
(* probing the bank and writing into its page are steps of their own, so   *)
(* leases run out and other workers move between any two of them.  The     *)
(* completion mode is attempt_only.                                        *)
(***************************************************************************)
EXTENDS AttemptStore

CONSTANT MaxCrashes    \* bound: workers that stop without a word

ASSUME CrashAssumption == MaxCrashes \in Nat

VARIABLES worker,      \* per owner token, the invocation that uses it
          written,     \* history: handles under which a field was filled
          clicks,      \* history: how often the submit control was pressed
          crashes

vars == <<attempt, issued, begun, barred, worker, written, clicks, crashes>>

Answers == {"none", "authenticated", "retry_delivery", "needs_operator_action",
            "in_progress", "cancelled"}

Calls ==
  {"idle", "find", "probeNew", "probe", "create", "acquire", "diagnose",
   "reconcile", "reconcileTerminal", "findTerminal", "complete",
   "authFind", "authProbe", "authCreate",
   "executing", "write", "click", "decide"}

Outcomes ==
  {"none", "succeeded", "transient_unavailable", "cancelled",
   "protected_or_mfa", "incompatible_flow", "structural_configuration",
   "unknown"}

Invocation ==
  [pc         : Calls,
   id         : AttemptIds,
   minting    : BOOLEAN,     \* inside acquireAuthenticationMutationAuthority
   reconciled : BOOLEAN,     \* one reconciliation per loop
   generation : Nat,         \* of the owner handle in the vault
   phase      : {"leased", "interaction_started", "submit_barrier_recorded"},
   fills      : 0..2,        \* fields filled: username, password
   sticky     : BOOLEAN,     \* an authority call was refused
   outcome    : Outcomes,
   answer     : Answers]

Entry(id) ==
  [pc |-> "find", id |-> id, minting |-> FALSE, reconciled |-> FALSE,
   generation |-> 0, phase |-> "leased", fills |-> 0,
   sticky |-> FALSE, outcome |-> "none", answer |-> "none"]

TypeOK ==
  /\ StoreTypeOK
  /\ worker \in [Tokens -> Invocation]
  /\ written \subseteq issued
  /\ clicks \in Nat
  /\ crashes \in 0..MaxCrashes

portal == <<written, clicks>>

At(w, pc)    == worker[w].pc = pc
GoTo(w, pc)  == worker' = [worker EXCEPT ![w].pc = pc]
Handle(w)    == [attemptId |-> worker[w].id, token |-> w,
                 generation |-> worker[w].generation]

\* The invocation is over and its vault is gone; the answer stays.
Answer(w, answer) ==
  worker' = [worker EXCEPT ![w] = [Entry(@.id) EXCEPT !.pc = "idle", !.answer = answer]]

\* terminal(record), as the precondition reports it.
Verdict == IF attempt.status = "authenticated" THEN "authenticated"
                                               ELSE "needs_operator_action"

-----------------------------------------------------------------------------
(* The coordinator.                                                        *)

\* A delivery of the job asks for an authenticated session.
Deliver(w) ==
  /\ At(w, "idle")
  /\ \E id \in AttemptIds : worker' = [worker EXCEPT ![w] = Entry(id)]
  /\ UNCHANGED <<storeVars, portal, crashes>>

FindExact(w) ==
  /\ At(w, "find")
  /\ LET id == worker[w].id
     IN \/ IsRow(id) /\ Terminal  /\ Answer(w, Verdict)
        \/ IsRow(id) /\ ~Terminal /\ GoTo(w, IF Free(id) THEN "probe" ELSE "acquire")
        \/ ~IsRow(id) /\ GoTo(w, "probeNew")
  /\ UNCHANGED <<storeVars, portal, crashes>>

\* probe.observe: the portal says what it says; the call may fail or be aborted.
Probe(w) ==
  /\ At(w, "probeNew") \/ At(w, "probe")
  /\ \/ worker' = [worker EXCEPT
          ![w].pc = IF At(w, "probeNew") THEN "create" ELSE "acquire"]
     \/ worker' = [worker EXCEPT
          ![w].pc = "authFind", ![w].minting = TRUE, ![w].reconciled = FALSE]
     \/ Answer(w, "retry_delivery")
     \/ Answer(w, "cancelled")
  /\ UNCHANGED <<storeVars, portal, crashes>>

\* getOrCreate from either caller: the authority also turns away an owned row.
GetOrCreate(w) ==
  /\ At(w, "create") \/ At(w, "authCreate")
  /\ LET id == worker[w].id
     IN \/ Create(id) /\ GoTo(w, "acquire")
        \/ /\ attempt.status # "missing"
           /\ UNCHANGED storeVars
           /\ \/ ~IsRow(id) /\ Answer(w, "needs_operator_action")
              \/ IsRow(id) /\ Terminal /\ Answer(w, Verdict)
              \/ /\ IsRow(id) /\ ~Terminal
                 /\ IF worker[w].minting /\ attempt.owner # NoOwner
                    THEN Answer(w, "in_progress")
                    ELSE GoTo(w, "acquire")
  /\ UNCHANGED <<portal, crashes>>

\* acquireLease: an observed login is completed, a minted lease is put to work.
Acquire(w) ==
  /\ At(w, "acquire")
  /\ \/ /\ AcquireLease(worker[w].id, w)
        /\ worker' = [worker EXCEPT
             ![w].pc = IF worker[w].minting THEN "executing" ELSE "complete",
             ![w].generation = attempt.generation + 1]
     \/ ~Free(worker[w].id) /\ GoTo(w, "diagnose") /\ UNCHANGED storeVars
  /\ UNCHANGED <<portal, crashes>>

\* An expired lease is taken for a held one.
Diagnose_Bug(w) ==
  /\ At(w, "diagnose")
  /\ Answer(w, IF LeaseDiagnosis(worker[w].id) = "terminal" THEN Verdict ELSE "in_progress")
  /\ UNCHANGED <<storeVars, portal, crashes>>

\* acquireLease's second statement, after its UPDATE matched no row.
Diagnose(w) ==
  /\ At(w, "diagnose")
  /\ LET d == LeaseDiagnosis(worker[w].id)
     IN \/ d = "lease_held" /\ Answer(w, "in_progress")
        \/ d = "terminal" /\ Answer(w, Verdict)
        \/ /\ d \in {"missing", "not_applied"}
           /\ IF worker[w].minting THEN Answer(w, "retry_delivery")
                                   ELSE GoTo(w, "findTerminal")
        \/ /\ d = "reconciliation_required"
           /\ IF worker[w].reconciled
              THEN Answer(w, "retry_delivery")
              ELSE worker' = [worker EXCEPT ![w].pc = "reconcile", ![w].reconciled = TRUE]
  /\ UNCHANGED <<storeVars, portal, crashes>>

\* reconcileExpiredLease, first statement; the loop goes round again.
Reconcile(w) ==
  /\ At(w, "reconcile")
  /\ LET id == worker[w].id
     IN \/ ReconcileRetry(id) /\ GoTo(w, IF worker[w].minting THEN "authFind" ELSE "probe")
        \/ /\ ~(Expired(id) /\ Untouched /\ attempt.retryCount < MaxRetries)
           /\ GoTo(w, "reconcileTerminal")
           /\ UNCHANGED storeVars
  /\ UNCHANGED <<portal, crashes>>

\* reconcileExpiredLease, second statement.
ReconcileOver(w) ==
  /\ At(w, "reconcileTerminal")
  /\ LET id == worker[w].id
     IN \/ /\ ReconcileTerminal(id)
           /\ IF worker[w].minting THEN GoTo(w, "authFind")
                                   ELSE Answer(w, "needs_operator_action")
        \/ /\ ~(Expired(id) /\ (Untouched => attempt.retryCount = MaxRetries))
           /\ UNCHANGED storeVars
           /\ IF worker[w].minting THEN Answer(w, "retry_delivery")
                                   ELSE GoTo(w, "findTerminal")
  /\ UNCHANGED <<portal, crashes>>

FindTerminalOrRetry(w) ==
  /\ At(w, "findTerminal")
  /\ Answer(w, IF IsRow(worker[w].id) /\ Terminal THEN Verdict ELSE "retry_delivery")
  /\ UNCHANGED <<storeVars, portal, crashes>>

\* A completion that was not applied is reported as a login.
CompleteObserved_Bug(w) ==
  /\ At(w, "complete")
  /\ \/ CompleteAuthenticated(Handle(w))
     \/ ~Holds(Handle(w)) /\ UNCHANGED storeVars
  /\ Answer(w, "authenticated")
  /\ UNCHANGED <<portal, crashes>>

\* The observed login is recorded on the attempt.
CompleteObserved(w) ==
  /\ At(w, "complete")
  /\ \/ CompleteAuthenticated(Handle(w)) /\ Answer(w, "authenticated")
     \/ ~Holds(Handle(w)) /\ Answer(w, "retry_delivery") /\ UNCHANGED storeVars
  /\ UNCHANGED <<portal, crashes>>

-----------------------------------------------------------------------------
(* The mint of the mutation authority.                                     *)

\* The mint waits for an owned row to be let go.
AuthFind_Bug(w) ==
  /\ At(w, "authFind")
  /\ LET id == worker[w].id
     IN \/ IsRow(id) /\ Terminal /\ Answer(w, Verdict)
        \/ IsRow(id) /\ ~Terminal /\ ~Free(id) /\ UNCHANGED worker
        \/ (IsRow(id) => Free(id)) /\ GoTo(w, "authProbe")
  /\ UNCHANGED <<storeVars, portal, crashes>>

AuthFind(w) ==
  /\ At(w, "authFind")
  /\ LET id == worker[w].id
     IN \/ IsRow(id) /\ Terminal /\ Answer(w, Verdict)
        \/ IsRow(id) /\ ~Terminal /\ ~Free(id) /\ Answer(w, "in_progress")
        \/ (IsRow(id) => Free(id)) /\ GoTo(w, "authProbe")
  /\ UNCHANGED <<storeVars, portal, crashes>>

AuthProbe(w) ==
  /\ At(w, "authProbe")
  /\ GoTo(w, "authCreate") \/ Answer(w, "retry_delivery") \/ Answer(w, "cancelled")
  /\ UNCHANGED <<storeVars, portal, crashes>>

-----------------------------------------------------------------------------
(* The runner, the fence and the page.  Once a call of the authority is    *)
(* refused (sticky), nothing more is authorized, the run ends unresolved   *)
(* and the lease is left to expire.                                        *)

Refused(w) == worker' = [worker EXCEPT ![w].sticky = TRUE]

Authorized(w, pc, phase) ==
  worker' = [worker EXCEPT ![w].pc = pc, ![w].phase = phase]

\* The fence before the first field.
BeginFence(w) ==
  /\ At(w, "executing") /\ ~worker[w].sticky /\ worker[w].fills = 0
  /\ \/ BeginCredentialInteraction(Handle(w)) /\ Authorized(w, "write", "interaction_started")
     \/ ~Holds(Handle(w)) /\ Refused(w) /\ UNCHANGED storeVars
  /\ UNCHANGED <<portal, crashes>>

\* The fence before the second field.
RenewFence(w) ==
  /\ At(w, "executing") /\ ~worker[w].sticky /\ worker[w].fills = 1
  /\ \/ RenewLease(Handle(w)) /\ Authorized(w, "write", "interaction_started")
     \/ ~Holds(Handle(w)) /\ Refused(w) /\ UNCHANGED storeVars
  /\ UNCHANGED <<portal, crashes>>

\* The fence before the submit control.
BarrierFence(w) ==
  /\ At(w, "executing") /\ ~worker[w].sticky
  /\ worker[w].fills = 2 /\ worker[w].phase = "interaction_started"
  /\ \/ RecordSubmitBarrier(Handle(w)) /\ Authorized(w, "click", "submit_barrier_recorded")
     \/ ~Holds(Handle(w)) /\ Refused(w) /\ UNCHANGED storeVars
  /\ UNCHANGED <<portal, crashes>>

\* page.fill is on its way: losing the lease no longer calls it back.
WriteField(w) ==
  /\ At(w, "write")
  /\ written' = written \cup {Handle(w)}
  /\ worker' = [worker EXCEPT ![w].pc = "executing", ![w].fills = @ + 1]
  /\ UNCHANGED <<storeVars, clicks, crashes>>

\* page.click
ClickSubmit(w) ==
  /\ At(w, "click")
  /\ clicks' = clicks + 1
  /\ GoTo(w, "executing")
  /\ UNCHANGED <<storeVars, written, crashes>>

\* The heartbeat renews through the same gate; a refusal aborts the signal.
Heartbeat(w) ==
  /\ worker[w].pc \in {"executing", "write", "click"} /\ ~worker[w].sticky
  /\ \/ RenewLease(Handle(w)) /\ UNCHANGED worker
     \/ ~Holds(Handle(w)) /\ Refused(w) /\ UNCHANGED storeVars
  /\ UNCHANGED <<portal, crashes>>

\* The execution returns.  A page call that threw may or may not have reached
\* the page, and cannot come back as a success.
ExecutionEnds(w) ==
  /\ worker[w].pc \in {"executing", "write", "click"}
  /\ \E outcome \in Outcomes \ {"none"} :
       /\ outcome = "succeeded" => At(w, "executing")
       /\ worker' = [worker EXCEPT ![w].pc = "decide", ![w].outcome = outcome]
  /\ UNCHANGED <<storeVars, portal, crashes>>

\* The phase reached is forgotten.
FailureOf_Bug(w) ==
  IF worker[w].outcome \in
       {"protected_or_mfa", "incompatible_flow", "structural_configuration"}
  THEN worker[w].outcome ELSE "unclassified_failure"

\* decide(result, phase): which failure is recorded.
FailureOf(w) ==
  IF worker[w].outcome \in
       {"protected_or_mfa", "incompatible_flow", "structural_configuration"}
  THEN worker[w].outcome
  ELSE IF worker[w].phase = "leased" THEN "unclassified_failure"
                                     ELSE "interaction_outcome_uncertain"

\* The word of the execution is enough.
LoggedIn_Bug(w) == worker[w].outcome = "succeeded"

LoggedIn(w) == worker[w].outcome = "succeeded" /\ worker[w].phase = "submit_barrier_recorded"

MayRetry(w) == /\ worker[w].outcome \in {"transient_unavailable", "cancelled"}
            /\ worker[w].phase = "leased"

Decide(w) ==
  /\ At(w, "decide")
  /\ \/ /\ ~worker[w].sticky
        /\ \/ LoggedIn(w) /\ CompleteAuthenticated(Handle(w)) /\ Answer(w, "authenticated")
           \/ MayRetry(w) /\ ClaimRetry(Handle(w))   /\ Answer(w, "retry_delivery")
           \/ MayRetry(w) /\ ExhaustRetry(Handle(w)) /\ Answer(w, "needs_operator_action")
           \/ /\ ~LoggedIn(w) /\ ~MayRetry(w)
              /\ CompleteFailed(Handle(w), FailureOf(w))
              /\ Answer(w, "needs_operator_action")
     \/ /\ worker[w].sticky \/ ~Holds(Handle(w))
        /\ Answer(w, "needs_operator_action")
        /\ UNCHANGED storeVars
  /\ UNCHANGED <<portal, crashes>>

-----------------------------------------------------------------------------
\* The process dies, or a repository call throws and the run gives up.
Crash(w) ==
  /\ ~At(w, "idle")
  /\ crashes < MaxCrashes
  /\ crashes' = crashes + 1
  /\ Answer(w, "none")
  /\ UNCHANGED <<storeVars, portal>>

Clock == Tick /\ UNCHANGED <<worker, portal, crashes>>

\* What a live worker is bound to do next.
Progress(w) ==
  \/ FindExact(w) \/ Probe(w) \/ GetOrCreate(w) \/ Acquire(w) \/ Diagnose(w)
  \/ Reconcile(w) \/ ReconcileOver(w) \/ FindTerminalOrRetry(w)
  \/ CompleteObserved(w) \/ AuthFind(w) \/ AuthProbe(w)
  \/ BeginFence(w) \/ RenewFence(w) \/ BarrierFence(w)
  \/ WriteField(w) \/ ClickSubmit(w) \/ ExecutionEnds(w) \/ Decide(w)

Init ==
  /\ StoreInit
  /\ worker = [w \in Tokens |->
       [Entry(CHOOSE id \in AttemptIds : TRUE) EXCEPT !.pc = "idle"]]
  /\ written = {} /\ clicks = 0 /\ crashes = 0

Next ==
  \/ \E w \in Tokens : Deliver(w) \/ Progress(w) \/ Heartbeat(w) \/ Crash(w)
  \/ Clock

Spec == Init /\ [][Next]_vars

\* Awaited calls return (repository, probe and page calls have timeouts) and
\* the database clock runs.
FairSpec ==
  /\ Spec
  /\ WF_vars(Clock)
  /\ \A w \in Tokens : WF_vars(Progress(w))

-----------------------------------------------------------------------------
(* Properties.                                                             *)

\* Whatever leases expire and whoever is still mid-call, the portal sees the
\* fields of one invocation and one press of submit.
PortalSeesOneLogin == clicks <= 1 /\ \A g, h \in written : g = h

\* A verdict that says nothing was tried is true: no field was filled.
UntouchedVerdicts ==
  attempt.failureClass \in {"transient_pre_interaction", "unclassified_failure"}
    => written = {}

\* A login that filled the form and counts as authenticated has pressed submit.
AuthenticatedMeansSubmitted ==
  attempt.status = "authenticated" /\ written # {} => clicks = 1

\* A scrape is told "authenticated" only about an attempt that says so for good.
AuthenticatedIsDurable ==
  \A w \in Tokens : worker[w].answer = "authenticated" =>
    attempt.status = "authenticated" /\ attempt.attemptId = worker[w].id

\* A page call that lands after the verdict lands on a verdict that asks an
\* operator to look, never on one that closes or reschedules the login.
LateMutationIsReviewed ==
  [][portal' # portal /\ Terminal
       => attempt.failureClass = "interaction_outcome_uncertain"]_vars

\* Every invocation comes to an answer: no loop of the coordinator or of the
\* mint waits for another worker.
EveryInvocationAnswers ==
  \A w \in Tokens : ~At(w, "idle") ~> At(w, "idle")

\* As long as deliveries of the attempt's job keep coming, no lease is stuck,
\* whoever crashed.
DeliveriesFreeLeases ==
  []<>(\E w \in Tokens : At(w, "find") /\ IsRow(worker[w].id))
    => (attempt.owner # NoOwner ~> attempt.owner = NoOwner)
-----------------------------------------------------------------------------
(* The implementation of AttemptPolicy.                                    *)

\* parseSessionAuthenticationAttemptRecord: a row that it cannot read is no
\* attempt of the policy.
Parsed ==
  LET readable ==
        /\ attempt.retryCount <= MaxRetries
        /\ Terminal => attempt.owner = NoOwner
        /\ attempt.status = "failed" <=> attempt.failureClass # "none"
  IN [status |-> IF readable THEN attempt.status ELSE "malformed",
      phase |-> attempt.phase, failureClass |-> attempt.failureClass]

Policy == INSTANCE AttemptPolicy WITH
  MaxAdditionalRetries <- MaxRetries, attempt <- Parsed, retries <- attempt.retryCount

\* Whoever holds, loses, reconciles or completes the attempt, its row is always
\* readable and goes through what the policy of one attempt allows alone: the
\* class of a failure fits how far the login got, and a failure that may be
\* retried is never the last word while a slot is left.
ImplementsPolicy == Policy!PolicySpec
=============================================================================
