---------------------------- MODULE AttemptStore ----------------------------
(***************************************************************************)
(* The durable row "BankSessionAuthenticationAttempt" of one (bank, run)   *)
(* and the compare-and-set statements of its repository                    *)
(* (src/modules/persistence/prisma-bank-session-authentication-attempt-    *)
(* repository.ts).  Every statement is atomic in PostgreSQL, so every one  *)
(* is one action.  Callers are any processes at all: a caller may present  *)
(* any handle [attemptId, token, generation] that acquireLease ever        *)
(* returned, however stale, and a token may be used by several callers.    *)
(*                                                                         *)
(* leaseExpiresAt is kept as the number of ticks left of the lease (0: in  *)
(* the past); it is NULL exactly when ownerToken is NULL, as the table's   *)
(* owner_check demands.  operatorReason is a function of failureClass      *)
(* (terminal_check) and is left out.                                       *)
(***************************************************************************)
EXTENDS Naturals, FiniteSets

CONSTANTS AttemptIds,  \* attempt ids that deliveries may bring for this run
          Tokens,      \* owner tokens
          NoOwner,     \* ownerToken IS NULL
          MaxRetries,  \* MAX_SESSION_AUTHENTICATION_RETRIES
          LeaseTicks   \* leaseDurationMs, in ticks of the database clock

ASSUME StoreAssumption ==
  /\ MaxRetries \in Nat
  /\ LeaseTicks \in Nat \ {0}
  /\ NoOwner \notin Tokens

VARIABLES attempt,     \* the row
          issued,      \* history: the handles acquireLease has returned
          begun,       \* history: handles told "interaction_started"
          barred       \* history: handles told "recorded"

storeVars == <<attempt, issued, begun, barred>>

Phases == {"no_credential_interaction", "credentials_may_have_reached_portal",
           "submit_may_have_been_dispatched"}

FailureClasses ==
  {"transient_pre_interaction", "protected_or_mfa", "incompatible_flow",
   "structural_configuration", "ownership_lost",
   "interaction_outcome_uncertain", "unclassified_failure"}

Handles == [attemptId : AttemptIds, token : Tokens, generation : Nat]

Attempts ==
  [attemptId    : AttemptIds,
   status       : {"missing", "active", "authenticated", "failed"},
   phase        : Phases,
   failureClass : FailureClasses \cup {"none"},
   retryCount   : 0..MaxRetries,
   owner        : Tokens \cup {NoOwner},
   generation   : Nat,
   lease        : 0..LeaseTicks]

StoreTypeOK ==
  /\ attempt \in Attempts
  /\ issued \subseteq Handles
  /\ begun \subseteq issued
  /\ barred \subseteq issued

-----------------------------------------------------------------------------
(* What the statements' WHERE clauses and diagnostics read.                *)

Untouched == attempt.phase = "no_credential_interaction"
Terminal  == attempt.status \in {"authenticated", "failed"}

\* find: the primary key includes the attempt id.
IsRow(id) == attempt.status # "missing" /\ attempt.attemptId = id

\* The fence shared by every owner statement.
Holds(h) ==
  /\ attempt.status = "active"
  /\ attempt.attemptId = h.attemptId
  /\ attempt.owner = h.token
  /\ attempt.generation = h.generation
  /\ attempt.lease > 0

\* acquireLease's WHERE, and its diagnosis when no row was updated.
Free(id) == IsRow(id) /\ attempt.status = "active" /\ attempt.owner = NoOwner

LeaseDiagnosis(id) ==
  CASE ~IsRow(id)                -> "missing"
    [] IsRow(id) /\ Terminal     -> "terminal"
    [] Free(id)                  -> "not_applied"
    [] OTHER -> IF attempt.lease > 0 THEN "lease_held" ELSE "reconciliation_required"

\* reconcileExpiredLease's WHERE, common part.
Expired(id) ==
  /\ IsRow(id)
  /\ attempt.status = "active"
  /\ attempt.owner # NoOwner
  /\ attempt.lease = 0

\* The row once its owner lets go of it; every such UPDATE bumps generation.
Released(row) ==
  [row EXCEPT !.owner = NoOwner, !.lease = 0, !.generation = @ + 1]

Failed(row, class) ==
  [Released(row) EXCEPT !.status = "failed", !.failureClass = class]

-----------------------------------------------------------------------------
(* The statements.  A definition whose name ends in _Bug is a slip of the  *)
(* statement after it, kept to see the properties catch it.                *)

\* getOrCreate, when its INSERT wins: UNIQUE (bankCode, runId) lets in one.
Create(id) ==
  /\ attempt.status = "missing"
  /\ attempt' = [attempt EXCEPT !.attemptId = id, !.status = "active"]
  /\ UNCHANGED <<issued, begun, barred>>

AcquireLease(id, token) ==
  /\ Free(id)
  /\ attempt' = [attempt EXCEPT !.owner = token, !.lease = LeaseTicks,
                                !.generation = @ + 1]
  /\ issued' = issued \cup
       {[attemptId |-> id, token |-> token, generation |-> attempt.generation + 1]}
  /\ UNCHANGED <<begun, barred>>

RenewLease(h) ==
  /\ Holds(h)
  /\ attempt' = [attempt EXCEPT !.lease = LeaseTicks]
  /\ UNCHANGED <<issued, begun, barred>>

BeginCredentialInteraction(h) ==
  /\ Holds(h)
  /\ Untouched
  /\ attempt' = [attempt EXCEPT !.phase = "credentials_may_have_reached_portal",
                                !.lease = LeaseTicks]
  /\ begun' = begun \cup {h}
  /\ UNCHANGED <<issued, barred>>

RecordSubmitBarrier(h) ==
  /\ Holds(h)
  /\ attempt.phase = "credentials_may_have_reached_portal"
  /\ attempt' = [attempt EXCEPT !.phase = "submit_may_have_been_dispatched",
                                !.lease = LeaseTicks]
  /\ barred' = barred \cup {h}
  /\ UNCHANGED <<issued, begun>>

\* claimRetry: a slot is left.
ClaimRetry(h) ==
  /\ Holds(h)
  /\ Untouched
  /\ attempt.retryCount < MaxRetries
  /\ attempt' = [Released(attempt) EXCEPT !.retryCount = @ + 1]
  /\ UNCHANGED <<issued, begun, barred>>

\* claimRetry: the slots are used up.
ExhaustRetry(h) ==
  /\ Holds(h)
  /\ Untouched
  /\ attempt.retryCount = MaxRetries
  /\ attempt' = Failed(attempt, "transient_pre_interaction")
  /\ UNCHANGED <<issued, begun, barred>>

CompleteAuthenticated(h) ==
  /\ Holds(h)
  /\ attempt' = [Released(attempt) EXCEPT !.status = "authenticated"]
  /\ UNCHANGED <<issued, begun, barred>>

CompleteFailed(h, class) ==
  /\ Holds(h)
  /\ attempt' = Failed(attempt, class)
  /\ UNCHANGED <<issued, begun, barred>>

\* An expired lease starts the attempt over, whatever it had done.
ReconcileRetry_Bug(id) ==
  /\ Expired(id)
  /\ attempt.retryCount < MaxRetries
  /\ attempt' = [Released(attempt) EXCEPT !.retryCount = @ + 1,
                                          !.phase = "no_credential_interaction"]
  /\ UNCHANGED <<issued, begun, barred>>

\* reconcileExpiredLease, first statement: give the slot back and retry.
ReconcileRetry(id) ==
  /\ Expired(id)
  /\ Untouched
  /\ attempt.retryCount < MaxRetries
  /\ attempt' = [Released(attempt) EXCEPT !.retryCount = @ + 1]
  /\ UNCHANGED <<issued, begun, barred>>

\* An expired lease always counts as one that did nothing.
ReconcileTerminal_Bug(id) ==
  /\ Expired(id)
  /\ Untouched => attempt.retryCount = MaxRetries
  /\ attempt' = Failed(attempt, "transient_pre_interaction")
  /\ UNCHANGED <<issued, begun, barred>>

\* reconcileExpiredLease, second statement: the attempt is over.
ReconcileTerminal(id) ==
  /\ Expired(id)
  /\ Untouched => attempt.retryCount = MaxRetries
  /\ attempt' = Failed(attempt, IF Untouched THEN "transient_pre_interaction"
                                             ELSE "interaction_outcome_uncertain")
  /\ UNCHANGED <<issued, begun, barred>>

\* The database clock moves towards leaseExpiresAt.
Tick ==
  /\ attempt.lease > 0
  /\ attempt' = [attempt EXCEPT !.lease = @ - 1]
  /\ UNCHANGED <<issued, begun, barred>>

-----------------------------------------------------------------------------
StoreInit ==
  /\ \E id \in AttemptIds :
       attempt = [attemptId |-> id, status |-> "missing",
                  phase |-> "no_credential_interaction", failureClass |-> "none",
                  retryCount |-> 0, owner |-> NoOwner, generation |-> 0, lease |-> 0]
  /\ issued = {} /\ begun = {} /\ barred = {}

OwnerStep(h) ==
  \/ RenewLease(h)
  \/ BeginCredentialInteraction(h)
  \/ RecordSubmitBarrier(h)
  \/ ClaimRetry(h)
  \/ ExhaustRetry(h)
  \/ CompleteAuthenticated(h)
  \/ \E class \in FailureClasses : CompleteFailed(h, class)

StoreNext ==
  \/ \E id \in AttemptIds :
       \/ Create(id)
       \/ \E token \in Tokens : AcquireLease(id, token)
       \/ ReconcileRetry(id)
       \/ ReconcileTerminal(id)
  \/ \E h \in issued : OwnerStep(h)
  \/ Tick

StoreSpec == StoreInit /\ [][StoreNext]_storeVars
-----------------------------------------------------------------------------
(* Properties.                                                             *)

\* Over every retry, expiry and reconciliation of the attempt, one lease at
\* most is ever told that it may write credentials into the portal.
SingleInteraction == \A g, h \in begun : g = h

\* The submit barrier is passed by the lease that wrote the credentials,
\* never by a later owner that inherits a half-filled form.
BarrierBelongsToWriter == barred \subseteq begun

\* A generation is a fencing number: two leases never share one, even when
\* the same owner token comes back.
GenerationsAreUnique ==
  \A g, h \in issued : g.generation = h.generation => g = h

\* The retry budget bounds the leases, whoever takes them and however they
\* end: the first one and MaxRetries more.
LeaseBudget == Cardinality(issued) <= MaxRetries + 1

\* An unowned active attempt is one nobody has written credentials for: it
\* is what makes it sound for acquireLease not to look at the phase.
UnownedMeansUntouched ==
  attempt.status = "active" /\ attempt.owner = NoOwner => begun = {}

\* Once the attempt has a verdict, no statement of any caller changes it, and
\* no lease, old or new, is let near the portal again.
VerdictIsFinal == [][Terminal => UNCHANGED storeVars]_storeVars

\* A retry slot is only ever consumed while no credential has been written.
RetryOnlyUntouched ==
  [][attempt'.retryCount # attempt.retryCount => begun' = {}]_storeVars

-----------------------------------------------------------------------------
(* The implementation of OneLogin.                                         *)
Stage ==
  CASE Terminal -> "settled"
    [] ~Terminal /\ Untouched -> "untouched"
    [] ~Terminal /\ attempt.phase = "credentials_may_have_reached_portal" -> "filling"
    [] OTHER -> "submitted"

Login == INSTANCE OneLogin WITH
  Holders <- Handles, stage <- Stage, writers <- begun, submitters <- barred

\* The repository implements the abstract login.
ImplementsOneLogin == Login!OneSpec
=============================================================================
