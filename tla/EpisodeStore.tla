---------------------------- MODULE EpisodeStore ----------------------------
(***************************************************************************)
(* The durable row "BankSessionExpiryEpisode" of one bank, the             *)
(* "ManualRecoveryResolution" rows with their outbox, and the              *)
(* compare-and-set statements of their repository (src/modules/            *)
(* persistence/prisma-bank-session-expiry-episode-repository.ts).          *)
(*                                                                         *)
(* An event stands for the pair (expiredEventId, runId): the run id is     *)
(* derived from the event id.  A statement is atomic and so one action;    *)
(* one that matches no row changes nothing and is not an action.  Callers  *)
(* are any processes: they may present any event, publication token and    *)
(* consumer claim, however stale.                                          *)
(*                                                                         *)
(* updatedAt is kept as the one comparison made with it: "overdue", older  *)
(* than PUBLICATION_CLAIM_TIMEOUT_MS.  consumerLeaseExpiresAt is kept as   *)
(* the ticks left (0: in the past; None: NULL).                            *)
(***************************************************************************)
EXTENDS Naturals

CONSTANTS Events,      \* expired-event ids, each with its run id
          Tokens,      \* publication claim tokens
          Claims,      \* consumer claim tokens
          None,        \* NULL
          LeaseTicks   \* a consumer lease, in ticks of the database clock

ASSUME EpisodeAssumption ==
  /\ None \notin Events \cup Tokens \cup Claims \cup Nat
  /\ LeaseTicks \in Nat \ {0}

VARIABLES episode,     \* the bank's row; its event is None when there is none
          resolution,  \* per event, the operator's decision, its audit, its replay
          started,     \* history: <<event, claim>> told "mutation started"
          settled,     \* history: events whose attempt became resolved
          born         \* history: events that ever had a row

episodeVars == <<episode, resolution, started, settled, born>>

Unresolved == {"mutation_started", "manual_recovery_required"}

Episodes ==
  [event       : Events \cup {None},
   expired     : BOOLEAN,     \* expiredAuditDeliveredAt IS NOT NULL
   restored    : BOOLEAN,     \* restoredAuditDeliveredAt IS NOT NULL
   publication : {"pending", "publishing", "published", "cancelled"},
   token       : Tokens \cup {None},
   reported    : BOOLEAN,     \* publicationFailureReportedAt IS NOT NULL
   overdue     : BOOLEAN,
   claim       : Claims \cup {None},
   attempt     : {"none", "reserved", "resolved"} \cup Unresolved,
   source      : {"none", "scheduled", "scrape_time"},
   lease       : (0..LeaseTicks) \cup {None},
   terminal    : {"none", "job_missing", "job_failed"}]

Resolutions ==
  [outcome : {"none", "safe_to_retry", "mutation_confirmed", "resolved_no_retry"},
   audit   : {"none", "pending", "delivered"},
   replay  : Events \cup {None}]

EpisodeTypeOK ==
  /\ episode \in Episodes
  /\ resolution \in [Events -> Resolutions]
  /\ started \subseteq Events \X Claims
  /\ settled \subseteq Events
  /\ born \subseteq Events

\* The row an INSERT makes; with None, the absence of a row.
Fresh(e) ==
  [event |-> e, expired |-> FALSE, restored |-> FALSE, publication |-> "pending",
   token |-> None, reported |-> FALSE, overdue |-> FALSE, claim |-> None,
   attempt |-> "none", source |-> "none", lease |-> None, terminal |-> "none"]

-----------------------------------------------------------------------------
(* What the WHERE clauses read and the SET clauses share.                  *)

Exists(e) == e # None /\ episode.event = e

\* The exact published envelope.
Published(e, t) == Exists(e) /\ episode.publication = "published" /\ episode.token = t

LeaseActive == episode.lease # None /\ episode.lease > 0

\* The holder of a claim, with or without a lease.
Claimant(e, t, c) ==
  /\ Published(e, t)
  /\ episode.claim = c
  /\ episode.lease # None => LeaseActive

\* The holder of a leased claim, from either source.
Leaseholder(s, e, t, c) ==
  /\ Exists(e)
  /\ episode.source = s /\ episode.claim = c
  /\ LeaseActive
  /\ episode.terminal = "none"
  /\ \/ s = "scheduled" /\ Published(e, t)
     \/ s = "scrape_time" /\ episode.publication = "pending" /\ episode.token = None

\* A row no consumer has claimed.
Unclaimed ==
  ~episode.restored /\ episode.claim = None /\ episode.attempt = "none"

\* The WHERE clauses whose "no row was updated" a caller acts upon.
MayClaimPublication(e, t) ==
  /\ Exists(e) /\ ~episode.restored /\ episode.attempt = "none"
  /\ \/ episode.publication = "pending"
     \/ /\ episode.publication = "publishing" /\ episode.token = t
        /\ episode.reported \/ episode.overdue

Publishing(e, t) == Exists(e) /\ episode.publication = "publishing" /\ episode.token = t

Reserved == episode.attempt = "reserved" /\ ~episode.restored

Resolvable == episode.attempt = "mutation_started" \/ Reserved

Terminable(e, t, reason) ==
  /\ Published(e, t) /\ ~episode.restored /\ episode.attempt # "resolved"
  /\ \/ episode.terminal = "none"
     \/ episode.terminal = "job_missing" /\ reason = "job_failed"
  /\ ~LeaseActive

\* The table's CHECK aborts the UPDATE of a row leased by a scrape.
Cancellable(e) ==
  /\ Exists(e)
  /\ episode.publication \in {"pending", "publishing"}
  /\ episode.source # "scrape_time"

Closable(e) == Exists(e) /\ episode.attempt \in {"none", "resolved"}

\* Every UPDATE sets "updatedAt" to NOW().
Touched == [episode EXCEPT !.overdue = FALSE]

Attempted(state) ==
  [Touched EXCEPT !.attempt = state,
                  !.lease = IF state = "mutation_started" THEN @ ELSE None]

-----------------------------------------------------------------------------
(* Birth and publication.                                                  *)

\* getOrCreate, when its INSERT wins.
Create(e) ==
  /\ episode.event = None
  /\ episode' = Fresh(e)
  /\ born' = born \cup {e}
  /\ UNCHANGED <<resolution, started, settled>>

ClaimPublication(e, t) ==
  /\ MayClaimPublication(e, t)
  /\ episode' = [Touched EXCEPT !.publication = "publishing", !.token = t,
                                !.reported = FALSE]
  /\ UNCHANGED <<resolution, started, settled, born>>

MarkPublicationPublished(e, t) ==
  /\ Publishing(e, t) /\ ~episode.restored
  /\ episode' = [Touched EXCEPT !.publication = "published", !.reported = FALSE]
  /\ UNCHANGED <<resolution, started, settled, born>>

CancelPublication(e) ==
  /\ Cancellable(e)
  /\ episode' = [Touched EXCEPT !.publication = "cancelled", !.token = None,
                                !.reported = FALSE]
  /\ UNCHANGED <<resolution, started, settled, born>>

MarkPublicationFailureReported(e, t) ==
  /\ Publishing(e, t) /\ ~episode.reported
  /\ episode' = [Touched EXCEPT !.reported = TRUE]
  /\ UNCHANGED <<resolution, started, settled, born>>

-----------------------------------------------------------------------------
(* The consumer attempt.                                                   *)

\* The claim looks at the publication only.
ClaimConsumerAttempt_Bug(e, t, c) ==
  /\ Published(e, t) /\ ~episode.restored
  /\ episode' = [Touched EXCEPT !.claim = c, !.attempt = "reserved"]
  /\ UNCHANGED <<resolution, started, settled, born>>

ClaimConsumerAttempt(e, t, c) ==
  /\ Published(e, t) /\ Unclaimed
  /\ episode' = [Touched EXCEPT !.claim = c, !.attempt = "reserved"]
  /\ UNCHANGED <<resolution, started, settled, born>>

ClaimConsumerAttemptLease(s, e, t, c) ==
  /\ Exists(e) /\ Unclaimed /\ episode.terminal = "none"
  /\ \/ s = "scheduled" /\ Published(e, t)
     \/ s = "scrape_time" /\ episode.publication = "pending" /\ episode.token = None
  /\ episode' = [Touched EXCEPT !.claim = c, !.attempt = "reserved", !.source = s,
                                !.lease = LeaseTicks]
  /\ UNCHANGED <<resolution, started, settled, born>>

RenewConsumerAttemptLease(s, e, t, c) ==
  /\ Leaseholder(s, e, t, c)
  /\ episode.attempt \in {"reserved", "mutation_started"}
  /\ episode' = [Touched EXCEPT !.lease = LeaseTicks]
  /\ UNCHANGED <<resolution, started, settled, born>>

ReconcileExpiredConsumerAttemptLease(e) ==
  /\ Exists(e)
  /\ episode.source # "none" /\ episode.attempt \in {"reserved", "mutation_started"}
  /\ episode.lease = 0
  /\ episode' = Attempted("manual_recovery_required")
  /\ UNCHANGED <<resolution, started, settled, born>>

\* reserved -> mutation_started: the claimant may now log in.
StartMutation(e, c) ==
  /\ Reserved
  /\ episode' = Attempted("mutation_started")
  /\ started' = started \cup {<<e, c>>}
  /\ UNCHANGED <<resolution, settled, born>>

MarkConsumerMutationStarted(e, t, c) == Claimant(e, t, c) /\ StartMutation(e, c)

MarkConsumerMutationStartedLease(s, e, t, c) ==
  Leaseholder(s, e, t, c) /\ StartMutation(e, c)

\* mutation_started -> manual_recovery_required: the claimant gives up.
RequireManualRecovery ==
  /\ episode.attempt = "mutation_started"
  /\ episode' = Attempted("manual_recovery_required")
  /\ UNCHANGED <<resolution, started, settled, born>>

MarkConsumerManualRecoveryRequired(e, t, c) == Claimant(e, t, c) /\ RequireManualRecovery

MarkConsumerManualRecoveryRequiredLease(s, e, t, c) ==
  Leaseholder(s, e, t, c) /\ RequireManualRecovery

\* The claimant is done, or has nothing to do.
ResolveAttempt(e) ==
  /\ Resolvable
  /\ episode' = Attempted("resolved")
  /\ settled' = settled \cup {e}
  /\ UNCHANGED <<resolution, started, born>>

MarkConsumerResolved(e, t, c) == Claimant(e, t, c) /\ ResolveAttempt(e)

MarkConsumerResolvedLease(s, e, t, c) == Leaseholder(s, e, t, c) /\ ResolveAttempt(e)

-----------------------------------------------------------------------------
(* The queue's terminal verdict and the operator.                          *)

\* The verdict does not look at the lease.
ReconcileTerminalFailure_Bug(e, t, reason) ==
  /\ Published(e, t) /\ ~episode.restored /\ episode.attempt # "resolved"
  /\ episode.terminal = "none"
  /\ LET row == IF episode.attempt = "mutation_started"
                THEN Attempted("manual_recovery_required") ELSE Touched
     IN episode' = [row EXCEPT !.terminal = reason]
  /\ UNCHANGED <<resolution, started, settled, born>>

\* reconcileTerminalFailure, when it writes: the stronger reason wins.
ReconcileTerminalFailure(e, t, reason) ==
  /\ Terminable(e, t, reason)
  /\ LET uncertain == \/ episode.attempt = "mutation_started"
                      \/ episode.source # "none" /\ episode.attempt = "reserved"
         row == IF uncertain THEN Attempted("manual_recovery_required") ELSE Touched
     IN episode' = [row EXCEPT !.terminal = reason]
  /\ UNCHANGED <<resolution, started, settled, born>>

\* One transaction: the attempt is resolved, the decision and its audit are kept.
ResolveConsumerManualRecovery(e, t, c, outcome) ==
  /\ Published(e, t) /\ episode.claim = c
  /\ episode.attempt = "manual_recovery_required"
  /\ resolution[e].outcome = "none"
  /\ episode' = [Touched EXCEPT !.attempt = "resolved"]
  /\ resolution' = [resolution EXCEPT ![e].outcome = outcome, ![e].audit = "pending"]
  /\ settled' = settled \cup {e}
  /\ UNCHANGED <<started, born>>

\* The outbox's markDelivered, as seen from here.
ResolutionAuditDelivered(e) ==
  /\ resolution[e].audit = "pending"
  /\ resolution' = [resolution EXCEPT ![e].audit = "delivered"]
  /\ UNCHANGED <<episode, started, settled, born>>

\* An id that some resolution or replay already bears.
Taken(f) ==
  resolution[f].outcome # "none" \/ \E g \in Events : resolution[g].replay = f

\* The replay does not wait for the audit of the decision.
AuthorizeReplay_AuditBug(e, f) ==
  /\ resolution[e].outcome = "safe_to_retry" /\ resolution[e].replay = None
  /\ e # f /\ ~Taken(f)
  /\ episode.event = None \/ Exists(e)
  /\ resolution' = [resolution EXCEPT ![e].replay = f]
  /\ episode' = Fresh(f)
  /\ born' = born \cup {f}
  /\ UNCHANGED <<started, settled>>

\* authorizeManualRecoveryReplay, when it authorizes: the old row, if it is
\* still there, gives way to a fresh one.
AuthorizeManualRecoveryReplay(e, f) ==
  /\ resolution[e].outcome = "safe_to_retry" /\ resolution[e].audit = "delivered"
  /\ resolution[e].replay = None
  /\ e # f /\ ~Taken(f)
  /\ \/ episode.event = None
     \/ Exists(e) /\ episode.publication = "published" /\ episode.attempt = "resolved"
  /\ resolution' = [resolution EXCEPT ![e].replay = f]
  /\ episode' = Fresh(f)
  /\ born' = born \cup {f}
  /\ UNCHANGED <<started, settled>>

-----------------------------------------------------------------------------
(* Audits and the end of an episode.                                       *)

MarkExpiredAudit(e) ==
  /\ Exists(e) /\ ~episode.expired
  /\ episode' = [Touched EXCEPT !.expired = TRUE]
  /\ UNCHANGED <<resolution, started, settled, born>>

\* The reservation is taken back, its lease is not.
MarkRestoredAudit_Bug(e) ==
  /\ Exists(e) /\ ~episode.restored
  /\ LET row == IF episode.attempt = "reserved"
                THEN [Touched EXCEPT !.claim = None, !.attempt = "none"] ELSE Touched
     IN episode' = [row EXCEPT !.restored = TRUE]
  /\ UNCHANGED <<resolution, started, settled, born>>

\* A restored session leaves the reservation where it is.
MarkRestoredAudit_KeepBug(e) ==
  /\ Exists(e) /\ ~episode.restored
  /\ episode' = [Touched EXCEPT !.restored = TRUE]
  /\ UNCHANGED <<resolution, started, settled, born>>

\* A restored session takes back a reservation nobody acted upon.
MarkRestoredAudit(e) ==
  /\ Exists(e) /\ ~episode.restored
  /\ LET row == IF episode.attempt = "reserved"
                THEN [Touched EXCEPT !.claim = None, !.attempt = "none",
                                     !.source = "none", !.lease = None]
                ELSE Touched
     IN episode' = [row EXCEPT !.restored = TRUE]
  /\ UNCHANGED <<resolution, started, settled, born>>

\* A restored episode is closed, whatever its attempt.
Close_Bug(e) ==
  /\ Exists(e)
  /\ episode' = Fresh(None)
  /\ UNCHANGED <<resolution, started, settled, born>>

\* close, when it deletes; otherwise the row is retained for recovery.
Close(e) ==
  /\ Closable(e)
  /\ episode' = Fresh(None)
  /\ UNCHANGED <<resolution, started, settled, born>>

-----------------------------------------------------------------------------
(* Time.                                                                   *)
Age ==
  /\ \/ /\ episode.publication = "publishing" /\ ~episode.overdue
        /\ episode' = [episode EXCEPT !.overdue = TRUE]
     \/ /\ LeaseActive
        /\ episode' = [episode EXCEPT !.lease = @ - 1]
  /\ UNCHANGED <<resolution, started, settled, born>>

EpisodeInit ==
  /\ episode = Fresh(None)
  /\ resolution = [e \in Events |-> [outcome |-> "none", audit |-> "none", replay |-> None]]
  /\ started = {} /\ settled = {} /\ born = {}

Publish(e, t) ==
  \/ ClaimPublication(e, t)
  \/ MarkPublicationPublished(e, t)
  \/ MarkPublicationFailureReported(e, t)

Attempt(e, t, c) ==
  \/ ClaimConsumerAttempt(e, t, c)
  \/ MarkConsumerMutationStarted(e, t, c)
  \/ MarkConsumerManualRecoveryRequired(e, t, c)
  \/ MarkConsumerResolved(e, t, c)

LeasedAttempt(s, e, t, c) ==
  \/ ClaimConsumerAttemptLease(s, e, t, c)
  \/ RenewConsumerAttemptLease(s, e, t, c)
  \/ MarkConsumerMutationStartedLease(s, e, t, c)
  \/ MarkConsumerManualRecoveryRequiredLease(s, e, t, c)
  \/ MarkConsumerResolvedLease(s, e, t, c)

\* Ids are drawn with randomUUID: a new row never bears an old one.
EpisodeNext ==
  \/ \E e \in Events \ born :
       \/ Create(e)
       \/ \E f \in born : AuthorizeManualRecoveryReplay(f, e)
  \/ \E e \in Events :
       \/ CancelPublication(e)
       \/ ReconcileExpiredConsumerAttemptLease(e)
       \/ MarkExpiredAudit(e) \/ MarkRestoredAudit(e) \/ Close(e)
       \/ ResolutionAuditDelivered(e)
       \/ \E t \in Tokens :
            \/ Publish(e, t)
            \/ \E reason \in {"job_missing", "job_failed"} :
                 ReconcileTerminalFailure(e, t, reason)
            \/ \E c \in Claims :
                 \/ Attempt(e, t, c)
                 \/ \E s \in {"scheduled", "scrape_time"} : LeasedAttempt(s, e, t, c)
                 \/ \E outcome \in {"safe_to_retry", "mutation_confirmed",
                                    "resolved_no_retry"} :
                      ResolveConsumerManualRecovery(e, t, c, outcome)
  \/ Age

EpisodeSpec == EpisodeInit /\ [][EpisodeNext]_episodeVars
-----------------------------------------------------------------------------
(* Properties.                                                             *)

\* Whatever statements meet on the row, mapRow can read it back and the
\* table's CHECKs hold: publication, claim, lease and verdict stay consistent.
RowStaysReadable ==
  /\ episode.publication \in {"pending", "cancelled"}
       => episode.token = None /\ ~episode.reported
  /\ episode.publication \in {"publishing", "published"} => episode.token # None
  /\ episode.publication = "published" => ~episode.reported
  /\ (episode.attempt = "none") <=> (episode.claim = None)
  /\ episode.attempt = "reserved" => ~episode.restored
  /\ episode.terminal # "none" => episode.publication = "published"
  /\ episode.source = "none" => episode.lease = None
  /\ episode.source # "none" =>
       /\ episode.attempt # "none"
       /\ episode.attempt \in {"reserved", "mutation_started"}
            => episode.lease # None /\ episode.terminal = "none"
       /\ episode.attempt \in {"manual_recovery_required", "resolved"}
            => episode.lease = None
  /\ episode.source = "scheduled" => episode.publication = "published"
  /\ episode.source = "scrape_time" => episode.publication = "pending"

\* For one expired event, one claim at most is ever told that it may log in,
\* through restorations, expired leases, terminal verdicts and resolutions.
OneMutationPerEvent == \A p, q \in started : p[1] = q[1] => p = q

\* A login that may have happened stays on record, under the claim that
\* started it, until its claimant or an operator has settled it.  The bank has
\* one row, so no other login of the bank starts meanwhile.
UnsettledMutationIsKept ==
  \A p \in started : p[1] \notin settled =>
    /\ episode.event = p[1] /\ episode.claim = p[2]
    /\ episode.attempt \in Unresolved

\* A replay comes only after an operator found that nothing was mutated and
\* that decision was audited; it belongs to one resolution, and has its own id.
ReplayIsEarned ==
  \A e \in Events : resolution[e].replay # None =>
    /\ e \in settled
    /\ resolution[e].outcome = "safe_to_retry" /\ resolution[e].audit = "delivered"
    /\ \A g \in Events : resolution[g].replay = resolution[e].replay => g = e

\* The queue's verdict never interrupts a login whose lease is running, and
\* leaves no login in progress behind it.
VerdictSparesLeasedLogin ==
  [][episode'.event = episode.event /\ episode'.terminal # episode.terminal
       => ~LeaseActive /\ episode'.attempt # "mutation_started"]_episodeVars
=============================================================================
