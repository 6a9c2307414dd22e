--------------------------- MODULE EpisodeMemory ----------------------------
(***************************************************************************)
(* InMemoryBankSessionExpiryEpisodeRepository (src/modules/bank-sessions/  *)
(* expiry-episodes.ts), the repository the tests of the expiry code run    *)
(* on, next to the database's of EpisodeStore.  What an operation would    *)
(* make of the row is a set: of the new row, or empty when it refuses.     *)
(*                                                                         *)
(* It has no clock of its own here: a lease that has not run out is        *)
(* LeaseActive, and updatedAt < staleBefore is "overdue".                  *)
(***************************************************************************)
EXTENDS EpisodeStore

\* updatePublication: the new row must pass parseConsumerAttemptLease.
Parses(row) ==
  IF row.source = "none" THEN row.lease = None
  ELSE /\ row.attempt # "none"
       /\ row.attempt \in {"reserved", "mutation_started"} <=> row.lease # None
       /\ row.lease # None => row.terminal = "none"
       /\ row.publication = IF row.source = "scheduled" THEN "published" ELSE "pending"
       /\ row.token = None <=> row.source = "scrape_time"

UpdatePublication(e, may, row) ==
  IF Exists(e) /\ may /\ Parses(row) THEN {[row EXCEPT !.overdue = FALSE]} ELSE {}

\* A row made by authorizeManualRecoveryReplay has no terminalFailureReason,
\* which is not null, until a verdict gives it one.
Replayed == \E g \in Events : resolution[g].replay = episode.event
TerminalIsNull == episode.terminal = "none" /\ ~Replayed

\* The source is not looked at.
HasActiveLeaseOwner_Bug(s, t, c) ==
  /\ episode.claim = c
  /\ LeaseActive /\ TerminalIsNull
  /\ \/ episode.publication = "published" /\ episode.token = t
     \/ episode.publication = "pending" /\ episode.token = None

HasActiveLeaseOwner(s, t, c) ==
  /\ episode.claim = c /\ episode.source = s
  /\ LeaseActive /\ TerminalIsNull
  /\ IF s = "scheduled" THEN episode.publication = "published" /\ episode.token = t
                        ELSE episode.publication = "pending" /\ episode.token = None

MemGetOrCreate(e) == IF episode.event = None THEN {Fresh(e)} ELSE {}

MemClaimPublication(e, t) ==
  UpdatePublication(e,
    /\ ~episode.restored /\ episode.attempt = "none"
    /\ \/ episode.publication = "pending"
       \/ /\ episode.publication = "publishing" /\ episode.token = t
          /\ episode.reported \/ episode.overdue,
    [episode EXCEPT !.publication = "publishing", !.token = t, !.reported = FALSE])

MemMarkPublicationPublished(e, t) ==
  UpdatePublication(e,
    ~episode.restored /\ episode.publication = "publishing" /\ episode.token = t,
    [episode EXCEPT !.publication = "published", !.reported = FALSE])

MemCancelPublication(e) ==
  UpdatePublication(e, episode.publication \in {"pending", "publishing"},
    [episode EXCEPT !.publication = "cancelled", !.token = None, !.reported = FALSE])

MemMarkPublicationFailureReported(e, t) ==
  UpdatePublication(e,
    episode.publication = "publishing" /\ episode.token = t /\ ~episode.reported,
    [episode EXCEPT !.reported = TRUE])

MemClaimConsumerAttempt(e, t, c) ==
  UpdatePublication(e,
    /\ ~episode.restored /\ episode.publication = "published" /\ episode.token = t
    /\ episode.claim = None /\ episode.attempt = "none",
    [episode EXCEPT !.claim = c, !.attempt = "reserved"])

MemClaimConsumerAttemptLease(s, e, t, c) ==
  UpdatePublication(e,
    /\ ~episode.restored /\ TerminalIsNull
    /\ episode.claim = None /\ episode.attempt = "none"
    /\ IF s = "scheduled" THEN episode.publication = "published" /\ episode.token = t
                          ELSE episode.publication = "pending" /\ episode.token = None,
    [episode EXCEPT !.claim = c, !.attempt = "reserved", !.source = s, !.lease = LeaseTicks])

MemRenewConsumerAttemptLease(s, e, t, c) ==
  UpdatePublication(e,
    HasActiveLeaseOwner(s, t, c) /\ episode.attempt \in {"reserved", "mutation_started"},
    [episode EXCEPT !.lease = LeaseTicks])

MemReconcileExpiredConsumerAttemptLease(e) ==
  UpdatePublication(e,
    /\ episode.source # "none" /\ episode.attempt \in {"reserved", "mutation_started"}
    /\ episode.lease = 0,
    [episode EXCEPT !.attempt = "manual_recovery_required", !.lease = None])

\* consumerAttemptTransitions: only the first asks for an unrestored episode.
Transit(e, may, from, to) ==
  UpdatePublication(e,
    /\ may /\ episode.attempt = from
    /\ from = "reserved" => ~episode.restored,
    [episode EXCEPT !.attempt = to,
                    !.lease = IF to = "manual_recovery_required" THEN None ELSE @])

MemHolds(t, c) ==
  /\ episode.publication = "published" /\ episode.token = t /\ episode.claim = c
  /\ episode.lease = None \/ LeaseActive

MemResolve(e, may) ==
  UpdatePublication(e,
    /\ may
    /\ \/ episode.attempt = "mutation_started"
       \/ episode.attempt = "reserved" /\ ~episode.restored,
    [episode EXCEPT !.attempt = "resolved", !.lease = None])

MemReconcileTerminalFailure(e, t, reason) ==
  LET uncertain == \/ episode.attempt \in Unresolved
                   \/ episode.source # "none" /\ episode.attempt = "reserved"
      row == [episode EXCEPT !.attempt = IF uncertain THEN "manual_recovery_required" ELSE @,
                             !.lease = IF uncertain THEN None ELSE @,
                             !.terminal = reason, !.overdue = FALSE]
  IN IF \/ ~Exists(e) \/ episode.publication # "published" \/ episode.token # t
        \/ episode.restored \/ episode.attempt = "resolved"
        \/ episode.terminal \in {"job_failed", reason}
        \/ LeaseActive
     THEN {} ELSE {row}

MemResolveConsumerManualRecovery(e, t, c) ==
  IF /\ Exists(e) /\ episode.publication = "published" /\ episode.token = t
     /\ episode.claim = c /\ episode.attempt = "manual_recovery_required"
  THEN {[episode EXCEPT !.attempt = "resolved", !.overdue = FALSE]} ELSE {}

MemAuthorizeManualRecoveryReplay(e, f) ==
  IF /\ resolution[e].outcome = "safe_to_retry" /\ resolution[e].audit = "delivered"
     /\ resolution[e].replay = None
     /\ episode.event # None =>
          /\ Exists(e) /\ episode.publication = "published" /\ episode.attempt = "resolved"
     /\ \A g \in Events :
          /\ resolution[g].outcome # "none" => g # f
          /\ resolution[g].replay # f
  THEN {Fresh(f)} ELSE {}

\* updatedAt is left alone.
MemMarkAuditDelivered(e, kind) ==
  IF Exists(e) /\ ~episode[kind]
  THEN {IF kind = "restored" /\ episode.attempt = "reserved"
        THEN [episode EXCEPT !.restored = TRUE, !.claim = None, !.attempt = "none",
                             !.source = "none", !.lease = None]
        ELSE [episode EXCEPT ![kind] = TRUE]}
  ELSE {}

MemClose(e) ==
  IF Exists(e) /\ episode.attempt \in {"none", "resolved"} THEN {Fresh(None)} ELSE {}

-----------------------------------------------------------------------------
(* The two repositories side by side.                                      *)

Timeless(rows) == {[row EXCEPT !.overdue = FALSE] : row \in rows}

\* The statement A is refused when the operation is, and makes the same row.
Same(rows, A) ==
  /\ rows # {} <=> ENABLED A
  /\ \A row \in Timeless(rows) : ENABLED (A /\ Timeless({episode'}) = {row})

SameBirthsAndEnds ==
  \A e \in Events :
    /\ Same(MemGetOrCreate(e), Create(e))
    /\ Same(MemCancelPublication(e), CancelPublication(e))
    /\ Same(MemReconcileExpiredConsumerAttemptLease(e),
            ReconcileExpiredConsumerAttemptLease(e))
    /\ Same(MemMarkAuditDelivered(e, "expired"), MarkExpiredAudit(e))
    /\ Same(MemMarkAuditDelivered(e, "restored"), MarkRestoredAudit(e))
    /\ Same(MemClose(e), Close(e))
    /\ \A f \in Events \ {e} : Same(MemAuthorizeManualRecoveryReplay(e, f),
                                   AuthorizeManualRecoveryReplay(e, f))

SamePublications ==
  \A e \in Events, t \in Tokens :
    /\ Same(MemClaimPublication(e, t), ClaimPublication(e, t))
    /\ Same(MemMarkPublicationPublished(e, t), MarkPublicationPublished(e, t))
    /\ Same(MemMarkPublicationFailureReported(e, t), MarkPublicationFailureReported(e, t))
    /\ \A reason \in {"job_missing", "job_failed"} :
         Same(MemReconcileTerminalFailure(e, t, reason), ReconcileTerminalFailure(e, t, reason))

SameAttempts ==
  \A e \in Events, t \in Tokens, c \in Claims :
    /\ Same(MemClaimConsumerAttempt(e, t, c), ClaimConsumerAttempt(e, t, c))
    /\ Same(Transit(e, MemHolds(t, c), "reserved", "mutation_started"),
            MarkConsumerMutationStarted(e, t, c))
    /\ Same(Transit(e, MemHolds(t, c), "mutation_started", "manual_recovery_required"),
            MarkConsumerManualRecoveryRequired(e, t, c))
    /\ Same(MemResolve(e, MemHolds(t, c)), MarkConsumerResolved(e, t, c))
    /\ Same(MemResolveConsumerManualRecovery(e, t, c),
            ResolveConsumerManualRecovery(e, t, c, "mutation_confirmed"))

SameLeases ==
  \A s \in {"scheduled", "scrape_time"}, e \in Events, t \in Tokens, c \in Claims :
    LET owner == HasActiveLeaseOwner(s, t, c) IN
    /\ Same(MemClaimConsumerAttemptLease(s, e, t, c), ClaimConsumerAttemptLease(s, e, t, c))
    /\ Same(MemRenewConsumerAttemptLease(s, e, t, c), RenewConsumerAttemptLease(s, e, t, c))
    /\ Same(Transit(e, owner, "reserved", "mutation_started"),
            MarkConsumerMutationStartedLease(s, e, t, c))
    /\ Same(Transit(e, owner, "mutation_started", "manual_recovery_required"),
            MarkConsumerManualRecoveryRequiredLease(s, e, t, c))
    /\ Same(MemResolve(e, owner), MarkConsumerResolvedLease(s, e, t, c))

\* In every state the database can reach, whatever the caller presents, the
\* repository the tests run on accepts what the database accepts, refuses what
\* it refuses, and makes the same row of it: what the tests show of the expiry
\* code holds of the database too.  The leases of a replay are the exception:
\* the tests' repository refuses them all.
TwinAgrees ==
  /\ SameBirthsAndEnds /\ SamePublications /\ SameAttempts
  /\ ~Replayed => SameLeases
=============================================================================
