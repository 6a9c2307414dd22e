---------------------------- MODULE ExpiryProofs ----------------------------
(***************************************************************************)
(* The expiry episode, for any number of events, tokens, claims, monitors  *)
(* and workers.                                                            *)
(*                                                                         *)
(* First the repository (EpisodeStore).  The row is deleted and born again *)
(* while the histories go on, so the argument is how the row's attempt and *)
(* the ledger of all events agree (Ledger): an attempt nobody acted upon   *)
(* has no mutation on record, one that is resolved is settled, and a new   *)
(* row bears an id of which the ledger has never heard.                    *)
(*                                                                         *)
(* Then those who call it (ExpiryRecovery).  A monitor may bring a closed  *)
(* id back, so of the repository's invariant they keep what speaks of the  *)
(* row alone (RowInv).  To that RInv adds what each process has read and   *)
(* still relies on: audits only grow, and a login in hand is taken away by *)
(* its own claimant or by an operator's decision.                          *)
(*                                                                         *)
(* Between the two, the repository the tests run on (EpisodeMemory).  That *)
(* it takes every step of the database's needs RowInv alone; that it takes *)
(* no other needs as well that a settled event's attempt is never open     *)
(* again (SettledIsResolved).                                              *)
(***************************************************************************)
EXTENDS ExpiryRecovery, EpisodeMemory, TLAPS

Quiet == UNCHANGED <<resolution, started, settled, born>>

\* The row's event was born, as everything was that the histories speak of.
Births ==
  /\ episode.event \in born \cup {None}
  /\ episode.event = None => episode.attempt = "none"
  /\ \A p \in started : p[1] \in born
  /\ settled \subseteq born

\* What the row's attempt says is what happened.
AttemptTells ==
  /\ episode.attempt \in {"none", "reserved"} => \A p \in started : p[1] # episode.event
  /\ episode.attempt = "resolved" => episode.event \in settled

\* An operator's decision settles.
DecisionsSettle == \A e \in Events : resolution[e].outcome # "none" => e \in settled

Ledger ==
  /\ Births /\ AttemptTells /\ DecisionsSettle
  /\ OneMutationPerEvent /\ UnsettledMutationIsKept /\ ReplayIsEarned

\* What is true of the row whoever creates it, under an old id too.
RowInv == EpisodeTypeOK /\ RowStaysReadable

IInv == RowInv /\ Ledger

-----------------------------------------------------------------------------
(* Rows.                                                                   *)

\* The row an INSERT makes, and its absence, can be read back.
LEMMA FreshRow ==
  ASSUME NEW e \in Events \cup {None}, episode' = Fresh(e)
  PROVE  /\ episode' \in Episodes /\ RowStaysReadable'
         /\ episode'.event = e /\ episode'.attempt = "none"
<1> QED
  BY DEF Fresh, Episodes, RowStaysReadable

LEMMA InitEstablishes == EpisodeInit => IInv
<1> SUFFICES ASSUME EpisodeInit PROVE IInv
  OBVIOUS
<1>1. episode \in Episodes /\ RowStaysReadable /\ episode.event = None /\ episode.attempt = "none"
  BY DEF EpisodeInit, Fresh, Episodes, RowStaysReadable
<1>2. resolution \in [Events -> Resolutions]
  BY DEF EpisodeInit, Resolutions
<1>3. EpisodeTypeOK
  BY <1>1, <1>2 DEF EpisodeInit, EpisodeTypeOK
<1>4. Ledger
  BY <1>1 DEF EpisodeInit, Ledger, Births, AttemptTells, DecisionsSettle,
              OneMutationPerEvent, UnsettledMutationIsKept, ReplayIsEarned
<1> QED
  BY <1>1, <1>3, <1>4 DEF IInv, RowInv

\* What a statement that writes no history may do to an attempt: it invents no
\* untouched or resolved one and leaves an unresolved one to its claim.
Kept ==
  /\ Quiet
  /\ episode'.event = episode.event
  /\ episode.event = None => episode'.attempt = episode.attempt
  /\ episode'.attempt \in {"none", "reserved"} => episode.attempt \in {"none", "reserved"}
  /\ episode'.attempt = "resolved" => episode.attempt = "resolved"
  /\ episode.attempt \in Unresolved =>
       episode'.attempt \in Unresolved /\ episode'.claim = episode.claim

\* That keeps the ledger.
LEMMA KeptLedger ==
  ASSUME IInv, RowInv', Kept PROVE IInv'
<1>1. Births' /\ DecisionsSettle' /\ OneMutationPerEvent' /\ ReplayIsEarned'
  BY DEF Kept, Quiet, IInv, Ledger, Births, DecisionsSettle, OneMutationPerEvent,
         ReplayIsEarned
<1>2. AttemptTells'
  BY DEF Kept, Quiet, IInv, Ledger, AttemptTells
<1>3. UnsettledMutationIsKept'
  BY DEF Kept, Quiet, IInv, Ledger, UnsettledMutationIsKept
<1> QED
  BY <1>1, <1>2, <1>3 DEF IInv, Ledger

-----------------------------------------------------------------------------
(* The statements that write no history.                                   *)

LEMMA PublicationSteps ==
  ASSUME RowInv, NEW e \in Events, NEW t \in Tokens, Publish(e, t)
  PROVE  RowInv' /\ Kept
<1>1. /\ episode \in Episodes /\ RowStaysReadable
      /\ e # None /\ t # None /\ episode.event = e
  BY EpisodeAssumption
     DEF RowInv, EpisodeTypeOK, Publish, ClaimPublication, MayClaimPublication,
         MarkPublicationPublished, MarkPublicationFailureReported, Publishing, Exists
<1>2. Quiet /\ episode' \in Episodes /\ RowStaysReadable'
  <2>1. CASE ClaimPublication(e, t)
    BY <1>1, <2>1 DEF ClaimPublication, MayClaimPublication, Touched, Quiet, Episodes,
                      Unresolved, RowStaysReadable
  <2>2. CASE MarkPublicationPublished(e, t)
    BY <1>1, <2>2 DEF MarkPublicationPublished, Publishing, Touched, Quiet, Episodes,
                      Unresolved, RowStaysReadable
  <2>3. CASE MarkPublicationFailureReported(e, t)
    BY <1>1, <2>3 DEF MarkPublicationFailureReported, Publishing, Touched, Quiet, Episodes,
                      Unresolved, RowStaysReadable
  <2> QED
    BY <2>1, <2>2, <2>3 DEF Publish
<1>3. /\ episode'.event = episode.event /\ episode'.attempt = episode.attempt
      /\ episode'.claim = episode.claim
  BY <1>1 DEF Publish, ClaimPublication, MarkPublicationPublished,
              MarkPublicationFailureReported, Touched, Episodes
<1> QED
  BY <1>1, <1>2, <1>3 DEF Kept, Quiet, RowInv, EpisodeTypeOK

LEMMA CancelStep ==
  ASSUME RowInv, NEW e \in Events, CancelPublication(e)
  PROVE  RowInv' /\ Kept
<1>1. /\ episode \in Episodes /\ RowStaysReadable /\ e # None /\ episode.event = e
  BY DEF RowInv, EpisodeTypeOK, CancelPublication, Cancellable, Exists
<1>2. Quiet /\ episode' \in Episodes /\ RowStaysReadable'
  BY <1>1 DEF CancelPublication, Cancellable, Touched, Quiet, Episodes, Unresolved,
              RowStaysReadable
<1>3. /\ episode'.event = episode.event /\ episode'.attempt = episode.attempt
      /\ episode'.claim = episode.claim
  BY <1>1 DEF CancelPublication, Touched, Episodes
<1> QED
  BY <1>1, <1>2, <1>3 DEF Kept, Quiet, RowInv, EpisodeTypeOK

LEMMA ClaimSteps ==
  ASSUME RowInv, NEW e \in Events, NEW t \in Tokens, NEW c \in Claims,
         NEW s \in {"scheduled", "scrape_time"},
         ClaimConsumerAttempt(e, t, c) \/ ClaimConsumerAttemptLease(s, e, t, c)
  PROVE  RowInv' /\ Kept
<1>1. /\ episode \in Episodes /\ RowStaysReadable
      /\ e # None /\ t # None /\ c # None /\ episode.event = e /\ Unclaimed
      /\ LeaseTicks \in 0..LeaseTicks /\ LeaseTicks # None
  BY EpisodeAssumption
     DEF RowInv, EpisodeTypeOK, ClaimConsumerAttempt, ClaimConsumerAttemptLease, Published, Exists
<1>2. Quiet /\ episode' \in Episodes /\ RowStaysReadable' /\ episode'.event = e
      /\ episode'.attempt = "reserved"
  <2>1. CASE ClaimConsumerAttempt(e, t, c)
    BY <1>1, <2>1 DEF ClaimConsumerAttempt, Published, Unclaimed, Touched, Quiet, Episodes,
                      Unresolved, RowStaysReadable
  <2>2. CASE ClaimConsumerAttemptLease(s, e, t, c)
    BY <1>1, <2>2 DEF ClaimConsumerAttemptLease, Published, Unclaimed, Touched, Quiet,
                      Episodes, Unresolved, RowStaysReadable
  <2> QED
    BY <2>1, <2>2
<1> QED
  BY <1>1, <1>2 DEF Unclaimed, Unresolved, Kept, Quiet, RowInv, EpisodeTypeOK

LEMMA RenewStep ==
  ASSUME RowInv, NEW e \in Events, NEW t \in Tokens, NEW c \in Claims,
         NEW s \in {"scheduled", "scrape_time"}, RenewConsumerAttemptLease(s, e, t, c)
  PROVE  RowInv' /\ Kept
<1>1. /\ episode \in Episodes /\ RowStaysReadable
      /\ e # None /\ episode.event = e /\ episode.source = s
      /\ LeaseTicks \in 0..LeaseTicks /\ LeaseTicks # None
  BY EpisodeAssumption
     DEF RowInv, EpisodeTypeOK, RenewConsumerAttemptLease, Leaseholder, Exists
<1>2. Quiet /\ episode' = [Touched EXCEPT !.lease = LeaseTicks]
      /\ episode.attempt \in {"reserved", "mutation_started"}
  BY DEF RenewConsumerAttemptLease, Quiet
<1>3. episode' \in Episodes /\ RowStaysReadable'
  BY <1>1, <1>2 DEF Touched, Episodes, Unresolved, RowStaysReadable
<1>4. /\ episode'.event = episode.event /\ episode'.attempt = episode.attempt
      /\ episode'.claim = episode.claim
  BY <1>1, <1>2 DEF Touched, Episodes
<1> QED
  BY <1>1, <1>2, <1>3, <1>4 DEF Kept, Quiet, RowInv, EpisodeTypeOK

\* Whoever gives up on an attempt leaves it to the operator, under its claim.
LEMMA GiveUpSteps ==
  ASSUME RowInv, episode.event # None,
         RequireManualRecovery \/ \E e \in Events : ReconcileExpiredConsumerAttemptLease(e)
  PROVE  RowInv' /\ Kept
<1>1. episode \in Episodes /\ RowStaysReadable
  BY DEF RowInv, EpisodeTypeOK
<1>2. /\ Quiet
      /\ episode.attempt \in {"reserved", "mutation_started"}
      /\ episode.source # "none" \/ episode.attempt = "mutation_started"
  BY DEF RequireManualRecovery, ReconcileExpiredConsumerAttemptLease, Quiet
<1>3. episode' = Attempted("manual_recovery_required")
  BY DEF RequireManualRecovery, ReconcileExpiredConsumerAttemptLease
<1>4. episode' = [Touched EXCEPT !.attempt = "manual_recovery_required", !.lease = None]
  BY <1>3 DEF Attempted
<1>5. episode' \in Episodes /\ RowStaysReadable'
  BY <1>1, <1>2, <1>4 DEF Touched, Episodes, Unresolved, RowStaysReadable
<1>6. /\ episode'.event = episode.event /\ episode'.claim = episode.claim
      /\ episode'.attempt = "manual_recovery_required"
  BY <1>1, <1>4 DEF Touched, Episodes
<1> QED
  BY <1>2, <1>5, <1>6 DEF Unresolved, Kept, Quiet, RowInv, EpisodeTypeOK

LEMMA TerminalStep ==
  ASSUME RowInv, NEW e \in Events, NEW t \in Tokens, NEW reason \in {"job_missing", "job_failed"},
         ReconcileTerminalFailure(e, t, reason)
  PROVE  RowInv' /\ Kept
<1>1. /\ episode \in Episodes /\ RowStaysReadable /\ e # None /\ episode.event = e
      /\ episode.publication = "published" /\ episode.attempt # "resolved" /\ Quiet
  BY EpisodeAssumption
     DEF RowInv, EpisodeTypeOK, ReconcileTerminalFailure, Terminable, Published, Exists, Quiet
<1> DEFINE uncertain == \/ episode.attempt = "mutation_started"
                        \/ episode.source # "none" /\ episode.attempt = "reserved"
<1>2. CASE uncertain
  <2>1. episode' = [episode EXCEPT !.overdue = FALSE, !.attempt = "manual_recovery_required",
                                   !.lease = None, !.terminal = reason]
    BY <1>1, <1>2 DEF ReconcileTerminalFailure, Attempted, Touched, Episodes
  <2>2. episode' \in Episodes /\ RowStaysReadable'
    BY <1>1, <1>2, <2>1 DEF Episodes, Unresolved, RowStaysReadable
  <2>3. /\ episode'.event = e /\ episode'.claim = episode.claim
        /\ episode'.attempt = "manual_recovery_required"
    BY <1>1, <2>1 DEF Episodes
  <2> QED
    BY <1>1, <2>2, <2>3 DEF Unresolved, Kept, Quiet, RowInv, EpisodeTypeOK
<1>3. CASE ~uncertain
  <2>1. episode' = [episode EXCEPT !.overdue = FALSE, !.terminal = reason]
    BY <1>1, <1>3 DEF ReconcileTerminalFailure, Touched, Episodes
  <2>2. episode' \in Episodes /\ RowStaysReadable'
    BY <1>1, <1>3, <2>1 DEF Episodes, Unresolved, RowStaysReadable
  <2>3. /\ episode'.event = e /\ episode'.claim = episode.claim
        /\ episode'.attempt = episode.attempt
    BY <1>1, <2>1 DEF Episodes
  <2> QED
    BY <1>1, <2>2, <2>3 DEF Kept, Quiet, RowInv, EpisodeTypeOK
<1> QED
  BY <1>2, <1>3

LEMMA AuditSteps ==
  ASSUME RowInv, NEW e \in Events, MarkExpiredAudit(e) \/ MarkRestoredAudit(e)
  PROVE  RowInv' /\ Kept
<1>1. /\ episode \in Episodes /\ RowStaysReadable /\ episode.event = e /\ e # None /\ Quiet
  BY DEF RowInv, EpisodeTypeOK, MarkExpiredAudit, MarkRestoredAudit, Exists, Quiet
<1>2. CASE MarkRestoredAudit(e) /\ episode.attempt = "reserved"
  <2>1. episode' = [[Touched EXCEPT !.claim = None, !.attempt = "none", !.source = "none",
                                    !.lease = None] EXCEPT !.restored = TRUE]
    BY <1>2 DEF MarkRestoredAudit
  <2>2. episode' \in Episodes /\ RowStaysReadable'
    BY <1>1, <1>2, <2>1 DEF Touched, Episodes, Unresolved, RowStaysReadable
  <2>3. episode'.event = e /\ episode'.attempt = "none"
    BY <1>1, <2>1 DEF Touched, Episodes
  <2> QED
    BY <1>1, <1>2, <2>2, <2>3 DEF Unresolved, Kept, Quiet, RowInv, EpisodeTypeOK
<1>3. CASE \/ MarkExpiredAudit(e)
           \/ MarkRestoredAudit(e) /\ episode.attempt # "reserved"
  <2>1. \/ episode' = [Touched EXCEPT !.expired = TRUE]
        \/ episode' = [Touched EXCEPT !.restored = TRUE] /\ episode.attempt # "reserved"
    BY <1>3 DEF MarkExpiredAudit, MarkRestoredAudit
  <2>2. episode' \in Episodes /\ RowStaysReadable'
    <3>1. CASE episode' = [Touched EXCEPT !.expired = TRUE]
      BY <1>1, <3>1 DEF Touched, Episodes, Unresolved, RowStaysReadable
    <3>2. CASE episode' = [Touched EXCEPT !.restored = TRUE] /\ episode.attempt # "reserved"
      BY <1>1, <3>2 DEF Touched, Episodes, Unresolved, RowStaysReadable
    <3> QED
      BY <2>1, <3>1, <3>2
  <2>3. /\ episode'.event = e /\ episode'.claim = episode.claim
        /\ episode'.attempt = episode.attempt
    BY <1>1, <2>1 DEF Touched, Episodes
  <2> QED
    BY <1>1, <2>2, <2>3 DEF Kept, Quiet, RowInv, EpisodeTypeOK
<1> QED
  BY <1>2, <1>3

\* Time moves a comparison or a lease, and an absent row has neither.
LEMMA AgeStep ==
  ASSUME RowInv, Age PROVE RowInv' /\ Kept
<1>1. episode \in Episodes /\ RowStaysReadable /\ Quiet
      /\ LeaseTicks \in Nat /\ None \notin Nat
  BY EpisodeAssumption DEF RowInv, EpisodeTypeOK, Age, Quiet
<1>2. CASE episode' = [episode EXCEPT !.overdue = TRUE]
  <2>1. episode' \in Episodes /\ RowStaysReadable'
    BY <1>1, <1>2 DEF Episodes, Unresolved, RowStaysReadable
  <2>2. /\ episode'.event = episode.event /\ episode'.claim = episode.claim
        /\ episode'.attempt = episode.attempt
    BY <1>1, <1>2 DEF Episodes
  <2> QED
    BY <1>1, <2>1, <2>2 DEF Kept, Quiet, RowInv, EpisodeTypeOK
<1>3. CASE LeaseActive /\ episode' = [episode EXCEPT !.lease = @ - 1]
  <2>1. episode.lease \in 1..LeaseTicks
    BY <1>1, <1>3 DEF LeaseActive, Episodes
  <2>2. episode.lease - 1 \in 0..LeaseTicks /\ episode.lease - 1 # None
    BY <1>1, <2>1
  <2>3. episode' \in Episodes /\ RowStaysReadable'
    BY <1>1, <1>3, <2>1, <2>2 DEF LeaseActive, Episodes, Unresolved, RowStaysReadable
  <2>4. /\ episode'.event = episode.event /\ episode'.claim = episode.claim
        /\ episode'.attempt = episode.attempt
    BY <1>1, <1>3 DEF Episodes
  <2> QED
    BY <1>1, <2>3, <2>4 DEF Kept, Quiet, RowInv, EpisodeTypeOK
<1> QED
  BY <1>2, <1>3 DEF Age

-----------------------------------------------------------------------------
(* The statements that write history.                                      *)

LEMMA StartRow ==
  ASSUME RowInv, NEW e \in Events, NEW c \in Claims,
         episode.event = e, episode.claim = c, StartMutation(e, c),
         episode.source # "none" => episode.terminal = "none"
  PROVE  /\ RowInv'
         /\ episode'.event = e /\ episode'.claim = c /\ episode'.attempt = "mutation_started"
<1>1. /\ episode \in Episodes /\ RowStaysReadable
      /\ episode.attempt = "reserved" /\ ~episode.restored
  BY DEF RowInv, EpisodeTypeOK, StartMutation, Reserved
<1>2. /\ episode' = Attempted("mutation_started")
      /\ started' = started \cup {<<e, c>>}
      /\ resolution' = resolution /\ settled' = settled /\ born' = born
  BY DEF StartMutation
<1>3. episode' = [Touched EXCEPT !.attempt = "mutation_started", !.lease = Touched.lease]
  BY <1>2 DEF Attempted
<1>4. episode' \in Episodes /\ RowStaysReadable'
  BY <1>1, <1>3 DEF Touched, Episodes, Unresolved, RowStaysReadable
<1>5. episode'.event = e /\ episode'.claim = c /\ episode'.attempt = "mutation_started"
  BY <1>1, <1>3 DEF Touched, Episodes
<1> QED
  BY <1>2, <1>4, <1>5 DEF RowInv, EpisodeTypeOK

\* The reservation's claim is the only one that ever starts its event.
LEMMA StartStep ==
  ASSUME IInv, NEW e \in Events, NEW c \in Claims,
         episode.event = e, episode.claim = c, StartMutation(e, c),
         episode.source # "none" => episode.terminal = "none"
  PROVE  IInv'
<1>1. Ledger /\ episode.attempt = "reserved"
  BY DEF IInv, StartMutation, Reserved
<1>2. /\ started' = started \cup {<<e, c>>}
      /\ resolution' = resolution /\ settled' = settled /\ born' = born
  BY DEF StartMutation
<1>5. /\ RowInv'
      /\ episode'.event = e /\ episode'.claim = c /\ episode'.attempt = "mutation_started"
  BY StartRow DEF IInv
<1>7. \A p \in started : p[1] # e
  BY <1>1 DEF Ledger, AttemptTells
<1>8. Births'
  BY <1>1, <1>2, <1>5, EpisodeAssumption DEF Ledger, Births
<1>9. AttemptTells' /\ DecisionsSettle' /\ ReplayIsEarned'
  BY <1>1, <1>2, <1>5 DEF Ledger, AttemptTells, DecisionsSettle, ReplayIsEarned
<1>10. OneMutationPerEvent'
  BY <1>1, <1>2, <1>7 DEF Ledger, OneMutationPerEvent
<1>11. UnsettledMutationIsKept'
  BY <1>1, <1>2, <1>5, <1>7 DEF Ledger, UnsettledMutationIsKept, Unresolved
<1> QED
  BY <1>5, <1>8, <1>9, <1>10, <1>11 DEF IInv, Ledger

\* An attempt that becomes resolved settles its event, whoever resolves it.
LEMMA ResolvedLedger ==
  ASSUME Ledger, NEW e \in Events, episode.event = e, e \in born,
         episode'.event = e, episode'.attempt = "resolved",
         settled' = settled \cup {e}, UNCHANGED <<started, born>>,
         DecisionsSettle', ReplayIsEarned'
  PROVE  Ledger'
<1>1. Births' /\ AttemptTells' /\ OneMutationPerEvent'
  BY EpisodeAssumption DEF Ledger, Births, AttemptTells, OneMutationPerEvent
<1>2. UnsettledMutationIsKept'
  BY DEF Ledger, UnsettledMutationIsKept
<1> QED
  BY <1>1, <1>2 DEF Ledger

LEMMA ResolveRow ==
  ASSUME RowInv, NEW e \in Events, episode.event = e, ResolveAttempt(e),
         episode.source # "none" => episode.terminal = "none"
  PROVE  RowInv' /\ episode'.event = e /\ episode'.attempt = "resolved"
<1>1. /\ episode \in Episodes /\ RowStaysReadable
      /\ episode.attempt \in {"reserved", "mutation_started"}
  BY DEF RowInv, EpisodeTypeOK, ResolveAttempt, Resolvable, Reserved
<1>2. /\ episode' = Attempted("resolved") /\ settled' = settled \cup {e}
      /\ resolution' = resolution /\ started' = started /\ born' = born
  BY DEF ResolveAttempt
<1>3. episode' = [Touched EXCEPT !.attempt = "resolved", !.lease = None]
  BY <1>2 DEF Attempted
<1>4. episode' \in Episodes /\ RowStaysReadable'
  BY <1>1, <1>3 DEF Touched, Episodes, Unresolved, RowStaysReadable
<1>5. episode'.event = e /\ episode'.attempt = "resolved"
  BY <1>1, <1>3 DEF Touched, Episodes
<1> QED
  BY <1>2, <1>4, <1>5 DEF RowInv, EpisodeTypeOK

LEMMA ResolveStep ==
  ASSUME IInv, NEW e \in Events, episode.event = e, ResolveAttempt(e),
         episode.source # "none" => episode.terminal = "none"
  PROVE  IInv'
<1>1. RowInv' /\ episode'.event = e /\ episode'.attempt = "resolved"
  BY ResolveRow DEF IInv
<1>2. /\ settled' = settled \cup {e} /\ resolution' = resolution
      /\ started' = started /\ born' = born
  BY DEF ResolveAttempt
<1>3. Ledger /\ e \in born
  BY EpisodeAssumption DEF IInv, Ledger, Births
<1>4. DecisionsSettle' /\ ReplayIsEarned'
  BY <1>2, <1>3 DEF Ledger, DecisionsSettle, ReplayIsEarned
<1>5. Ledger'
  BY <1>1, <1>2, <1>3, <1>4, ResolvedLedger
<1> QED
  BY <1>1, <1>5 DEF IInv

\* The operator's decision is recorded with the attempt it resolves.
LEMMA DecisionRow ==
  ASSUME RowInv, NEW e \in Events, NEW t, NEW c,
         NEW outcome \in {"safe_to_retry", "mutation_confirmed", "resolved_no_retry"},
         ResolveConsumerManualRecovery(e, t, c, outcome)
  PROVE  /\ RowInv'
         /\ episode.event = e /\ episode'.event = e /\ episode'.attempt = "resolved"
         /\ \A f \in Events \ {e} : resolution'[f] = resolution[f]
         /\ resolution[e].outcome = "none" /\ resolution'[e].outcome = outcome
         /\ resolution'[e].replay = resolution[e].replay
<1>1. /\ episode \in Episodes /\ RowStaysReadable
      /\ resolution \in [Events -> Resolutions]
      /\ episode.event = e /\ episode.attempt = "manual_recovery_required"
  BY DEF RowInv, EpisodeTypeOK, ResolveConsumerManualRecovery, Published, Exists
<1>2. /\ episode' = [Touched EXCEPT !.attempt = "resolved"]
      /\ settled' = settled \cup {e} /\ started' = started /\ born' = born
      /\ resolution[e].outcome = "none"
  BY DEF ResolveConsumerManualRecovery
<1>3. resolution' = [resolution EXCEPT ![e] = [resolution[e] EXCEPT !.outcome = outcome,
                                                                    !.audit = "pending"]]
  BY <1>1 DEF ResolveConsumerManualRecovery
<1>4. episode' \in Episodes /\ RowStaysReadable'
  BY <1>1, <1>2 DEF Touched, Episodes, Unresolved, RowStaysReadable
<1>5. episode'.event = e /\ episode'.attempt = "resolved"
  BY <1>1, <1>2 DEF Touched, Episodes
<1>6. resolution' \in [Events -> Resolutions]
  BY <1>1, <1>3 DEF Resolutions
<1>7. EpisodeTypeOK'
  BY <1>2, <1>4, <1>6 DEF RowInv, EpisodeTypeOK
<1>8. \A f \in Events \ {e} : resolution'[f] = resolution[f]
  BY <1>1, <1>3
<1>9. resolution'[e].outcome = outcome /\ resolution'[e].replay = resolution[e].replay
  BY <1>1, <1>3 DEF Resolutions
<1> QED
  BY <1>1, <1>2, <1>4, <1>5, <1>7, <1>8, <1>9 DEF RowInv

LEMMA DecisionStep ==
  ASSUME IInv, NEW e \in Events, NEW t \in Tokens, NEW c \in Claims,
         NEW outcome \in {"safe_to_retry", "mutation_confirmed", "resolved_no_retry"},
         ResolveConsumerManualRecovery(e, t, c, outcome)
  PROVE  IInv'
<1>1. /\ RowInv'
      /\ episode.event = e /\ episode'.event = e /\ episode'.attempt = "resolved"
      /\ \A f \in Events \ {e} : resolution'[f] = resolution[f]
      /\ resolution[e].outcome = "none" /\ resolution'[e].outcome = outcome
      /\ resolution'[e].replay = resolution[e].replay
  BY DecisionRow DEF IInv
<1>2. Ledger /\ e \in born
  BY <1>1, EpisodeAssumption DEF IInv, Ledger, Births
<1>3. settled' = settled \cup {e} /\ started' = started /\ born' = born
  BY DEF ResolveConsumerManualRecovery
<1>4. resolution[e].replay = None
  BY <1>1, <1>2 DEF Ledger, ReplayIsEarned
<1>5. DecisionsSettle'
  BY <1>1, <1>2, <1>3 DEF Ledger, DecisionsSettle
<1>6. ReplayIsEarned'
  BY <1>1, <1>2, <1>3, <1>4 DEF Ledger, ReplayIsEarned
<1>7. Ledger'
  BY <1>1, <1>2, <1>3, <1>5, <1>6, ResolvedLedger
<1> QED
  BY <1>1, <1>7 DEF IInv

LEMMA DeliveredRow ==
  ASSUME RowInv, NEW e \in Events, ResolutionAuditDelivered(e)
  PROVE  /\ RowInv'
         /\ \A f \in Events :
              /\ resolution'[f].outcome = resolution[f].outcome
              /\ resolution'[f].replay = resolution[f].replay
              /\ resolution[f].audit = "delivered" => resolution'[f].audit = "delivered"
<1>1. /\ resolution \in [Events -> Resolutions]
      /\ episode' = episode /\ started' = started /\ settled' = settled /\ born' = born
  BY DEF RowInv, EpisodeTypeOK, ResolutionAuditDelivered
<1>2. resolution' = [resolution EXCEPT ![e] = [resolution[e] EXCEPT !.audit = "delivered"]]
  BY <1>1 DEF ResolutionAuditDelivered
<1>3. resolution' \in [Events -> Resolutions]
  BY <1>1, <1>2 DEF Resolutions
<1>4. \A f \in Events : /\ resolution'[f].outcome = resolution[f].outcome
                        /\ resolution'[f].replay = resolution[f].replay
                        /\ resolution[f].audit = "delivered" => resolution'[f].audit = "delivered"
  BY <1>1, <1>2 DEF Resolutions
<1> QED
  BY <1>1, <1>3, <1>4 DEF RowInv, EpisodeTypeOK, RowStaysReadable

LEMMA DeliveredStep ==
  ASSUME IInv, NEW e \in Events, ResolutionAuditDelivered(e)
  PROVE  IInv'
<1>1. /\ Ledger
      /\ episode' = episode /\ started' = started /\ settled' = settled /\ born' = born
  BY DEF IInv, ResolutionAuditDelivered
<1>2. /\ RowInv'
      /\ \A f \in Events :
           /\ resolution'[f].outcome = resolution[f].outcome
           /\ resolution'[f].replay = resolution[f].replay
           /\ resolution[f].audit = "delivered" => resolution'[f].audit = "delivered"
  BY DeliveredRow DEF IInv
<1>3. Births' /\ AttemptTells' /\ OneMutationPerEvent' /\ UnsettledMutationIsKept'
  BY <1>1 DEF Ledger, Births, AttemptTells, OneMutationPerEvent, UnsettledMutationIsKept
<1>4. DecisionsSettle' /\ ReplayIsEarned'
  BY <1>1, <1>2 DEF Ledger, DecisionsSettle, ReplayIsEarned
<1> QED
  BY <1>2, <1>3, <1>4 DEF IInv, Ledger

\* While no attempt is unresolved, every mutation on record is settled.
LEMMA AllSettled ==
  ASSUME IInv, episode.attempt \notin Unresolved
  PROVE  \A p \in started : p[1] \in settled
BY DEF IInv, Ledger, UnsettledMutationIsKept

\* The ledger has never heard of a new row's event.
LEMMA BirthLedger ==
  ASSUME IInv, NEW f \in Events \ born, episode.attempt \notin Unresolved,
         episode'.event = f, episode'.attempt = "none", born' = born \cup {f},
         UNCHANGED <<started, settled>>, DecisionsSettle', ReplayIsEarned'
  PROVE  Ledger'
<1>1. Ledger
  BY DEF IInv
<1>2. Births'
  BY <1>1, EpisodeAssumption DEF Ledger, Births
<1>3. AttemptTells' /\ OneMutationPerEvent'
  BY <1>1 DEF Ledger, Births, AttemptTells, OneMutationPerEvent
<1>4. UnsettledMutationIsKept'
  BY AllSettled DEF UnsettledMutationIsKept
<1> QED
  BY <1>2, <1>3, <1>4 DEF Ledger

\* Any id makes a good row, new or old.
LEMMA CreateRow ==
  ASSUME RowInv, NEW e \in Events, Create(e)
  PROVE  RowInv' /\ episode'.event = e /\ episode'.attempt = "none"
<1>1. /\ episode' \in Episodes /\ RowStaysReadable'
      /\ episode'.event = e /\ episode'.attempt = "none"
  BY FreshRow DEF Create
<1> QED
  BY <1>1 DEF Create, RowInv, EpisodeTypeOK

LEMMA CreateStep ==
  ASSUME IInv, NEW e \in Events \ born, Create(e)
  PROVE  IInv'
<1>1. RowInv' /\ episode'.event = e /\ episode'.attempt = "none"
  BY CreateRow DEF IInv
<1>2. /\ born' = born \cup {e} /\ UNCHANGED <<resolution, started, settled>>
      /\ episode.attempt \notin Unresolved
  BY DEF Create, IInv, Ledger, Births, Unresolved
<1>3. DecisionsSettle' /\ ReplayIsEarned'
  BY <1>2 DEF IInv, Ledger, DecisionsSettle, ReplayIsEarned
<1>4. Ledger'
  BY <1>1, <1>2, <1>3, BirthLedger
<1> QED
  BY <1>1, <1>4 DEF IInv

\* A replay takes the place of a settled row, or of none.
LEMMA ReplayRow ==
  ASSUME RowInv, NEW e \in Events, NEW f \in Events, AuthorizeManualRecoveryReplay(e, f)
  PROVE  /\ RowInv' /\ episode'.event = f /\ episode'.attempt = "none"
         /\ \A g \in Events : /\ resolution'[g].outcome = resolution[g].outcome
                              /\ resolution'[g].audit = resolution[g].audit
                              /\ g # e => resolution'[g].replay = resolution[g].replay
         /\ resolution'[e].replay = f
<1>1. resolution \in [Events -> Resolutions]
  BY DEF RowInv, EpisodeTypeOK
<1>2. episode' = Fresh(f) /\ born' = born \cup {f} /\ UNCHANGED <<started, settled>>
  BY DEF AuthorizeManualRecoveryReplay
<1>3. resolution' = [resolution EXCEPT ![e] = [resolution[e] EXCEPT !.replay = f]]
  BY <1>1 DEF AuthorizeManualRecoveryReplay
<1>4. /\ episode' \in Episodes /\ RowStaysReadable'
      /\ episode'.event = f /\ episode'.attempt = "none"
  BY <1>2, FreshRow
<1>5. resolution' \in [Events -> Resolutions]
  BY <1>1, <1>3 DEF Resolutions
<1>6. EpisodeTypeOK'
  BY <1>2, <1>4, <1>5 DEF RowInv, EpisodeTypeOK
<1>7. /\ \A g \in Events : /\ resolution'[g].outcome = resolution[g].outcome
                           /\ resolution'[g].audit = resolution[g].audit
                           /\ g # e => resolution'[g].replay = resolution[g].replay
      /\ resolution'[e].replay = f
  BY <1>1, <1>3 DEF Resolutions
<1> QED
  BY <1>4, <1>6, <1>7 DEF RowInv

LEMMA ReplayStep ==
  ASSUME IInv, NEW f \in Events \ born, NEW e \in born, AuthorizeManualRecoveryReplay(e, f)
  PROVE  IInv'
<1>1. e \in Events /\ Ledger
  BY DEF IInv, RowInv, EpisodeTypeOK
<1>2. /\ born' = born \cup {f} /\ UNCHANGED <<started, settled>>
      /\ resolution[e].outcome = "safe_to_retry" /\ resolution[e].audit = "delivered"
      /\ \A g \in Events : resolution[g].replay # f
  BY DEF AuthorizeManualRecoveryReplay, Taken
<1>3. /\ RowInv' /\ episode'.event = f /\ episode'.attempt = "none"
      /\ \A g \in Events : /\ resolution'[g].outcome = resolution[g].outcome
                           /\ resolution'[g].audit = resolution[g].audit
                           /\ g # e => resolution'[g].replay = resolution[g].replay
      /\ resolution'[e].replay = f
  BY <1>1, ReplayRow DEF IInv
<1>4. episode.attempt \notin Unresolved
  BY <1>1 DEF AuthorizeManualRecoveryReplay, Ledger, Births, Unresolved
<1>5. DecisionsSettle'
  BY <1>1, <1>2, <1>3 DEF Ledger, DecisionsSettle
<1>6. e \in settled
  BY <1>1, <1>2 DEF Ledger, DecisionsSettle
<1>7. ReplayIsEarned'
  BY <1>1, <1>2, <1>3, <1>6 DEF Ledger, ReplayIsEarned
<1>8. Ledger'
  BY <1>2, <1>3, <1>4, <1>5, <1>7, BirthLedger
<1> QED
  BY <1>3, <1>8 DEF IInv

\* A row is deleted only when its mutation, if there was one, is settled.
LEMMA CloseRow ==
  ASSUME RowInv, NEW e \in Events, Close(e)
  PROVE  /\ RowInv' /\ Quiet /\ episode'.event = None /\ episode'.attempt = "none"
         /\ episode.event = e /\ episode.attempt \notin Unresolved
<1>1. episode' = Fresh(None) /\ Quiet /\ episode.event = e /\ episode.attempt \notin Unresolved
  BY DEF Close, Closable, Exists, Unresolved, Quiet
<1>2. /\ episode' \in Episodes /\ RowStaysReadable'
      /\ episode'.event = None /\ episode'.attempt = "none"
  BY <1>1, FreshRow
<1> QED
  BY <1>1, <1>2 DEF RowInv, EpisodeTypeOK, Quiet

LEMMA CloseStep ==
  ASSUME IInv, NEW e \in Events, Close(e)
  PROVE  IInv'
<1>1. /\ RowInv' /\ episode'.event = None /\ episode'.attempt = "none"
      /\ UNCHANGED <<resolution, started, settled, born>>
      /\ episode.attempt \notin Unresolved
  BY CloseRow DEF IInv, Quiet
<1>2. Births' /\ DecisionsSettle' /\ OneMutationPerEvent' /\ ReplayIsEarned'
  BY <1>1 DEF IInv, Ledger, Births, DecisionsSettle, OneMutationPerEvent, ReplayIsEarned
<1>3. AttemptTells'
  <2>1. \A p \in started : p[1] # None
    BY EpisodeAssumption DEF IInv, RowInv, EpisodeTypeOK
  <2> QED
    BY <1>1, <2>1 DEF AttemptTells
<1>4. UnsettledMutationIsKept'
  BY <1>1, AllSettled DEF UnsettledMutationIsKept
<1> QED
  BY <1>1, <1>2, <1>3, <1>4 DEF IInv, Ledger

-----------------------------------------------------------------------------
(* Every step.                                                             *)

\* A claimant and a leaseholder both bear the row's event and claim.
LEMMA HolderFacts ==
  ASSUME RowInv, NEW e \in Events, NEW t \in Tokens, NEW c \in Claims,
         NEW s \in {"scheduled", "scrape_time"},
         Claimant(e, t, c) \/ Leaseholder(s, e, t, c),
         episode.attempt \in {"reserved", "mutation_started"}
  PROVE  /\ episode.event = e /\ episode.claim = c /\ e # None
         /\ episode.source # "none" => episode.terminal = "none"
<1>1. RowStaysReadable
  BY DEF RowInv
<1>2. episode.event = e /\ episode.claim = c /\ e # None
  BY DEF Claimant, Leaseholder, Published, Exists
<1>3. episode.source # "none" => episode.terminal = "none"
  BY <1>1 DEF RowStaysReadable
<1> QED
  BY <1>2, <1>3

LEMMA AttemptSteps ==
  ASSUME IInv, NEW e \in Events, NEW t \in Tokens, NEW c \in Claims,
         NEW s \in {"scheduled", "scrape_time"},
         Attempt(e, t, c) \/ LeasedAttempt(s, e, t, c)
  PROVE  IInv'
<1> DEFINE holds == Claimant(e, t, c) \/ Leaseholder(s, e, t, c)
<1>1. CASE ClaimConsumerAttempt(e, t, c) \/ ClaimConsumerAttemptLease(s, e, t, c)
  BY <1>1, ClaimSteps, KeptLedger DEF IInv
<1>2. CASE RenewConsumerAttemptLease(s, e, t, c)
  BY <1>2, RenewStep, KeptLedger DEF IInv
<1>3. CASE holds /\ StartMutation(e, c)
  <2>1. episode.attempt \in {"reserved", "mutation_started"}
    BY <1>3 DEF StartMutation, Reserved
  <2>2. /\ episode.event = e /\ episode.claim = c
        /\ episode.source # "none" => episode.terminal = "none"
    BY <1>3, <2>1, HolderFacts DEF IInv
  <2> QED
    BY <1>3, <2>2, StartStep
<1>4. CASE holds /\ RequireManualRecovery
  <2>1. episode.attempt \in {"reserved", "mutation_started"}
    BY <1>4 DEF RequireManualRecovery
  <2>2. episode.event # None
    BY <1>4, <2>1, HolderFacts DEF IInv
  <2> QED
    BY <1>4, <2>2, GiveUpSteps, KeptLedger DEF IInv
<1>5. CASE holds /\ ResolveAttempt(e)
  <2>1. episode.attempt \in {"reserved", "mutation_started"}
    BY <1>5 DEF ResolveAttempt, Resolvable, Reserved
  <2>2. /\ episode.event = e
        /\ episode.source # "none" => episode.terminal = "none"
    BY <1>5, <2>1, HolderFacts DEF IInv
  <2> QED
    BY <1>5, <2>2, ResolveStep
<1> QED
  BY <1>1, <1>2, <1>3, <1>4, <1>5
     DEF Attempt, LeasedAttempt, MarkConsumerMutationStarted, MarkConsumerMutationStartedLease,
         MarkConsumerManualRecoveryRequired, MarkConsumerManualRecoveryRequiredLease,
         MarkConsumerResolved, MarkConsumerResolvedLease

LEMMA StutterKeeps ==
  ASSUME IInv, UNCHANGED episodeVars PROVE IInv'
BY DEF episodeVars, IInv, RowInv, EpisodeTypeOK, RowStaysReadable, Ledger, Births, AttemptTells,
       DecisionsSettle, OneMutationPerEvent, UnsettledMutationIsKept, ReplayIsEarned

LEMMA NextKeeps == IInv /\ [EpisodeNext]_episodeVars => IInv'
<1> SUFFICES ASSUME IInv, [EpisodeNext]_episodeVars PROVE IInv'
  OBVIOUS
<1>1. CASE \E e \in Events \ born :
             \/ Create(e)
             \/ \E f \in born : AuthorizeManualRecoveryReplay(f, e)
  BY <1>1, CreateStep, ReplayStep
<1>2. CASE \E e \in Events :
             \/ CancelPublication(e)
             \/ \E t \in Tokens : Publish(e, t)
  <2>1. PICK e \in Events : CancelPublication(e) \/ \E t \in Tokens : Publish(e, t)
    BY <1>2
  <2>2. CASE \E t \in Tokens : Publish(e, t)
    BY <2>2, PublicationSteps, KeptLedger DEF IInv
  <2>3. CASE CancelPublication(e)
    BY <2>3, CancelStep, KeptLedger DEF IInv
  <2> QED
    BY <2>1, <2>2, <2>3
<1>3. CASE \E e \in Events : ReconcileExpiredConsumerAttemptLease(e)
  <2>1. episode.event # None
    BY <1>3 DEF ReconcileExpiredConsumerAttemptLease, Exists
  <2> QED
    BY <1>3, <2>1, GiveUpSteps, KeptLedger DEF IInv
<1>4. CASE \E e \in Events : MarkExpiredAudit(e) \/ MarkRestoredAudit(e)
  BY <1>4, AuditSteps, KeptLedger DEF IInv
<1>5. CASE \E e \in Events : Close(e) \/ ResolutionAuditDelivered(e)
  BY <1>5, CloseStep, DeliveredStep
<1>6. CASE \E e \in Events, t \in Tokens, reason \in {"job_missing", "job_failed"} :
             ReconcileTerminalFailure(e, t, reason)
  BY <1>6, TerminalStep, KeptLedger DEF IInv
<1>7. CASE \E e \in Events, t \in Tokens, c \in Claims : Attempt(e, t, c)
  BY <1>7, AttemptSteps
<1>8. CASE \E e \in Events, t \in Tokens, c \in Claims, s \in {"scheduled", "scrape_time"} :
             LeasedAttempt(s, e, t, c)
  BY <1>8, AttemptSteps
<1>9. CASE \E e \in Events, t \in Tokens, c \in Claims,
              outcome \in {"safe_to_retry", "mutation_confirmed", "resolved_no_retry"} :
             ResolveConsumerManualRecovery(e, t, c, outcome)
  BY <1>9, DecisionStep
<1>10. CASE Age
  BY <1>10, AgeStep, KeptLedger DEF IInv
<1>11. CASE UNCHANGED episodeVars
  BY <1>11, StutterKeeps
<1> QED
  BY <1>1, <1>2, <1>3, <1>4, <1>5, <1>6, <1>7, <1>8, <1>9, <1>10, <1>11 DEF EpisodeNext

LEMMA Invariance == EpisodeSpec => []IInv
<1> QED
  BY InitEstablishes, NextKeeps, PTL DEF EpisodeSpec

-----------------------------------------------------------------------------
(* Theorems.                                                               *)

\* Row, resolutions and histories keep their types, for every number of events,
\* tokens and claims.
THEOREM TypeCorrect == EpisodeSpec => []EpisodeTypeOK
<1>1. IInv => EpisodeTypeOK
  BY DEF IInv, RowInv
<1> QED
  BY <1>1, Invariance, PTL

\* No interleaving of the repository's statements makes a row that mapRow rejects
\* or that a CHECK of the table would refuse.
THEOREM RowsAreReadable == EpisodeSpec => []RowStaysReadable
<1>1. IInv => RowStaysReadable
  BY DEF IInv, RowInv
<1> QED
  BY <1>1, Invariance, PTL

\* One claim at most is ever told that it may log in for an expired event.
THEOREM OneMutation == EpisodeSpec => []OneMutationPerEvent
<1>1. IInv => OneMutationPerEvent
  BY DEF IInv, Ledger
<1> QED
  BY <1>1, Invariance, PTL

\* A login that may have happened stays on record, under its claim, until settled.
THEOREM MutationsAreKept == EpisodeSpec => []UnsettledMutationIsKept
<1>1. IInv => UnsettledMutationIsKept
  BY DEF IInv, Ledger
<1> QED
  BY <1>1, Invariance, PTL

\* A replay follows an audited decision of its own that nothing was mutated.
THEOREM ReplaysAreEarned == EpisodeSpec => []ReplayIsEarned
<1>1. IInv => ReplayIsEarned
  BY DEF IInv, Ledger
<1> QED
  BY <1>1, Invariance, PTL

\* Any statement, for callers who may give a row an id that it has had before.
Statement ==
  \/ EpisodeNext
  \/ \E e \in Events : Create(e) \/ \E f \in Events : AuthorizeManualRecoveryReplay(f, e)

\* Only the queue's verdict writes the column, and it spares a running lease.
LEMMA VerdictStep ==
  ASSUME RowInv, [Statement]_episodeVars,
         episode'.event = episode.event, episode'.terminal # episode.terminal
  PROVE  ~LeaseActive /\ episode'.attempt # "mutation_started"
<1>1. episode \in Episodes
  BY DEF RowInv, EpisodeTypeOK
<1>2. CASE \E e \in Events, t \in Tokens, reason \in {"job_missing", "job_failed"} :
             ReconcileTerminalFailure(e, t, reason)
  <2>1. PICK e \in Events, t \in Tokens, reason \in {"job_missing", "job_failed"} :
          ReconcileTerminalFailure(e, t, reason)
    BY <1>2
  <2>2. ~LeaseActive
    BY <2>1 DEF ReconcileTerminalFailure, Terminable
  <2>3. CASE episode.attempt = "mutation_started"
    <3>1. episode' = [Attempted("manual_recovery_required") EXCEPT !.terminal = reason]
      BY <2>1, <2>3 DEF ReconcileTerminalFailure
    <3>2. Attempted("manual_recovery_required")
            = [Touched EXCEPT !.attempt = "manual_recovery_required", !.lease = None]
      BY DEF Attempted
    <3>3. episode'.attempt = "manual_recovery_required"
      BY <1>1, <3>1, <3>2 DEF Touched, Episodes
    <3> QED
      BY <2>2, <3>3
  <2>4. CASE episode.attempt # "mutation_started"
    <3>1. \/ episode' = [Attempted("manual_recovery_required") EXCEPT !.terminal = reason]
          \/ episode' = [Touched EXCEPT !.terminal = reason]
      BY <2>1 DEF ReconcileTerminalFailure
    <3>2. Attempted("manual_recovery_required")
            = [Touched EXCEPT !.attempt = "manual_recovery_required", !.lease = None]
      BY DEF Attempted
    <3>3. episode'.attempt # "mutation_started"
      BY <1>1, <2>4, <3>1, <3>2 DEF Touched, Episodes
    <3> QED
      BY <2>2, <3>3
  <2> QED
    BY <2>3, <2>4
<1>3. CASE \E e \in Events :
             \/ Create(e)
             \/ \E f \in Events : AuthorizeManualRecoveryReplay(f, e)
  <2>1. episode'.event # episode.event
    BY <1>3, EpisodeAssumption
       DEF Create, AuthorizeManualRecoveryReplay, Exists, Fresh
  <2> QED
    BY <2>1
<1>4. CASE \E e \in Events : Close(e)
  <2>1. episode'.event # episode.event
    BY <1>4, EpisodeAssumption DEF Close, Closable, Exists, Fresh
  <2> QED
    BY <2>1
<1>5. CASE \E e \in Events :
             \/ CancelPublication(e) \/ MarkExpiredAudit(e) \/ MarkRestoredAudit(e)
             \/ \E t \in Tokens : Publish(e, t)
  <2>1. episode'.terminal = episode.terminal
    BY <1>1, <1>5
       DEF CancelPublication, MarkExpiredAudit, MarkRestoredAudit, Publish, ClaimPublication,
           MarkPublicationPublished, MarkPublicationFailureReported, Touched, Episodes
  <2> QED
    BY <2>1
<1>6. CASE \/ \E state \in {"mutation_started", "manual_recovery_required", "resolved"} :
                 episode' = Attempted(state)
           \/ UNCHANGED episode
  <2>1. \A state : Attempted(state).terminal = episode.terminal
    BY <1>1 DEF Attempted, Touched, Episodes
  <2>2. episode'.terminal = episode.terminal
    BY <1>6, <2>1
  <2> QED
    BY <2>2
<1>7. CASE \E e \in Events, t \in Tokens, c \in Claims, s \in {"scheduled", "scrape_time"} :
             \/ ClaimConsumerAttempt(e, t, c) \/ ClaimConsumerAttemptLease(s, e, t, c)
             \/ RenewConsumerAttemptLease(s, e, t, c)
  <2>1. episode'.terminal = episode.terminal
    BY <1>1, <1>7 DEF ClaimConsumerAttempt, ClaimConsumerAttemptLease,
                      RenewConsumerAttemptLease, Touched, Episodes
  <2> QED
    BY <2>1
<1>8. CASE \E e \in Events, t \in Tokens, c \in Claims,
              outcome \in {"safe_to_retry", "mutation_confirmed", "resolved_no_retry"} :
             ResolveConsumerManualRecovery(e, t, c, outcome)
  <2>1. episode'.terminal = episode.terminal
    BY <1>1, <1>8 DEF ResolveConsumerManualRecovery, Touched, Episodes
  <2> QED
    BY <2>1
<1>9. CASE Age
  <2>1. episode'.terminal = episode.terminal
    BY <1>1, <1>9 DEF Age, Episodes
  <2> QED
    BY <2>1
<1>10. ASSUME NEW e \in Events, NEW t \in Tokens, NEW c \in Claims,
              NEW s \in {"scheduled", "scrape_time"},
              Attempt(e, t, c) \/ LeasedAttempt(s, e, t, c)
       PROVE  \/ ClaimConsumerAttempt(e, t, c) \/ ClaimConsumerAttemptLease(s, e, t, c)
              \/ RenewConsumerAttemptLease(s, e, t, c)
              \/ episode' = Attempted("mutation_started")
              \/ episode' = Attempted("manual_recovery_required")
              \/ episode' = Attempted("resolved")
  BY <1>10
     DEF Attempt, LeasedAttempt, MarkConsumerMutationStarted, MarkConsumerMutationStartedLease,
         MarkConsumerManualRecoveryRequired, MarkConsumerManualRecoveryRequiredLease,
         MarkConsumerResolved, MarkConsumerResolvedLease, StartMutation, RequireManualRecovery,
         ResolveAttempt
<1>11. CASE \E e \in Events, t \in Tokens, c \in Claims :
              \/ Attempt(e, t, c)
              \/ \E s \in {"scheduled", "scrape_time"} : LeasedAttempt(s, e, t, c)
  <2>1. PICK e \in Events, t \in Tokens, c \in Claims, s \in {"scheduled", "scrape_time"} :
          Attempt(e, t, c) \/ LeasedAttempt(s, e, t, c)
    BY <1>11
  <2> QED
    BY <1>6, <1>7, <1>10, <2>1
<1>12. CASE \E e \in Events : \/ ReconcileExpiredConsumerAttemptLease(e)
                              \/ ResolutionAuditDelivered(e)
  BY <1>6, <1>12 DEF ReconcileExpiredConsumerAttemptLease, ResolutionAuditDelivered
<1>13. CASE UNCHANGED episodeVars
  BY <1>6, <1>13 DEF episodeVars
<1>14. CASE \E e \in Events \ born :
              \/ Create(e)
              \/ \E f \in born : AuthorizeManualRecoveryReplay(f, e)
  BY <1>3, <1>14 DEF RowInv, EpisodeTypeOK
<1> QED
  BY <1>2, <1>3, <1>4, <1>5, <1>8, <1>9, <1>11, <1>12, <1>13, <1>14 DEF EpisodeNext, Statement

\* The queue's verdict never interrupts a login whose lease is running, and leaves
\* no login in progress behind it.
THEOREM VerdictsSpare == EpisodeSpec => VerdictSparesLeasedLogin
<1>1. IInv /\ [EpisodeNext]_episodeVars =>
        [episode'.event = episode.event /\ episode'.terminal # episode.terminal
           => ~LeaseActive /\ episode'.attempt # "mutation_started"]_episodeVars
  BY VerdictStep DEF IInv, Statement
<1> QED
  BY <1>1, Invariance, PTL DEF EpisodeSpec, VerdictSparesLeasedLogin
-----------------------------------------------------------------------------
(* The repository the tests run on (EpisodeMemory) follows the database's. *)

Columns ==
  {"event", "expired", "restored", "publication", "token", "reported", "claim", "attempt",
   "source", "lease", "terminal"}

\* An operation of the tests' repository makes the row of this step; updatedAt,
\* which not every operation sets there, is left out.
AsStepped(row) == \A column \in Columns : row[column] = episode'[column]
Makes(rows) == \E row \in rows : AsStepped(row)

FollowsBirthsAndEnds(e) ==
  /\ Create(e) => Makes(MemGetOrCreate(e))
  /\ CancelPublication(e) => Makes(MemCancelPublication(e))
  /\ ReconcileExpiredConsumerAttemptLease(e) => Makes(MemReconcileExpiredConsumerAttemptLease(e))
  /\ MarkExpiredAudit(e) => Makes(MemMarkAuditDelivered(e, "expired"))
  /\ MarkRestoredAudit(e) => Makes(MemMarkAuditDelivered(e, "restored"))
  /\ Close(e) => Makes(MemClose(e))
  /\ \A f \in Events :
       AuthorizeManualRecoveryReplay(e, f) => Makes(MemAuthorizeManualRecoveryReplay(e, f))

FollowsPublications(e, t) ==
  /\ ClaimPublication(e, t) => Makes(MemClaimPublication(e, t))
  /\ MarkPublicationPublished(e, t) => Makes(MemMarkPublicationPublished(e, t))
  /\ MarkPublicationFailureReported(e, t) => Makes(MemMarkPublicationFailureReported(e, t))
  /\ \A reason \in {"job_missing", "job_failed"} :
       ReconcileTerminalFailure(e, t, reason) => Makes(MemReconcileTerminalFailure(e, t, reason))

FollowsAttempts(e, t, c) ==
  /\ ClaimConsumerAttempt(e, t, c) => Makes(MemClaimConsumerAttempt(e, t, c))
  /\ MarkConsumerMutationStarted(e, t, c)
       => Makes(Transit(e, MemHolds(t, c), "reserved", "mutation_started"))
  /\ MarkConsumerManualRecoveryRequired(e, t, c)
       => Makes(Transit(e, MemHolds(t, c), "mutation_started", "manual_recovery_required"))
  /\ MarkConsumerResolved(e, t, c) => Makes(MemResolve(e, MemHolds(t, c)))
  /\ \A outcome \in {"safe_to_retry", "mutation_confirmed", "resolved_no_retry"} :
       ResolveConsumerManualRecovery(e, t, c, outcome)
         => Makes(MemResolveConsumerManualRecovery(e, t, c))

FollowsLeases(s, e, t, c) ==
  LET owner == HasActiveLeaseOwner(s, t, c) IN
  /\ ClaimConsumerAttemptLease(s, e, t, c) => Makes(MemClaimConsumerAttemptLease(s, e, t, c))
  /\ RenewConsumerAttemptLease(s, e, t, c) => Makes(MemRenewConsumerAttemptLease(s, e, t, c))
  /\ MarkConsumerMutationStartedLease(s, e, t, c)
       => Makes(Transit(e, owner, "reserved", "mutation_started"))
  /\ MarkConsumerManualRecoveryRequiredLease(s, e, t, c)
       => Makes(Transit(e, owner, "mutation_started", "manual_recovery_required"))
  /\ MarkConsumerResolvedLease(s, e, t, c) => Makes(MemResolve(e, owner))

\* Whatever the database accepts, the repository of the tests accepts, and makes
\* the same row of it; of a row a replay made, all but the leases.
Follows ==
  \A e \in Events :
    /\ FollowsBirthsAndEnds(e)
    /\ \A t \in Tokens :
         /\ FollowsPublications(e, t)
         /\ \A c \in Claims :
              /\ FollowsAttempts(e, t, c)
              /\ ~Replayed => \A s \in {"scheduled", "scrape_time"} : FollowsLeases(s, e, t, c)

\* What the database can read back, updatePublication lets through.
LEMMA ReadableParses ==
  ASSUME RowInv', NEW row, AsStepped(row) PROVE Parses(row)
<1>1. episode' \in Episodes /\ RowStaysReadable'
  BY DEF RowInv, EpisodeTypeOK
<1>2. /\ row.publication = episode'.publication /\ row.token = episode'.token
      /\ row.attempt = episode'.attempt /\ row.source = episode'.source
      /\ row.lease = episode'.lease /\ row.terminal = episode'.terminal
  BY DEF AsStepped, Columns
<1> QED
  BY <1>1, <1>2 DEF RowStaysReadable, Parses, Episodes, Unresolved

LEMMA Updated ==
  ASSUME RowInv', NEW e, Exists(e), NEW may \in BOOLEAN, may,
         NEW row \in Episodes, AsStepped(row)
  PROVE  Makes(UpdatePublication(e, may, row))
<1>1. Parses(row)
  BY ReadableParses
<1>2. AsStepped([row EXCEPT !.overdue = FALSE])
  BY DEF AsStepped, Columns, Episodes
<1>3. [row EXCEPT !.overdue = FALSE] \in UpdatePublication(e, may, row)
  BY <1>1 DEF UpdatePublication
<1> QED
  BY <1>2, <1>3 DEF Makes

LEMMA PublicationsFollow ==
  ASSUME RowInv, RowInv', NEW e \in Events, NEW t \in Tokens PROVE FollowsPublications(e, t)
<1>0. episode \in Episodes
  BY DEF RowInv, EpisodeTypeOK
<1>1. ASSUME ClaimPublication(e, t) PROVE Makes(MemClaimPublication(e, t))
  <2> DEFINE row == [episode EXCEPT !.publication = "publishing", !.token = t, !.reported = FALSE]
  <2>1. row \in Episodes /\ AsStepped(row)
    BY <1>0, <1>1 DEF ClaimPublication, Touched, AsStepped, Columns, Episodes
  <2>2. MayClaimPublication(e, t)
    BY <1>1 DEF ClaimPublication
  <2> QED
    BY <2>1, <2>2, Updated DEF MayClaimPublication, MemClaimPublication
<1>2. ASSUME MarkPublicationPublished(e, t) PROVE Makes(MemMarkPublicationPublished(e, t))
  <2> DEFINE row == [episode EXCEPT !.publication = "published", !.reported = FALSE]
  <2>1. row \in Episodes /\ AsStepped(row)
    BY <1>0, <1>2 DEF MarkPublicationPublished, Touched, AsStepped, Columns, Episodes
  <2> QED
    BY <1>2, <2>1, Updated
       DEF MarkPublicationPublished, Publishing, MemMarkPublicationPublished
<1>3. ASSUME MarkPublicationFailureReported(e, t)
      PROVE  Makes(MemMarkPublicationFailureReported(e, t))
  <2> DEFINE row == [episode EXCEPT !.reported = TRUE]
  <2>1. row \in Episodes /\ AsStepped(row)
    BY <1>0, <1>3 DEF MarkPublicationFailureReported, Touched, AsStepped, Columns, Episodes
  <2> QED
    BY <1>3, <2>1, Updated
       DEF MarkPublicationFailureReported, Publishing, MemMarkPublicationFailureReported
<1>4. ASSUME NEW reason \in {"job_missing", "job_failed"}, ReconcileTerminalFailure(e, t, reason)
      PROVE  Makes(MemReconcileTerminalFailure(e, t, reason))
  <2> DEFINE uncertain == \/ episode.attempt \in Unresolved
                          \/ episode.source # "none" /\ episode.attempt = "reserved"
             row == [episode EXCEPT
                       !.attempt = IF uncertain THEN "manual_recovery_required" ELSE @,
                       !.lease = IF uncertain THEN None ELSE @,
                       !.terminal = reason, !.overdue = FALSE]
  <2>1. /\ Exists(e) /\ episode.publication = "published" /\ episode.token = t
        /\ ~episode.restored /\ episode.attempt # "resolved"
        /\ episode.terminal \notin {"job_failed", reason} /\ ~LeaseActive
    BY <1>0, <1>4 DEF ReconcileTerminalFailure, Terminable, Published, Episodes
  <2>2. row \in MemReconcileTerminalFailure(e, t, reason)
    BY <2>1 DEF MemReconcileTerminalFailure
  <2>3. CASE episode.attempt = "mutation_started"
             \/ (episode.source # "none" /\ episode.attempt = "reserved")
    <3>1. episode' = [[Touched EXCEPT !.attempt = "manual_recovery_required",
                                      !.lease = None] EXCEPT !.terminal = reason]
      BY <1>4, <2>3 DEF ReconcileTerminalFailure, Attempted
    <3>2. AsStepped(row)
      BY <1>0, <2>3, <3>1 DEF Touched, AsStepped, Columns, Episodes, Unresolved
    <3> QED
      BY <2>2, <3>2 DEF Makes
  <2>4. CASE ~(episode.attempt = "mutation_started"
               \/ (episode.source # "none" /\ episode.attempt = "reserved"))
    <3>1. episode' = [Touched EXCEPT !.terminal = reason]
      BY <1>4, <2>4 DEF ReconcileTerminalFailure
    <3>2. episode.attempt = "manual_recovery_required" => episode.lease = None
      BY <1>0 DEF RowInv, RowStaysReadable, Episodes
    <3>3. AsStepped(row)
      BY <1>0, <2>4, <3>1, <3>2 DEF Touched, AsStepped, Columns, Episodes, Unresolved
    <3> QED
      BY <2>2, <3>3 DEF Makes
  <2> QED
    BY <2>3, <2>4
<1> QED
  BY <1>1, <1>2, <1>3, <1>4 DEF FollowsPublications

LEMMA BirthsAndEndsFollow ==
  ASSUME RowInv, RowInv', NEW e \in Events PROVE FollowsBirthsAndEnds(e)
<1>0. episode \in Episodes
  BY DEF RowInv, EpisodeTypeOK
<1>1. ASSUME NEW f, episode' = Fresh(f) PROVE Makes({Fresh(f)})
  BY <1>1 DEF Makes, AsStepped
<1>2. Create(e) => Makes(MemGetOrCreate(e))
  BY <1>1 DEF Create, MemGetOrCreate
<1>3. Close(e) => Makes(MemClose(e))
  BY <1>1 DEF Close, Closable, MemClose
<1>4. ASSUME NEW f \in Events, AuthorizeManualRecoveryReplay(e, f)
      PROVE  Makes(MemAuthorizeManualRecoveryReplay(e, f))
  <2>1. /\ resolution[e].outcome = "safe_to_retry" /\ resolution[e].audit = "delivered"
        /\ resolution[e].replay = None /\ ~Taken(f) /\ e # f /\ episode' = Fresh(f)
        /\ episode.event # None =>
             Exists(e) /\ episode.publication = "published" /\ episode.attempt = "resolved"
    BY <1>4 DEF AuthorizeManualRecoveryReplay
  <2>2. \A g \in Events : /\ resolution[g].outcome # "none" => g # f
                          /\ resolution[g].replay # f
    BY <2>1 DEF Taken
  <2> QED
    BY <1>1, <2>1, <2>2 DEF MemAuthorizeManualRecoveryReplay
<1>5. ASSUME CancelPublication(e) PROVE Makes(MemCancelPublication(e))
  <2> DEFINE row == [episode EXCEPT !.publication = "cancelled", !.token = None, !.reported = FALSE]
  <2>1. row \in Episodes /\ AsStepped(row)
    BY <1>0, <1>5 DEF CancelPublication, Touched, AsStepped, Columns, Episodes
  <2> QED
    BY <1>5, <2>1, Updated DEF CancelPublication, Cancellable, MemCancelPublication
<1>6. ASSUME ReconcileExpiredConsumerAttemptLease(e)
      PROVE  Makes(MemReconcileExpiredConsumerAttemptLease(e))
  <2> DEFINE row == [episode EXCEPT !.attempt = "manual_recovery_required", !.lease = None]
  <2>1. row \in Episodes /\ AsStepped(row)
    BY <1>0, <1>6 DEF ReconcileExpiredConsumerAttemptLease, Attempted, Touched, AsStepped,
                      Columns, Episodes, Unresolved
  <2> QED
    BY <1>6, <2>1, Updated
       DEF ReconcileExpiredConsumerAttemptLease, MemReconcileExpiredConsumerAttemptLease
<1>7. ASSUME MarkExpiredAudit(e) PROVE Makes(MemMarkAuditDelivered(e, "expired"))
  <2>1. AsStepped([episode EXCEPT !["expired"] = TRUE])
    BY <1>0, <1>7 DEF MarkExpiredAudit, Touched, AsStepped, Columns, Episodes
  <2>2. [episode EXCEPT !["expired"] = TRUE] \in MemMarkAuditDelivered(e, "expired")
    BY <1>7 DEF MarkExpiredAudit, MemMarkAuditDelivered
  <2> QED
    BY <2>1, <2>2 DEF Makes
<1>8. ASSUME MarkRestoredAudit(e) PROVE Makes(MemMarkAuditDelivered(e, "restored"))
  <2>1. CASE episode.attempt = "reserved"
    <3> DEFINE row == [episode EXCEPT !.restored = TRUE, !.claim = None, !.attempt = "none",
                                      !.source = "none", !.lease = None]
    <3>1. episode' = [[Touched EXCEPT !.claim = None, !.attempt = "none", !.source = "none",
                                      !.lease = None] EXCEPT !.restored = TRUE]
      BY <1>8, <2>1 DEF MarkRestoredAudit
    <3>2. AsStepped(row)
      BY <1>0, <3>1 DEF Touched, AsStepped, Columns, Episodes
    <3>3. row \in MemMarkAuditDelivered(e, "restored")
      BY <1>8, <2>1 DEF MarkRestoredAudit, MemMarkAuditDelivered
    <3> QED
      BY <3>2, <3>3 DEF Makes
  <2>2. CASE episode.attempt # "reserved"
    <3>1. AsStepped([episode EXCEPT !["restored"] = TRUE])
      BY <1>0, <1>8, <2>2 DEF MarkRestoredAudit, Touched, AsStepped, Columns, Episodes
    <3>2. [episode EXCEPT !["restored"] = TRUE] \in MemMarkAuditDelivered(e, "restored")
      BY <1>8, <2>2 DEF MarkRestoredAudit, MemMarkAuditDelivered
    <3> QED
      BY <3>1, <3>2 DEF Makes
  <2> QED
    BY <2>1, <2>2
<1> QED
  BY <1>2, <1>3, <1>4, <1>5, <1>6, <1>7, <1>8 DEF FollowsBirthsAndEnds

\* A transition of the attempt, by whoever may make it.
LEMMA TransitionsFollow ==
  ASSUME RowInv, RowInv', NEW e, Exists(e), NEW may \in BOOLEAN, may
  PROVE  /\ Reserved /\ episode' = Attempted("mutation_started")
              => Makes(Transit(e, may, "reserved", "mutation_started"))
         /\ RequireManualRecovery
              => Makes(Transit(e, may, "mutation_started", "manual_recovery_required"))
         /\ ResolveAttempt(e) => Makes(MemResolve(e, may))
<1>0. episode \in Episodes
  BY DEF RowInv, EpisodeTypeOK
<1>1. ASSUME Reserved, episode' = Attempted("mutation_started")
      PROVE  Makes(Transit(e, may, "reserved", "mutation_started"))
  <2> DEFINE row == [episode EXCEPT !.attempt = "mutation_started",
               !.lease = IF "mutation_started" = "manual_recovery_required" THEN None ELSE @]
             ok == /\ may /\ episode.attempt = "reserved"
                   /\ "reserved" = "reserved" => ~episode.restored
  <2>1. row \in Episodes /\ AsStepped(row)
    BY <1>0, <1>1 DEF Attempted, Touched, AsStepped, Columns, Episodes, Unresolved
  <2>2. ok \in BOOLEAN /\ ok
    BY <1>1 DEF Reserved
  <2>3. Makes(UpdatePublication(e, ok, row))
    BY <2>1, <2>2, Updated
  <2> QED
    BY <2>3 DEF Transit
<1>2. ASSUME RequireManualRecovery
      PROVE  Makes(Transit(e, may, "mutation_started", "manual_recovery_required"))
  <2> DEFINE row == [episode EXCEPT !.attempt = "manual_recovery_required",
               !.lease = IF "manual_recovery_required" = "manual_recovery_required"
                         THEN None ELSE @]
             ok == /\ may /\ episode.attempt = "mutation_started"
                   /\ "mutation_started" = "reserved" => ~episode.restored
  <2>1. row \in Episodes /\ AsStepped(row)
    BY <1>0, <1>2 DEF RequireManualRecovery, Attempted, Touched, AsStepped, Columns, Episodes,
                      Unresolved
  <2>2. ok \in BOOLEAN /\ ok
    BY <1>2 DEF RequireManualRecovery
  <2>3. Makes(UpdatePublication(e, ok, row))
    BY <2>1, <2>2, Updated
  <2> QED
    BY <2>3 DEF Transit
<1>3. ASSUME ResolveAttempt(e) PROVE Makes(MemResolve(e, may))
  <2> DEFINE row == [episode EXCEPT !.attempt = "resolved", !.lease = None]
  <2>1. row \in Episodes /\ AsStepped(row)
    BY <1>0, <1>3 DEF ResolveAttempt, Attempted, Touched, AsStepped, Columns, Episodes
  <2> QED
    BY <1>3, <2>1, Updated DEF ResolveAttempt, Resolvable, Reserved, MemResolve
<1> QED
  BY <1>1, <1>2, <1>3

LEMMA AttemptsFollow ==
  ASSUME RowInv, RowInv', NEW e \in Events, NEW t \in Tokens, NEW c \in Claims
  PROVE  FollowsAttempts(e, t, c)
<1>0. episode \in Episodes
  BY DEF RowInv, EpisodeTypeOK
<1>1. ASSUME ClaimConsumerAttempt(e, t, c) PROVE Makes(MemClaimConsumerAttempt(e, t, c))
  <2> DEFINE row == [episode EXCEPT !.claim = c, !.attempt = "reserved"]
  <2>1. row \in Episodes /\ AsStepped(row)
    BY <1>0, <1>1 DEF ClaimConsumerAttempt, Touched, AsStepped, Columns, Episodes
  <2> QED
    BY <1>1, <2>1, Updated DEF ClaimConsumerAttempt, Published, Unclaimed, MemClaimConsumerAttempt
<1>2. Claimant(e, t, c) => Exists(e) /\ MemHolds(t, c)
  BY DEF Claimant, Published, MemHolds
<1>3. MemHolds(t, c) \in BOOLEAN
  BY DEF MemHolds
<1>4. /\ MarkConsumerMutationStarted(e, t, c)
           => Makes(Transit(e, MemHolds(t, c), "reserved", "mutation_started"))
      /\ MarkConsumerManualRecoveryRequired(e, t, c)
           => Makes(Transit(e, MemHolds(t, c), "mutation_started", "manual_recovery_required"))
      /\ MarkConsumerResolved(e, t, c) => Makes(MemResolve(e, MemHolds(t, c)))
  BY <1>2, <1>3, TransitionsFollow
     DEF MarkConsumerMutationStarted, MarkConsumerManualRecoveryRequired, MarkConsumerResolved,
         StartMutation
<1>5. ASSUME NEW outcome, ResolveConsumerManualRecovery(e, t, c, outcome)
      PROVE  Makes(MemResolveConsumerManualRecovery(e, t, c))
  <2> DEFINE row == [episode EXCEPT !.attempt = "resolved", !.overdue = FALSE]
  <2>1. AsStepped(row)
    BY <1>0, <1>5 DEF ResolveConsumerManualRecovery, Touched, AsStepped, Columns, Episodes
  <2>2. row \in MemResolveConsumerManualRecovery(e, t, c)
    BY <1>5 DEF ResolveConsumerManualRecovery, Published, MemResolveConsumerManualRecovery
  <2> QED
    BY <2>1, <2>2 DEF Makes
<1> QED
  BY <1>1, <1>4, <1>5 DEF FollowsAttempts

LEMMA LeasesFollow ==
  ASSUME RowInv, RowInv', ~Replayed, NEW s \in {"scheduled", "scrape_time"},
         NEW e \in Events, NEW t \in Tokens, NEW c \in Claims
  PROVE  FollowsLeases(s, e, t, c)
<1> DEFINE owner == HasActiveLeaseOwner(s, t, c)
<1>0. episode \in Episodes /\ LeaseTicks \in 0..LeaseTicks
  BY EpisodeAssumption DEF RowInv, EpisodeTypeOK
<1>1. ASSUME ClaimConsumerAttemptLease(s, e, t, c)
      PROVE  Makes(MemClaimConsumerAttemptLease(s, e, t, c))
  <2> DEFINE row == [episode EXCEPT !.claim = c, !.attempt = "reserved", !.source = s,
                                    !.lease = LeaseTicks]
  <2>1. row \in Episodes /\ AsStepped(row)
    BY <1>0, <1>1 DEF ClaimConsumerAttemptLease, Touched, AsStepped, Columns, Episodes
  <2> QED
    BY <1>1, <2>1, Updated
       DEF ClaimConsumerAttemptLease, Published, Unclaimed, TerminalIsNull,
           MemClaimConsumerAttemptLease
<1>2. Leaseholder(s, e, t, c) => Exists(e) /\ owner
  BY DEF Leaseholder, Published, TerminalIsNull, HasActiveLeaseOwner
<1>3. owner \in BOOLEAN
  BY DEF HasActiveLeaseOwner
<1>4. ASSUME RenewConsumerAttemptLease(s, e, t, c)
      PROVE  Makes(MemRenewConsumerAttemptLease(s, e, t, c))
  <2> DEFINE row == [episode EXCEPT !.lease = LeaseTicks]
  <2>1. row \in Episodes /\ AsStepped(row)
    BY <1>0, <1>4 DEF RenewConsumerAttemptLease, Touched, AsStepped, Columns, Episodes
  <2> QED
    BY <1>2, <1>4, <2>1, Updated
       DEF RenewConsumerAttemptLease, MemRenewConsumerAttemptLease
<1>5. /\ MarkConsumerMutationStartedLease(s, e, t, c)
           => Makes(Transit(e, owner, "reserved", "mutation_started"))
      /\ MarkConsumerManualRecoveryRequiredLease(s, e, t, c)
           => Makes(Transit(e, owner, "mutation_started", "manual_recovery_required"))
      /\ MarkConsumerResolvedLease(s, e, t, c) => Makes(MemResolve(e, owner))
  BY <1>2, <1>3, TransitionsFollow
     DEF MarkConsumerMutationStartedLease, MarkConsumerManualRecoveryRequiredLease,
         MarkConsumerResolvedLease, StartMutation
<1> QED
  BY <1>1, <1>4, <1>5 DEF FollowsLeases

LEMMA StepFollows ==
  ASSUME RowInv, RowInv' PROVE Follows
BY BirthsAndEndsFollow, PublicationsFollow, AttemptsFollow, LeasesFollow DEF Follows

TwinFollows == [][Follows]_episodeVars

\* Half of TwinAgrees, step by step and so without ENABLED: an operation the
\* database carries out, the repository of the tests carries out as well, and makes
\* the same row of it, whatever came before.
THEOREM TwinTakesEveryStep == EpisodeSpec => TwinFollows
<1>1. IInv /\ [EpisodeNext]_episodeVars => [Follows]_episodeVars
  BY NextKeeps, StepFollows DEF IInv
<1> QED
  BY <1>1, Invariance, PTL DEF EpisodeSpec, TwinFollows

-----------------------------------------------------------------------------
(* And the other way: the tests' repository implements the database's.     *)

\* This step makes one of the rows that an operation of the tests' repository may
\* make, updatedAt apart: it is taken as set, which not every operation does there.
Steps(rows) == \E row \in rows : episode' = [row EXCEPT !.overdue = FALSE]

\* What an operation writes down besides the row.
Bears(e)     == born' = born \cup {e} /\ UNCHANGED <<resolution, started, settled>>
Starts(e, c) == started' = started \cup {<<e, c>>} /\ UNCHANGED <<resolution, settled, born>>
Settles(e)   == settled' = settled \cup {e} /\ UNCHANGED <<resolution, started, born>>
Replays(e, f) ==
  /\ resolution' = [resolution EXCEPT ![e].replay = f]
  /\ born' = born \cup {f} /\ UNCHANGED <<started, settled>>
Decides(e, outcome) ==
  /\ resolution' = [resolution EXCEPT ![e].outcome = outcome, ![e].audit = "pending"]
  /\ settled' = settled \cup {e} /\ UNCHANGED <<started, born>>

LeadsBirthsAndEnds(e) ==
  /\ Steps(MemGetOrCreate(e)) /\ Bears(e) => Create(e)
  /\ Steps(MemCancelPublication(e)) /\ Quiet => CancelPublication(e)
  /\ Steps(MemReconcileExpiredConsumerAttemptLease(e)) /\ Quiet
       => ReconcileExpiredConsumerAttemptLease(e)
  /\ Steps(MemMarkAuditDelivered(e, "expired")) /\ Quiet => MarkExpiredAudit(e)
  /\ Steps(MemMarkAuditDelivered(e, "restored")) /\ Quiet => MarkRestoredAudit(e)
  /\ Steps(MemClose(e)) /\ Quiet => Close(e)
  /\ \A f \in Events :
       Steps(MemAuthorizeManualRecoveryReplay(e, f)) /\ Replays(e, f)
         => AuthorizeManualRecoveryReplay(e, f)

LeadsPublications(e, t) ==
  /\ Steps(MemClaimPublication(e, t)) /\ Quiet => ClaimPublication(e, t)
  /\ Steps(MemMarkPublicationPublished(e, t)) /\ Quiet => MarkPublicationPublished(e, t)
  /\ Steps(MemMarkPublicationFailureReported(e, t)) /\ Quiet
       => MarkPublicationFailureReported(e, t)
  /\ \A reason \in {"job_missing", "job_failed"} :
       Steps(MemReconcileTerminalFailure(e, t, reason)) /\ Quiet
         => ReconcileTerminalFailure(e, t, reason)

LeadsAttempts(e, t, c) ==
  LET holds == MemHolds(t, c) IN
  /\ Steps(MemClaimConsumerAttempt(e, t, c)) /\ Quiet => ClaimConsumerAttempt(e, t, c)
  /\ Steps(Transit(e, holds, "reserved", "mutation_started")) /\ Starts(e, c)
       => MarkConsumerMutationStarted(e, t, c)
  /\ Steps(Transit(e, holds, "mutation_started", "manual_recovery_required")) /\ Quiet
       => MarkConsumerManualRecoveryRequired(e, t, c)
  /\ Steps(MemResolve(e, holds)) /\ Settles(e) => MarkConsumerResolved(e, t, c)
  /\ \A outcome \in {"safe_to_retry", "mutation_confirmed", "resolved_no_retry"} :
       Steps(MemResolveConsumerManualRecovery(e, t, c)) /\ Decides(e, outcome)
         => ResolveConsumerManualRecovery(e, t, c, outcome)

LeadsLeases(s, e, t, c) ==
  LET owner == HasActiveLeaseOwner(s, t, c) IN
  /\ Steps(MemClaimConsumerAttemptLease(s, e, t, c)) /\ Quiet
       => ClaimConsumerAttemptLease(s, e, t, c)
  /\ Steps(MemRenewConsumerAttemptLease(s, e, t, c)) /\ Quiet
       => RenewConsumerAttemptLease(s, e, t, c)
  /\ Steps(Transit(e, owner, "reserved", "mutation_started")) /\ Starts(e, c)
       => MarkConsumerMutationStartedLease(s, e, t, c)
  /\ Steps(Transit(e, owner, "mutation_started", "manual_recovery_required")) /\ Quiet
       => MarkConsumerManualRecoveryRequiredLease(s, e, t, c)
  /\ Steps(MemResolve(e, owner)) /\ Settles(e) => MarkConsumerResolvedLease(s, e, t, c)

\* Whatever the tests' repository accepts, the database accepts, and makes the
\* same row of it; the leases of a replay are never accepted there.
Leads ==
  \A e \in Events :
    /\ LeadsBirthsAndEnds(e)
    /\ \A t \in Tokens :
         /\ LeadsPublications(e, t)
         /\ \A c \in Claims :
              /\ LeadsAttempts(e, t, c)
              /\ \A s \in {"scheduled", "scrape_time"} : LeadsLeases(s, e, t, c)

\* What an operator or the claimant has settled is not open again: a row that
\* asks for a decision has none.
SettledIsResolved == episode.event \in settled => episode.attempt = "resolved"

\* What updatePublication lets through.
LEMMA Accepted ==
  ASSUME NEW e, NEW may \in BOOLEAN, NEW row \in Episodes, Steps(UpdatePublication(e, may, row))
  PROVE  /\ Exists(e) /\ may /\ Parses(row)
         /\ episode' = [row EXCEPT !.overdue = FALSE]
<1>1. Exists(e) /\ may /\ Parses(row)
  BY DEF Steps, UpdatePublication
<1>2. episode' = [[row EXCEPT !.overdue = FALSE] EXCEPT !.overdue = FALSE]
  BY <1>1 DEF Steps, UpdatePublication
<1>3. episode' = [row EXCEPT !.overdue = FALSE]
  BY <1>2 DEF Episodes
<1> QED
  BY <1>1, <1>3

LEMMA PublicationsLead ==
  ASSUME RowInv, NEW e \in Events, NEW t \in Tokens PROVE LeadsPublications(e, t)
<1>0. episode \in Episodes
  BY DEF RowInv, EpisodeTypeOK
<1>1. ASSUME Steps(MemClaimPublication(e, t)), Quiet PROVE ClaimPublication(e, t)
  <2> DEFINE row == [episode EXCEPT !.publication = "publishing", !.token = t, !.reported = FALSE]
             may == /\ ~episode.restored /\ episode.attempt = "none"
                    /\ \/ episode.publication = "pending"
                       \/ /\ episode.publication = "publishing" /\ episode.token = t
                          /\ episode.reported \/ episode.overdue
  <2>1. row \in Episodes /\ may \in BOOLEAN
    BY <1>0 DEF Episodes
  <2>2. Exists(e) /\ may /\ episode' = [row EXCEPT !.overdue = FALSE]
    BY <1>1, <2>1, Accepted DEF MemClaimPublication
  <2>3. episode' = [Touched EXCEPT !.publication = "publishing", !.token = t, !.reported = FALSE]
    BY <1>0, <2>2 DEF Touched, Episodes
  <2> QED
    BY <1>1, <2>2, <2>3 DEF Quiet, ClaimPublication, MayClaimPublication
<1>2. ASSUME Steps(MemMarkPublicationPublished(e, t)), Quiet PROVE MarkPublicationPublished(e, t)
  <2> DEFINE row == [episode EXCEPT !.publication = "published", !.reported = FALSE]
             may == ~episode.restored /\ episode.publication = "publishing" /\ episode.token = t
  <2>1. row \in Episodes /\ may \in BOOLEAN
    BY <1>0 DEF Episodes
  <2>2. Exists(e) /\ may /\ episode' = [row EXCEPT !.overdue = FALSE]
    BY <1>2, <2>1, Accepted DEF MemMarkPublicationPublished
  <2>3. episode' = [Touched EXCEPT !.publication = "published", !.reported = FALSE]
    BY <1>0, <2>2 DEF Touched, Episodes
  <2> QED
    BY <1>2, <2>2, <2>3 DEF Quiet, MarkPublicationPublished, Publishing
<1>3. ASSUME Steps(MemMarkPublicationFailureReported(e, t)), Quiet
      PROVE  MarkPublicationFailureReported(e, t)
  <2> DEFINE row == [episode EXCEPT !.reported = TRUE]
             may == /\ episode.publication = "publishing" /\ episode.token = t
                    /\ ~episode.reported
  <2>1. row \in Episodes /\ may \in BOOLEAN
    BY <1>0 DEF Episodes
  <2>2. Exists(e) /\ may /\ episode' = [row EXCEPT !.overdue = FALSE]
    BY <1>3, <2>1, Accepted DEF MemMarkPublicationFailureReported
  <2>3. episode' = [Touched EXCEPT !.reported = TRUE]
    BY <1>0, <2>2 DEF Touched, Episodes
  <2> QED
    BY <1>3, <2>2, <2>3 DEF Quiet, MarkPublicationFailureReported, Publishing
<1>4. ASSUME NEW reason \in {"job_missing", "job_failed"},
             Steps(MemReconcileTerminalFailure(e, t, reason)), Quiet
      PROVE  ReconcileTerminalFailure(e, t, reason)
  <2> DEFINE uncertain == \/ episode.attempt \in Unresolved
                          \/ episode.source # "none" /\ episode.attempt = "reserved"
             row == [episode EXCEPT
                       !.attempt = IF uncertain THEN "manual_recovery_required" ELSE @,
                       !.lease = IF uncertain THEN None ELSE @,
                       !.terminal = reason, !.overdue = FALSE]
  <2>1. /\ Exists(e) /\ episode.publication = "published" /\ episode.token = t
        /\ ~episode.restored /\ episode.attempt # "resolved"
        /\ episode.terminal \notin {"job_failed", reason} /\ ~LeaseActive
    BY <1>4 DEF Steps, MemReconcileTerminalFailure
  <2>2. episode' = [row EXCEPT !.overdue = FALSE]
    BY <1>4, <2>1 DEF Steps, MemReconcileTerminalFailure
  <2>3. Terminable(e, t, reason)
    BY <1>0, <2>1 DEF Terminable, Published, Episodes
  <2>4. CASE episode.attempt = "mutation_started"
             \/ (episode.source # "none" /\ episode.attempt = "reserved")
    <3>1. episode' = [Attempted("manual_recovery_required") EXCEPT !.terminal = reason]
      BY <1>0, <2>2, <2>4 DEF Attempted, Touched, Episodes, Unresolved
    <3> QED
      BY <1>4, <2>3, <2>4, <3>1 DEF ReconcileTerminalFailure, Quiet
  <2>5. CASE ~(episode.attempt = "mutation_started"
               \/ (episode.source # "none" /\ episode.attempt = "reserved"))
    <3>1. episode.attempt = "manual_recovery_required" => episode.lease = None
      BY <1>0 DEF RowInv, RowStaysReadable, Episodes
    <3>2. episode' = [Touched EXCEPT !.terminal = reason]
      BY <1>0, <2>2, <2>5, <3>1 DEF Touched, Episodes, Unresolved
    <3> QED
      BY <1>4, <2>3, <2>5, <3>2 DEF ReconcileTerminalFailure, Quiet
  <2> QED
    BY <2>4, <2>5
<1> QED
  BY <1>1, <1>2, <1>3, <1>4 DEF LeadsPublications

LEMMA BirthsAndEndsLead ==
  ASSUME RowInv, NEW e \in Events PROVE LeadsBirthsAndEnds(e)
<1>0. episode \in Episodes
  BY DEF RowInv, EpisodeTypeOK
<1>a. ASSUME NEW f, Steps({Fresh(f)}) PROVE episode' = Fresh(f)
  <2>1. episode' = [Fresh(f) EXCEPT !.overdue = FALSE]
    BY <1>a DEF Steps
  <2> QED
    BY <2>1 DEF Fresh
<1>1. ASSUME Steps(MemGetOrCreate(e)) PROVE episode.event = None /\ episode' = Fresh(e)
  <2>1. episode.event = None
    BY <1>1 DEF Steps, MemGetOrCreate
  <2> QED
    BY <1>1, <1>a, <2>1 DEF MemGetOrCreate
<1>2. ASSUME Steps(MemClose(e)) PROVE Closable(e) /\ episode' = Fresh(None)
  <2>1. Closable(e)
    BY <1>2 DEF Steps, MemClose, Closable
  <2> QED
    BY <1>2, <1>a, <2>1 DEF MemClose, Closable
<1>3. ASSUME NEW f \in Events, Steps(MemAuthorizeManualRecoveryReplay(e, f)), Replays(e, f)
      PROVE  AuthorizeManualRecoveryReplay(e, f)
  <2> DEFINE may ==
        /\ resolution[e].outcome = "safe_to_retry" /\ resolution[e].audit = "delivered"
        /\ resolution[e].replay = None
        /\ episode.event # None =>
             /\ Exists(e) /\ episode.publication = "published" /\ episode.attempt = "resolved"
        /\ \A g \in Events :
             /\ resolution[g].outcome # "none" => g # f
             /\ resolution[g].replay # f
  <2>1. may
    BY <1>3 DEF Steps, MemAuthorizeManualRecoveryReplay
  <2>2. MemAuthorizeManualRecoveryReplay(e, f) = {Fresh(f)}
    BY <2>1 DEF MemAuthorizeManualRecoveryReplay
  <2>3. episode' = Fresh(f)
    BY <1>3, <1>a, <2>2
  <2>4. ~Taken(f) /\ e # f
    BY <2>1 DEF Taken
  <2> QED
    BY <1>3, <2>1, <2>3, <2>4 DEF Replays, AuthorizeManualRecoveryReplay
<1>4. ASSUME Steps(MemCancelPublication(e)), Quiet PROVE CancelPublication(e)
  <2> DEFINE row == [episode EXCEPT !.publication = "cancelled", !.token = None, !.reported = FALSE]
             may == episode.publication \in {"pending", "publishing"}
  <2>0. may \in BOOLEAN
    OBVIOUS
  <2>1. row \in Episodes
    BY <1>0 DEF Episodes
  <2>2. Exists(e) /\ may /\ Parses(row) /\ episode' = [row EXCEPT !.overdue = FALSE]
    BY <1>4, <2>0, <2>1, Accepted DEF MemCancelPublication
  <2>3. row.publication = "cancelled" /\ row.source = episode.source
    BY <1>0 DEF Episodes
  <2>4. episode.source # "scrape_time"
    BY <2>2, <2>3 DEF Parses
  <2>5. episode' = [Touched EXCEPT !.publication = "cancelled", !.token = None, !.reported = FALSE]
    BY <1>0, <2>2 DEF Touched, Episodes
  <2> QED
    BY <1>4, <2>2, <2>4, <2>5 DEF Quiet, CancelPublication, Cancellable
<1>5. ASSUME Steps(MemReconcileExpiredConsumerAttemptLease(e)), Quiet
      PROVE  ReconcileExpiredConsumerAttemptLease(e)
  <2> DEFINE row == [episode EXCEPT !.attempt = "manual_recovery_required", !.lease = None]
             may == /\ episode.source # "none"
                    /\ episode.attempt \in {"reserved", "mutation_started"}
                    /\ episode.lease = 0
  <2>1. row \in Episodes /\ may \in BOOLEAN
    BY <1>0 DEF Episodes, Unresolved
  <2>2. Exists(e) /\ may /\ episode' = [row EXCEPT !.overdue = FALSE]
    BY <1>5, <2>1, Accepted DEF MemReconcileExpiredConsumerAttemptLease
  <2>3. episode' = Attempted("manual_recovery_required")
    BY <1>0, <2>2 DEF Attempted, Touched, Episodes
  <2> QED
    BY <1>5, <2>2, <2>3 DEF Quiet, ReconcileExpiredConsumerAttemptLease
<1>6. ASSUME Steps(MemMarkAuditDelivered(e, "expired")), Quiet PROVE MarkExpiredAudit(e)
  <2>1. Exists(e) /\ ~episode["expired"]
    BY <1>6 DEF Steps, MemMarkAuditDelivered
  <2>2. MemMarkAuditDelivered(e, "expired") = {[episode EXCEPT !["expired"] = TRUE]}
    BY <2>1 DEF MemMarkAuditDelivered
  <2>3. episode' = [[episode EXCEPT !["expired"] = TRUE] EXCEPT !.overdue = FALSE]
    BY <1>6, <2>2 DEF Steps
  <2>4. episode' = [Touched EXCEPT !.expired = TRUE]
    BY <1>0, <2>3 DEF Touched, Episodes
  <2> QED
    BY <1>6, <2>1, <2>4 DEF Quiet, MarkExpiredAudit
<1>7. ASSUME Steps(MemMarkAuditDelivered(e, "restored")), Quiet PROVE MarkRestoredAudit(e)
  <2>1. Exists(e) /\ ~episode["restored"]
    BY <1>7 DEF Steps, MemMarkAuditDelivered
  <2>2. CASE episode.attempt = "reserved"
    <3> DEFINE row == [episode EXCEPT !.restored = TRUE, !.claim = None, !.attempt = "none",
                                      !.source = "none", !.lease = None]
    <3>1. MemMarkAuditDelivered(e, "restored") = {row}
      BY <2>1, <2>2 DEF MemMarkAuditDelivered
    <3>2. episode' = [row EXCEPT !.overdue = FALSE]
      BY <1>7, <3>1 DEF Steps
    <3>3. episode' = [[Touched EXCEPT !.claim = None, !.attempt = "none", !.source = "none",
                                      !.lease = None] EXCEPT !.restored = TRUE]
      BY <1>0, <3>2 DEF Touched, Episodes
    <3> QED
      BY <1>7, <2>1, <2>2, <3>3 DEF Quiet, MarkRestoredAudit
  <2>3. CASE episode.attempt # "reserved"
    <3>1. MemMarkAuditDelivered(e, "restored") = {[episode EXCEPT !["restored"] = TRUE]}
      BY <2>1, <2>3 DEF MemMarkAuditDelivered
    <3>2. episode' = [[episode EXCEPT !["restored"] = TRUE] EXCEPT !.overdue = FALSE]
      BY <1>7, <3>1 DEF Steps
    <3>3. episode' = [Touched EXCEPT !.restored = TRUE]
      BY <1>0, <3>2 DEF Touched, Episodes
    <3> QED
      BY <1>7, <2>1, <2>3, <3>3 DEF Quiet, MarkRestoredAudit
  <2> QED
    BY <2>2, <2>3
<1>8. /\ Steps(MemGetOrCreate(e)) /\ Bears(e) => Create(e)
      /\ Steps(MemClose(e)) /\ Quiet => Close(e)
  BY <1>1, <1>2 DEF Bears, Create, Close, Quiet
<1> QED
  BY <1>3, <1>4, <1>5, <1>6, <1>7, <1>8 DEF LeadsBirthsAndEnds

\* A transition of the attempt, by whoever may make it.
LEMMA TransitionsLead ==
  ASSUME RowInv, NEW e \in Events, NEW may \in BOOLEAN
  PROVE  /\ Steps(Transit(e, may, "reserved", "mutation_started"))
              => Exists(e) /\ may /\ Reserved /\ episode' = Attempted("mutation_started")
         /\ Steps(Transit(e, may, "mutation_started", "manual_recovery_required")) /\ Quiet
              => Exists(e) /\ may /\ RequireManualRecovery
         /\ Steps(MemResolve(e, may)) /\ Settles(e) => Exists(e) /\ may /\ ResolveAttempt(e)
<1>0. episode \in Episodes
  BY DEF RowInv, EpisodeTypeOK
<1>1. ASSUME Steps(Transit(e, may, "reserved", "mutation_started"))
      PROVE  Exists(e) /\ may /\ Reserved /\ episode' = Attempted("mutation_started")
  <2> DEFINE row == [episode EXCEPT !.attempt = "mutation_started",
               !.lease = IF "mutation_started" = "manual_recovery_required" THEN None ELSE @]
             ok == /\ may /\ episode.attempt = "reserved"
                   /\ "reserved" = "reserved" => ~episode.restored
  <2>1. row \in Episodes /\ ok \in BOOLEAN
    BY <1>0 DEF Episodes, Unresolved
  <2>2. Exists(e) /\ ok /\ episode' = [row EXCEPT !.overdue = FALSE]
    BY <1>1, <2>1, Accepted DEF Transit
  <2>3. episode' = Attempted("mutation_started")
    BY <1>0, <2>2 DEF Attempted, Touched, Episodes
  <2> QED
    BY <2>2, <2>3 DEF Reserved
<1>2. ASSUME Steps(Transit(e, may, "mutation_started", "manual_recovery_required")), Quiet
      PROVE  Exists(e) /\ may /\ RequireManualRecovery
  <2> DEFINE row == [episode EXCEPT !.attempt = "manual_recovery_required",
               !.lease = IF "manual_recovery_required" = "manual_recovery_required"
                         THEN None ELSE @]
             ok == /\ may /\ episode.attempt = "mutation_started"
                   /\ "mutation_started" = "reserved" => ~episode.restored
  <2>1. row \in Episodes /\ ok \in BOOLEAN
    BY <1>0 DEF Episodes, Unresolved
  <2>2. Exists(e) /\ ok /\ episode' = [row EXCEPT !.overdue = FALSE]
    BY <1>2, <2>1, Accepted DEF Transit
  <2>3. episode' = Attempted("manual_recovery_required")
    BY <1>0, <2>2 DEF Attempted, Touched, Episodes
  <2> QED
    BY <1>2, <2>2, <2>3 DEF Quiet, RequireManualRecovery
<1>3. ASSUME Steps(MemResolve(e, may)), Settles(e)
      PROVE  Exists(e) /\ may /\ ResolveAttempt(e)
  <2> DEFINE row == [episode EXCEPT !.attempt = "resolved", !.lease = None]
             ok == /\ may
                   /\ \/ episode.attempt = "mutation_started"
                      \/ episode.attempt = "reserved" /\ ~episode.restored
  <2>1. row \in Episodes /\ ok \in BOOLEAN
    BY <1>0 DEF Episodes
  <2>2. Exists(e) /\ ok /\ episode' = [row EXCEPT !.overdue = FALSE]
    BY <1>3, <2>1, Accepted DEF MemResolve
  <2>3. episode' = Attempted("resolved")
    BY <1>0, <2>2 DEF Attempted, Touched, Episodes
  <2> QED
    BY <1>3, <2>2, <2>3 DEF Settles, ResolveAttempt, Resolvable, Reserved
<1> QED
  BY <1>1, <1>2, <1>3

\* Only the decision of an operator needs more than the row: the database looks
\* for an earlier one, which the tests' repository knows cannot be there.
LEMMA AttemptsLead ==
  ASSUME RowInv, SettledIsResolved, DecisionsSettle,
         NEW e \in Events, NEW t \in Tokens, NEW c \in Claims
  PROVE  LeadsAttempts(e, t, c)
<1>0. episode \in Episodes
  BY DEF RowInv, EpisodeTypeOK
<1>1. ASSUME Steps(MemClaimConsumerAttempt(e, t, c)), Quiet PROVE ClaimConsumerAttempt(e, t, c)
  <2> DEFINE row == [episode EXCEPT !.claim = c, !.attempt = "reserved"]
             may == /\ ~episode.restored /\ episode.publication = "published" /\ episode.token = t
                    /\ episode.claim = None /\ episode.attempt = "none"
  <2>1. row \in Episodes /\ may \in BOOLEAN
    BY <1>0 DEF Episodes
  <2>2. Exists(e) /\ may /\ episode' = [row EXCEPT !.overdue = FALSE]
    BY <1>1, <2>1, Accepted DEF MemClaimConsumerAttempt
  <2>3. episode' = [Touched EXCEPT !.claim = c, !.attempt = "reserved"]
    BY <1>0, <2>2 DEF Touched, Episodes
  <2> QED
    BY <1>1, <2>2, <2>3 DEF Quiet, ClaimConsumerAttempt, Published, Unclaimed
<1>2. Exists(e) /\ MemHolds(t, c) => Claimant(e, t, c)
  BY DEF Claimant, Published, MemHolds
<1>3. MemHolds(t, c) \in BOOLEAN
  BY DEF MemHolds
<1>4. ASSUME Steps(Transit(e, MemHolds(t, c), "reserved", "mutation_started")), Starts(e, c)
      PROVE  MarkConsumerMutationStarted(e, t, c)
  BY <1>2, <1>3, <1>4, TransitionsLead DEF Starts, MarkConsumerMutationStarted, StartMutation
<1>5. ASSUME Steps(Transit(e, MemHolds(t, c), "mutation_started", "manual_recovery_required")),
             Quiet
      PROVE  MarkConsumerManualRecoveryRequired(e, t, c)
  BY <1>2, <1>3, <1>5, TransitionsLead DEF MarkConsumerManualRecoveryRequired
<1>6. ASSUME Steps(MemResolve(e, MemHolds(t, c))), Settles(e)
      PROVE  MarkConsumerResolved(e, t, c)
  BY <1>2, <1>3, <1>6, TransitionsLead DEF MarkConsumerResolved
<1>7. ASSUME NEW outcome, Steps(MemResolveConsumerManualRecovery(e, t, c)),
             Decides(e, outcome)
      PROVE  ResolveConsumerManualRecovery(e, t, c, outcome)
  <2> DEFINE row == [episode EXCEPT !.attempt = "resolved", !.overdue = FALSE]
  <2>1. /\ Exists(e) /\ episode.publication = "published" /\ episode.token = t
        /\ episode.claim = c /\ episode.attempt = "manual_recovery_required"
    BY <1>7 DEF Steps, MemResolveConsumerManualRecovery
  <2>2. episode' = [row EXCEPT !.overdue = FALSE]
    BY <1>7, <2>1 DEF Steps, MemResolveConsumerManualRecovery
  <2>3. episode' = [Touched EXCEPT !.attempt = "resolved"]
    BY <1>0, <2>2 DEF Touched, Episodes
  <2>4. resolution[e].outcome = "none"
    BY <2>1 DEF SettledIsResolved, DecisionsSettle, Exists
  <2> QED
    BY <1>7, <2>1, <2>3, <2>4 DEF Decides, ResolveConsumerManualRecovery, Published
<1> QED
  BY <1>1, <1>4, <1>5, <1>6, <1>7 DEF LeadsAttempts

LEMMA LeasesLead ==
  ASSUME RowInv, NEW s \in {"scheduled", "scrape_time"},
         NEW e \in Events, NEW t \in Tokens, NEW c \in Claims
  PROVE  LeadsLeases(s, e, t, c)
<1> DEFINE owner == HasActiveLeaseOwner(s, t, c)
<1>0. episode \in Episodes /\ LeaseTicks \in 0..LeaseTicks
  BY EpisodeAssumption DEF RowInv, EpisodeTypeOK
<1>1. ASSUME Steps(MemClaimConsumerAttemptLease(s, e, t, c)), Quiet
      PROVE  ClaimConsumerAttemptLease(s, e, t, c)
  <2> DEFINE row == [episode EXCEPT !.claim = c, !.attempt = "reserved", !.source = s,
                                    !.lease = LeaseTicks]
             may == /\ ~episode.restored /\ TerminalIsNull
                    /\ episode.claim = None /\ episode.attempt = "none"
                    /\ IF s = "scheduled"
                       THEN episode.publication = "published" /\ episode.token = t
                       ELSE episode.publication = "pending" /\ episode.token = None
  <2>1. row \in Episodes
    BY <1>0 DEF Episodes
  <2>2. may \in BOOLEAN
    BY DEF TerminalIsNull
  <2>3. Exists(e) /\ may /\ episode' = [row EXCEPT !.overdue = FALSE]
    BY <1>1, <2>1, <2>2, Accepted DEF MemClaimConsumerAttemptLease
  <2>4. episode' = [Touched EXCEPT !.claim = c, !.attempt = "reserved", !.source = s,
                                   !.lease = LeaseTicks]
    BY <1>0, <2>3 DEF Touched, Episodes
  <2> QED
    BY <1>1, <2>3, <2>4
       DEF Quiet, ClaimConsumerAttemptLease, Published, Unclaimed, TerminalIsNull
<1>2. Exists(e) /\ owner => Leaseholder(s, e, t, c)
  BY DEF Leaseholder, Published, TerminalIsNull, HasActiveLeaseOwner
<1>3. owner \in BOOLEAN
  BY DEF HasActiveLeaseOwner
<1>4. ASSUME Steps(MemRenewConsumerAttemptLease(s, e, t, c)), Quiet
      PROVE  RenewConsumerAttemptLease(s, e, t, c)
  <2> DEFINE row == [episode EXCEPT !.lease = LeaseTicks]
             may == owner /\ episode.attempt \in {"reserved", "mutation_started"}
  <2>1. row \in Episodes /\ may \in BOOLEAN
    BY <1>0 DEF Episodes
  <2>2. Exists(e) /\ may /\ episode' = [row EXCEPT !.overdue = FALSE]
    BY <1>4, <2>1, Accepted DEF MemRenewConsumerAttemptLease
  <2>3. episode' = [Touched EXCEPT !.lease = LeaseTicks]
    BY <1>0, <2>2 DEF Touched, Episodes
  <2> QED
    BY <1>2, <1>4, <2>2, <2>3 DEF Quiet, RenewConsumerAttemptLease
<1>5. ASSUME Steps(Transit(e, owner, "reserved", "mutation_started")), Starts(e, c)
      PROVE  MarkConsumerMutationStartedLease(s, e, t, c)
  BY <1>2, <1>3, <1>5, TransitionsLead DEF Starts, MarkConsumerMutationStartedLease, StartMutation
<1>6. ASSUME Steps(Transit(e, owner, "mutation_started", "manual_recovery_required")), Quiet
      PROVE  MarkConsumerManualRecoveryRequiredLease(s, e, t, c)
  BY <1>2, <1>3, <1>6, TransitionsLead DEF MarkConsumerManualRecoveryRequiredLease
<1>7. ASSUME Steps(MemResolve(e, owner)), Settles(e)
      PROVE  MarkConsumerResolvedLease(s, e, t, c)
  BY <1>2, <1>3, <1>7, TransitionsLead DEF MarkConsumerResolvedLease
<1> QED
  BY <1>1, <1>4, <1>5, <1>6, <1>7 DEF LeadsLeases

\* What settles, stays settled: no statement opens a resolved attempt again, and a
\* new row bears an id that was never settled.
LEMMA SettledStep ==
  ASSUME IInv, SettledIsResolved, [EpisodeNext]_episodeVars PROVE SettledIsResolved'
<1>0. episode \in Episodes /\ settled \subseteq born /\ born \subseteq Events
  BY DEF IInv, RowInv, EpisodeTypeOK, Ledger, Births
<1>a. ASSUME UNCHANGED settled, episode'.event = episode.event,
             episode.attempt = "resolved" => episode'.attempt = "resolved"
      PROVE  SettledIsResolved'
  BY <1>a DEF SettledIsResolved
<1>1. ASSUME NEW e \in Events \ born, NEW f, Create(e) \/ AuthorizeManualRecoveryReplay(f, e)
      PROVE  SettledIsResolved'
  <2>1. episode' = Fresh(e) /\ UNCHANGED settled
    BY <1>1 DEF Create, AuthorizeManualRecoveryReplay
  <2> QED
    BY <1>0, <2>1 DEF Fresh, SettledIsResolved
<1>2. ASSUME NEW e \in Events, Close(e) PROVE SettledIsResolved'
  <2>1. episode' = Fresh(None) /\ UNCHANGED settled
    BY <1>2 DEF Close
  <2> QED
    BY <1>0, <2>1, EpisodeAssumption DEF Fresh, SettledIsResolved
<1>3. ASSUME NEW e \in Events, Exists(e), ResolveAttempt(e) PROVE SettledIsResolved'
  BY <1>0, <1>3 DEF Exists, ResolveAttempt, Attempted, Touched, Episodes, SettledIsResolved
<1>4. ASSUME NEW e \in Events, NEW t \in Tokens, NEW c \in Claims, NEW outcome,
             ResolveConsumerManualRecovery(e, t, c, outcome)
      PROVE  SettledIsResolved'
  BY <1>0, <1>4 DEF ResolveConsumerManualRecovery, Touched, Episodes, SettledIsResolved
<1>5. ASSUME NEW e \in Events,
             \/ CancelPublication(e) \/ MarkExpiredAudit(e) \/ MarkRestoredAudit(e)
             \/ \E t \in Tokens : Publish(e, t)
      PROVE  SettledIsResolved'
  <2>1. UNCHANGED settled /\ episode'.event = episode.event
    BY <1>0, <1>5
       DEF CancelPublication, MarkExpiredAudit, MarkRestoredAudit, Publish, ClaimPublication,
           MarkPublicationPublished, MarkPublicationFailureReported, Touched, Episodes
  <2>2. CASE MarkRestoredAudit(e)
    <3>1. episode.attempt = "resolved" => episode' = [Touched EXCEPT !.restored = TRUE]
      BY <2>2 DEF MarkRestoredAudit
    <3>2. episode.attempt = "resolved" => episode'.attempt = "resolved"
      BY <1>0, <3>1 DEF Touched, Episodes
    <3> QED
      BY <1>a, <2>1, <3>2
  <2>3. CASE \/ CancelPublication(e) \/ MarkExpiredAudit(e)
             \/ \E t \in Tokens : Publish(e, t)
    <3>1. episode'.attempt = episode.attempt
      BY <1>0, <2>3
         DEF CancelPublication, MarkExpiredAudit, Publish, ClaimPublication,
             MarkPublicationPublished, MarkPublicationFailureReported, Touched, Episodes
    <3> QED
      BY <1>a, <2>1, <3>1
  <2> QED
    BY <1>5, <2>2, <2>3
<1>6. CASE Age
  <2>1. UNCHANGED settled /\ episode'.event = episode.event /\ episode'.attempt = episode.attempt
    BY <1>0, <1>6 DEF Age, Episodes
  <2> QED
    BY <1>a, <2>1
<1>7. CASE UNCHANGED episode /\ UNCHANGED settled
  BY <1>7 DEF SettledIsResolved
<1>b. ASSUME NEW state, episode' = Attempted(state), episode.attempt # "resolved", UNCHANGED settled
      PROVE  SettledIsResolved'
  <2>1. episode'.event = episode.event
    BY <1>0, <1>b DEF Attempted, Touched, Episodes
  <2> QED
    BY <1>a, <1>b, <2>1
<1>8. ASSUME NEW e, NEW c,
             StartMutation(e, c) \/ RequireManualRecovery \/ ReconcileExpiredConsumerAttemptLease(e)
      PROVE  SettledIsResolved'
  BY <1>8, <1>b DEF StartMutation, Reserved, RequireManualRecovery,
                    ReconcileExpiredConsumerAttemptLease
<1>9. ASSUME NEW s, NEW e, NEW t, NEW c,
             \/ ClaimConsumerAttempt(e, t, c) \/ ClaimConsumerAttemptLease(s, e, t, c)
             \/ RenewConsumerAttemptLease(s, e, t, c)
      PROVE  SettledIsResolved'
  <2>1. episode.attempt # "resolved" /\ UNCHANGED settled
    BY <1>9 DEF ClaimConsumerAttempt, ClaimConsumerAttemptLease, RenewConsumerAttemptLease,
                Unclaimed
  <2>2. episode'.event = episode.event
    BY <1>0, <1>9 DEF ClaimConsumerAttempt, ClaimConsumerAttemptLease,
                      RenewConsumerAttemptLease, Touched, Episodes
  <2> QED
    BY <1>a, <2>1, <2>2
<1>10. ASSUME NEW e, NEW t, NEW reason, ReconcileTerminalFailure(e, t, reason)
       PROVE  SettledIsResolved'
  <2>1. episode.attempt # "resolved" /\ UNCHANGED settled
    BY <1>10 DEF ReconcileTerminalFailure, Terminable
  <2>2. \/ episode' = [Attempted("manual_recovery_required") EXCEPT !.terminal = reason]
        \/ episode' = [Touched EXCEPT !.terminal = reason]
    BY <1>10 DEF ReconcileTerminalFailure
  <2>3. Attempted("manual_recovery_required")
          = [Touched EXCEPT !.attempt = "manual_recovery_required", !.lease = None]
    BY DEF Attempted
  <2>4. CASE episode' = [Touched EXCEPT !.terminal = reason]
    <3>1. episode'.event = episode.event
      BY <1>0, <2>4 DEF Touched, Episodes
    <3> QED
      BY <1>a, <2>1, <3>1
  <2>5. CASE episode' = [Attempted("manual_recovery_required") EXCEPT !.terminal = reason]
    <3>1. episode'.event = episode.event
      BY <1>0, <2>3, <2>5 DEF Touched, Episodes
    <3> QED
      BY <1>a, <2>1, <3>1
  <2> QED
    BY <2>2, <2>4, <2>5
<1>11. ASSUME NEW e \in Events, NEW t \in Tokens, NEW c \in Claims,
              NEW s \in {"scheduled", "scrape_time"},
              Attempt(e, t, c) \/ LeasedAttempt(s, e, t, c)
       PROVE  SettledIsResolved'
  <2>1. \/ ClaimConsumerAttempt(e, t, c) \/ ClaimConsumerAttemptLease(s, e, t, c)
        \/ RenewConsumerAttemptLease(s, e, t, c)
        \/ StartMutation(e, c) \/ RequireManualRecovery
        \/ Exists(e) /\ ResolveAttempt(e)
    BY <1>11
       DEF Attempt, LeasedAttempt, MarkConsumerMutationStarted, MarkConsumerMutationStartedLease,
           MarkConsumerManualRecoveryRequired, MarkConsumerManualRecoveryRequiredLease,
           MarkConsumerResolved, MarkConsumerResolvedLease, Claimant, Leaseholder, Published
  <2> QED
    BY <1>3, <1>8, <1>9, <2>1
<1>12. ASSUME NEW e \in Events, ResolutionAuditDelivered(e) PROVE SettledIsResolved'
  BY <1>7, <1>12 DEF ResolutionAuditDelivered
<1>13. CASE UNCHANGED episodeVars
  BY <1>7, <1>13 DEF episodeVars
<1>14. CASE \E e \in Events, t \in Tokens, c \in Claims :
              \/ Attempt(e, t, c)
              \/ \E s \in {"scheduled", "scrape_time"} : LeasedAttempt(s, e, t, c)
  BY <1>11, <1>14
<1>15. CASE \E e \in Events \ born :
              \/ Create(e)
              \/ \E f \in born : AuthorizeManualRecoveryReplay(f, e)
  <2>1. PICK e \in Events \ born :
          Create(e) \/ \E f \in born : AuthorizeManualRecoveryReplay(f, e)
    BY <1>15
  <2>2. CASE Create(e)
    BY <1>0, <1>1, <2>2
  <2>3. CASE \E f \in born : AuthorizeManualRecoveryReplay(f, e)
    BY <1>1, <2>3
  <2> QED
    BY <2>1, <2>2, <2>3
<1>16. CASE \E e \in Events :
              \/ CancelPublication(e) \/ MarkExpiredAudit(e) \/ MarkRestoredAudit(e)
              \/ \E t \in Tokens : Publish(e, t)
  BY <1>5, <1>16
<1>17. CASE \E e \in Events : \/ ReconcileExpiredConsumerAttemptLease(e) \/ Close(e)
                              \/ ResolutionAuditDelivered(e)
  BY <1>2, <1>8, <1>12, <1>17
<1>18. CASE \E e \in Events, t \in Tokens, reason \in {"job_missing", "job_failed"} :
              ReconcileTerminalFailure(e, t, reason)
  BY <1>10, <1>18
<1>19. CASE \E e \in Events, t \in Tokens, c \in Claims,
               outcome \in {"safe_to_retry", "mutation_confirmed", "resolved_no_retry"} :
              ResolveConsumerManualRecovery(e, t, c, outcome)
  BY <1>4, <1>19
<1> QED
  BY <1>6, <1>13, <1>14, <1>15, <1>16, <1>17, <1>18, <1>19 DEF EpisodeNext

LEMMA SettledInvariance == EpisodeSpec => []SettledIsResolved
<1>1. EpisodeInit => SettledIsResolved
  BY DEF EpisodeInit, SettledIsResolved
<1>2. IInv /\ SettledIsResolved /\ [EpisodeNext]_episodeVars => SettledIsResolved'
  BY SettledStep
<1> QED
  BY <1>1, <1>2, Invariance, PTL DEF EpisodeSpec

TwinPublish(e, t) ==
  \/ Steps(MemClaimPublication(e, t)) /\ Quiet
  \/ Steps(MemMarkPublicationPublished(e, t)) /\ Quiet
  \/ Steps(MemMarkPublicationFailureReported(e, t)) /\ Quiet

TwinAttempt(e, t, c) ==
  LET holds == MemHolds(t, c) IN
  \/ Steps(MemClaimConsumerAttempt(e, t, c)) /\ Quiet
  \/ Steps(Transit(e, holds, "reserved", "mutation_started")) /\ Starts(e, c)
  \/ Steps(Transit(e, holds, "mutation_started", "manual_recovery_required")) /\ Quiet
  \/ Steps(MemResolve(e, holds)) /\ Settles(e)

TwinLeasedAttempt(s, e, t, c) ==
  LET owner == HasActiveLeaseOwner(s, t, c) IN
  \/ Steps(MemClaimConsumerAttemptLease(s, e, t, c)) /\ Quiet
  \/ Steps(MemRenewConsumerAttemptLease(s, e, t, c)) /\ Quiet
  \/ Steps(Transit(e, owner, "reserved", "mutation_started")) /\ Starts(e, c)
  \/ Steps(Transit(e, owner, "mutation_started", "manual_recovery_required")) /\ Quiet
  \/ Steps(MemResolve(e, owner)) /\ Settles(e)

\* EpisodeNext with the operations of the tests' repository; the outbox and the
\* clock are not its own.
TwinNext ==
  \/ \E e \in Events \ born :
       \/ Steps(MemGetOrCreate(e)) /\ Bears(e)
       \/ \E f \in born : Steps(MemAuthorizeManualRecoveryReplay(f, e)) /\ Replays(f, e)
  \/ \E e \in Events :
       \/ Steps(MemCancelPublication(e)) /\ Quiet
       \/ Steps(MemReconcileExpiredConsumerAttemptLease(e)) /\ Quiet
       \/ \E kind \in {"expired", "restored"} : Steps(MemMarkAuditDelivered(e, kind)) /\ Quiet
       \/ Steps(MemClose(e)) /\ Quiet
       \/ ResolutionAuditDelivered(e)
       \/ \E t \in Tokens :
            \/ TwinPublish(e, t)
            \/ \E reason \in {"job_missing", "job_failed"} :
                 Steps(MemReconcileTerminalFailure(e, t, reason)) /\ Quiet
            \/ \E c \in Claims :
                 \/ TwinAttempt(e, t, c)
                 \/ \E s \in {"scheduled", "scrape_time"} : TwinLeasedAttempt(s, e, t, c)
                 \/ \E outcome \in {"safe_to_retry", "mutation_confirmed",
                                    "resolved_no_retry"} :
                      Steps(MemResolveConsumerManualRecovery(e, t, c)) /\ Decides(e, outcome)
  \/ Age

TwinSpec == EpisodeInit /\ [][TwinNext]_episodeVars

\* Of the ledger the operator's decision needs that what is decided is settled.
LEMMA StoreLeads ==
  ASSUME IInv, SettledIsResolved PROVE Leads
<1>1. RowInv /\ DecisionsSettle
  BY DEF IInv, Ledger
<1> QED
  BY <1>1, BirthsAndEndsLead, PublicationsLead, AttemptsLead, LeasesLead DEF Leads

\* So the repository's next step is the store's.
LEMMA TwinStep ==
  ASSUME IInv, SettledIsResolved, TwinNext PROVE EpisodeNext
<1>0. born \subseteq Events
  BY DEF IInv, RowInv, EpisodeTypeOK
<1>1. Leads
  BY StoreLeads
<1>2. ASSUME NEW e \in Events \ born,
             \/ Steps(MemGetOrCreate(e)) /\ Bears(e)
             \/ \E f \in born : Steps(MemAuthorizeManualRecoveryReplay(f, e)) /\ Replays(f, e)
      PROVE  Create(e) \/ \E f \in born : AuthorizeManualRecoveryReplay(f, e)
  BY <1>0, <1>1, <1>2 DEF Leads, LeadsBirthsAndEnds
<1>3. ASSUME NEW e \in Events,
             \/ Steps(MemCancelPublication(e)) /\ Quiet
             \/ Steps(MemReconcileExpiredConsumerAttemptLease(e)) /\ Quiet
             \/ \E kind \in {"expired", "restored"} : Steps(MemMarkAuditDelivered(e, kind)) /\ Quiet
             \/ Steps(MemClose(e)) /\ Quiet
      PROVE  \/ CancelPublication(e) \/ ReconcileExpiredConsumerAttemptLease(e)
             \/ MarkExpiredAudit(e) \/ MarkRestoredAudit(e) \/ Close(e)
  BY <1>1, <1>3 DEF Leads, LeadsBirthsAndEnds
<1>4. ASSUME NEW e \in Events, NEW t \in Tokens, TwinPublish(e, t) PROVE Publish(e, t)
  BY <1>1, <1>4 DEF Leads, LeadsPublications, TwinPublish, Publish
<1>5. ASSUME NEW e \in Events, NEW t \in Tokens, NEW reason \in {"job_missing", "job_failed"},
             Steps(MemReconcileTerminalFailure(e, t, reason)) /\ Quiet
      PROVE  ReconcileTerminalFailure(e, t, reason)
  BY <1>1, <1>5 DEF Leads, LeadsPublications
<1>6. ASSUME NEW e \in Events, NEW t \in Tokens, NEW c \in Claims, TwinAttempt(e, t, c)
      PROVE  Attempt(e, t, c)
  BY <1>1, <1>6 DEF Leads, LeadsAttempts, TwinAttempt, Attempt
<1>7. ASSUME NEW e \in Events, NEW t \in Tokens, NEW c \in Claims,
             NEW s \in {"scheduled", "scrape_time"}, TwinLeasedAttempt(s, e, t, c)
      PROVE  LeasedAttempt(s, e, t, c)
  BY <1>1, <1>7 DEF Leads, LeadsLeases, TwinLeasedAttempt, LeasedAttempt
<1>8. ASSUME NEW e \in Events, NEW t \in Tokens, NEW c \in Claims,
             NEW outcome \in {"safe_to_retry", "mutation_confirmed", "resolved_no_retry"},
             Steps(MemResolveConsumerManualRecovery(e, t, c)) /\ Decides(e, outcome)
      PROVE  ResolveConsumerManualRecovery(e, t, c, outcome)
  BY <1>1, <1>8 DEF Leads, LeadsAttempts
<1> QED
  BY <1>2, <1>3, <1>4, <1>5, <1>6, <1>7, <1>8 DEF TwinNext, EpisodeNext

\* The other half of TwinAgrees, without ENABLED too: the repository of the tests
\* implements the database's.  What it accepts, the database accepts, and makes the
\* same row of it, so every run of the one is a run of the other.
THEOREM TwinImplementsStore == TwinSpec => EpisodeSpec
<1>1. EpisodeInit => IInv /\ SettledIsResolved
  BY InitEstablishes DEF EpisodeInit, SettledIsResolved
<1>2. IInv /\ SettledIsResolved /\ [TwinNext]_episodeVars => [EpisodeNext]_episodeVars
  BY TwinStep
<1>3. IInv /\ SettledIsResolved /\ [EpisodeNext]_episodeVars => (IInv /\ SettledIsResolved)'
  BY NextKeeps, SettledStep
<1> QED
  BY <1>1, <1>2, <1>3, PTL DEF TwinSpec, EpisodeSpec

\* What is proved of the database's repository, the tests can rely on in theirs.
THEOREM TwinIsSafe ==
  TwinSpec => [](/\ RowStaysReadable /\ OneMutationPerEvent
                 /\ UnsettledMutationIsKept /\ ReplayIsEarned)
<1>1. IInv => /\ RowStaysReadable /\ OneMutationPerEvent
              /\ UnsettledMutationIsKept /\ ReplayIsEarned
  BY DEF IInv, RowInv, Ledger
<1> QED
  BY <1>1, TwinImplementsStore, Invariance, PTL

-----------------------------------------------------------------------------
(* Monitors, workers and operators.  They may give a row the id of one     *)
(* that was closed, so the ledger of the store does not hold for them; its *)
(* row does, and with it goes what each process has read.                  *)

\* The row's marks are true of the audit log.
MarksAreTrue ==
  episode.event # None =>
    /\ episode.expired  => <<"expired", episode.event>> \in audits
    /\ episode.restored => <<"restored", episode.event>> \in audits

\* The login that claimant w was told to start is the row's, unless an operator
\* has decided about its event.
InHand(w, e) ==
  \/ /\ episode.event = e /\ e # None
     /\ episode.claim = w /\ episode.attempt \in Unresolved
  \/ e \in Events /\ resolution[e].outcome # "none"

\* What process p has read, in its snapshot s.
SnapshotOK(p, s) ==
  /\ s.pc = "claimPublication" => s.token \in Tokens
  /\ s.kind = "restored" => <<"expired", s.event>> \in audits
  /\ s.pc \in {"audit", "mark", "reread"} => s.event \in Events
  /\ s.pc = "mark" => <<s.kind, s.event>> \in audits
  /\ s.pc \in {"cancel", "close"} => <<"restored", s.event>> \in audits
  /\ s.pc = "login" => p \in Workers /\ InHand(p, s.event)

\* A job that waits or runs has an attempt left, and only one that runs is held.
JobsOK ==
  /\ jobs \in [Events -> Jobs]
  /\ \A e \in Events :
       /\ jobs[e].state \in {"waiting", "active"} => jobs[e].tries < MaxAttempts
       /\ jobs[e].holder # None => jobs[e].state = "active"

\* The rest of the world: types, and the order of the audits.
WorldOK ==
  /\ memory \in [Monitors -> Memories]
  /\ session \in {"active", "expired"}
  /\ audits \subseteq {"expired", "restored"} \X Events
  /\ closed \subseteq Events
  /\ expiries \in 0..MaxExpiries /\ mishaps \in 0..MaxMishaps
  /\ AuditsPrecedeClose

RInv ==
  /\ RowInv /\ MarksAreTrue /\ JobsOK /\ WorldOK
  /\ proc \in [Processes -> Snapshots]
  /\ \A p \in Processes : SnapshotOK(p, proc[p])

-----------------------------------------------------------------------------
(* What the statements they call do to the row.                            *)

\* The calls made on behalf of claim c; an audit is marked once it is recorded.
Calls(c) ==
  \/ \E e \in Events :
       \/ Create(e) \/ CancelPublication(e) \/ Close(e) \/ ResolutionAuditDelivered(e)
       \/ \E f \in Events : AuthorizeManualRecoveryReplay(e, f)
       \/ MarkExpiredAudit(e) /\ <<"expired", e>> \in audits
       \/ MarkRestoredAudit(e) /\ <<"restored", e>> \in audits
       \/ \E t \in Tokens :
            \/ Publish(e, t)
            \/ \E reason \in {"job_missing", "job_failed"} :
                 ReconcileTerminalFailure(e, t, reason)
            \/ \E d \in Claims :
                 \/ ClaimConsumerAttempt(e, t, d)
                 \/ MarkConsumerMutationStarted(e, t, d)
                 \/ MarkConsumerManualRecoveryRequired(e, t, d)
                 \/ ResolveConsumerManualRecovery(e, t, d, "safe_to_retry")
            \/ c \in Claims /\ MarkConsumerResolved(e, t, c)
  \/ Age

\* Only the claimant itself takes the login in hand away without a decision.
HandsKept(c) == \A w, e : w # c /\ InHand(w, e) => InHand(w, e)'

\* The marks of the row are as they were.
MarksKept ==
  /\ episode'.event = episode.event
  /\ episode'.expired = episode.expired /\ episode'.restored = episode.restored

LEMMA KeptHands ==
  ASSUME Kept, NEW c PROVE HandsKept(c)
BY DEF Kept, Quiet, HandsKept, InHand

LEMMA KeptMarks ==
  ASSUME MarksAreTrue, MarksKept, audits \subseteq audits' PROVE MarksAreTrue'
BY DEF MarksAreTrue, MarksKept

\* A row that is born or gone has no marks.
LEMMA UnmarkedRow ==
  ASSUME NEW e, episode' = Fresh(e) PROVE MarksAreTrue'
<1>1. ~episode'.expired /\ ~episode'.restored
  BY DEF Fresh
<1> QED
  BY <1>1 DEF MarksAreTrue

LEMMA AttemptedRow ==
  ASSUME episode \in Episodes, NEW state
  PROVE  /\ Attempted(state).event = episode.event
         /\ Attempted(state).expired = episode.expired
         /\ Attempted(state).restored = episode.restored
BY DEF Attempted, Touched, Episodes

LEMMA CallKeeps ==
  ASSUME RowInv, MarksAreTrue, NEW c \in Claims, Calls(c) \/ UNCHANGED episodeVars,
         audits \subseteq audits'
  PROVE  RowInv' /\ MarksAreTrue' /\ HandsKept(c)
<1>0. episode \in Episodes
  BY DEF RowInv, EpisodeTypeOK
<1>1. CASE UNCHANGED episodeVars
  BY <1>1 DEF episodeVars, RowInv, EpisodeTypeOK, RowStaysReadable, MarksAreTrue, HandsKept,
              InHand
<1>2. ASSUME NEW e \in Events, Create(e) PROVE RowInv' /\ MarksAreTrue' /\ HandsKept(c)
  <2>1. HandsKept(c)
    BY <1>2 DEF Create, HandsKept, InHand
  <2> QED
    BY <1>2, <2>1, CreateRow, UnmarkedRow DEF Create
<1>3. ASSUME NEW e \in Events, NEW f \in Events, AuthorizeManualRecoveryReplay(e, f)
      PROVE  RowInv' /\ MarksAreTrue' /\ HandsKept(c)
  <2>1. episode.event = None \/ episode.attempt = "resolved"
    BY <1>3 DEF AuthorizeManualRecoveryReplay
  <2>2. HandsKept(c)
    BY <1>3, <2>1, ReplayRow DEF HandsKept, InHand, Unresolved
  <2> QED
    BY <1>3, <2>2, ReplayRow, UnmarkedRow DEF AuthorizeManualRecoveryReplay
<1>4. ASSUME NEW e \in Events, Close(e) PROVE RowInv' /\ MarksAreTrue' /\ HandsKept(c)
  <2>1. HandsKept(c)
    BY <1>4, CloseRow DEF HandsKept, InHand, Quiet
  <2> QED
    BY <1>4, <2>1, CloseRow, UnmarkedRow DEF Close
<1>5. ASSUME NEW e \in Events, ResolutionAuditDelivered(e)
      PROVE  RowInv' /\ MarksAreTrue' /\ HandsKept(c)
  <2>1. episode' = episode
    BY <1>5 DEF ResolutionAuditDelivered
  <2>2. RowInv' /\ \A f \in Events : resolution'[f].outcome = resolution[f].outcome
    BY <1>5, DeliveredRow
  <2> QED
    BY <2>1, <2>2 DEF MarksAreTrue, HandsKept, InHand
<1>6. ASSUME NEW e \in Events,
             \/ MarkExpiredAudit(e) /\ <<"expired", e>> \in audits
             \/ MarkRestoredAudit(e) /\ <<"restored", e>> \in audits
      PROVE  RowInv' /\ MarksAreTrue' /\ HandsKept(c)
  <2>1. RowInv' /\ Kept
    BY <1>6, AuditSteps
  <2>2. episode.event = e /\ episode'.event = e
    BY <1>6, <2>1 DEF MarkExpiredAudit, MarkRestoredAudit, Exists, Kept
  <2>3. CASE MarkExpiredAudit(e) /\ <<"expired", e>> \in audits
    <3>1. episode'.restored = episode.restored
      BY <1>0, <2>3 DEF MarkExpiredAudit, Touched, Episodes
    <3> QED
      BY <2>1, <2>2, <2>3, <3>1, KeptHands DEF MarksAreTrue
  <2>4. CASE MarkRestoredAudit(e) /\ <<"restored", e>> \in audits
    <3>1. \/ episode' = [[Touched EXCEPT !.claim = None, !.attempt = "none", !.source = "none",
                                         !.lease = None] EXCEPT !.restored = TRUE]
          \/ episode' = [Touched EXCEPT !.restored = TRUE]
      BY <2>4 DEF MarkRestoredAudit
    <3>2. episode'.expired = episode.expired
      BY <1>0, <3>1 DEF Touched, Episodes
    <3> QED
      BY <2>1, <2>2, <2>4, <3>2, KeptHands DEF MarksAreTrue
  <2> QED
    BY <1>6, <2>3, <2>4
<1>7. ASSUME NEW e \in Events, CancelPublication(e) \/ \E t \in Tokens : Publish(e, t)
      PROVE  RowInv' /\ MarksAreTrue' /\ HandsKept(c)
  <2>1. RowInv' /\ Kept
    BY <1>7, CancelStep, PublicationSteps
  <2>2. MarksKept
    BY <1>0, <1>7, <2>1 DEF CancelPublication, Publish, ClaimPublication, MarkPublicationPublished,
       MarkPublicationFailureReported, Touched, Episodes, MarksKept, Kept
  <2> QED
    BY <2>1, <2>2, KeptHands, KeptMarks
<1>8. ASSUME NEW e \in Events, NEW t \in Tokens, NEW reason \in {"job_missing", "job_failed"},
             ReconcileTerminalFailure(e, t, reason)
      PROVE  RowInv' /\ MarksAreTrue' /\ HandsKept(c)
  <2>1. RowInv' /\ Kept
    BY <1>8, TerminalStep
  <2>2. \/ episode' = [[Touched EXCEPT !.attempt = "manual_recovery_required",
                                       !.lease = None] EXCEPT !.terminal = reason]
        \/ episode' = [Touched EXCEPT !.terminal = reason]
    BY <1>8 DEF ReconcileTerminalFailure, Attempted
  <2>3. episode'.expired = episode.expired
    BY <1>0, <2>2 DEF Touched, Episodes
  <2>4. episode'.restored = episode.restored
    BY <1>0, <2>2 DEF Touched, Episodes
  <2>5. MarksKept
    BY <2>1, <2>3, <2>4 DEF MarksKept, Kept
  <2> QED
    BY <2>1, <2>5, KeptHands, KeptMarks
<1>9. ASSUME NEW e \in Events, NEW t \in Tokens, NEW d \in Claims, ClaimConsumerAttempt(e, t, d)
      PROVE  RowInv' /\ MarksAreTrue' /\ HandsKept(c)
  <2>1. RowInv' /\ Kept
    BY <1>9, ClaimSteps
  <2>2. MarksKept
    BY <1>0, <1>9, <2>1 DEF ClaimConsumerAttempt, Touched, Episodes, MarksKept, Kept
  <2> QED
    BY <2>1, <2>2, KeptHands, KeptMarks
<1>10. ASSUME NEW e \in Events, NEW t \in Tokens, NEW d \in Claims,
              MarkConsumerMutationStarted(e, t, d)
       PROVE  RowInv' /\ MarksAreTrue' /\ HandsKept(c)
  <2>1. Claimant(e, t, d) /\ StartMutation(e, d) /\ episode.attempt = "reserved"
    BY <1>10 DEF MarkConsumerMutationStarted, StartMutation, Reserved
  <2>2. /\ episode.event = e /\ episode.claim = d
        /\ episode.source # "none" => episode.terminal = "none"
    BY <2>1, HolderFacts
  <2>3. RowInv' /\ episode'.event = e
    BY <2>1, <2>2, StartRow
  <2>4. MarksKept
    BY <1>0, <2>1, <2>2, <2>3, AttemptedRow DEF StartMutation, MarksKept
  <2>5. HandsKept(c)
    BY <2>1 DEF StartMutation, HandsKept, InHand, Unresolved
  <2> QED
    BY <2>3, <2>4, <2>5, KeptMarks
<1>11. ASSUME NEW e \in Events, NEW t \in Tokens, NEW d \in Claims,
              MarkConsumerManualRecoveryRequired(e, t, d)
       PROVE  RowInv' /\ MarksAreTrue' /\ HandsKept(c)
  <2>1. episode.event # None /\ RequireManualRecovery
    BY <1>11 DEF MarkConsumerManualRecoveryRequired, Claimant, Published, Exists
  <2>2. RowInv' /\ Kept
    BY <2>1, GiveUpSteps
  <2>3. MarksKept
    BY <1>0, <2>1, <2>2, AttemptedRow DEF RequireManualRecovery, MarksKept
  <2> QED
    BY <2>2, <2>3, KeptHands, KeptMarks
<1>12. ASSUME NEW e \in Events, NEW t \in Tokens, NEW d \in Claims,
              ResolveConsumerManualRecovery(e, t, d, "safe_to_retry")
       PROVE  RowInv' /\ MarksAreTrue' /\ HandsKept(c)
  <2>1. /\ RowInv' /\ episode.event = e /\ episode'.event = e
        /\ \A f \in Events \ {e} : resolution'[f] = resolution[f]
        /\ resolution'[e].outcome = "safe_to_retry"
    BY <1>12, DecisionRow
  <2>2. MarksKept
    BY <1>0, <1>12, <2>1 DEF ResolveConsumerManualRecovery, Touched, Episodes, MarksKept
  <2>3. HandsKept(c)
    BY <2>1 DEF HandsKept, InHand
  <2> QED
    BY <2>1, <2>2, <2>3, KeptMarks
<1>13. ASSUME NEW e \in Events, NEW t \in Tokens, MarkConsumerResolved(e, t, c)
       PROVE  RowInv' /\ MarksAreTrue' /\ HandsKept(c)
  <2>1. Claimant(e, t, c) /\ ResolveAttempt(e) /\ episode.attempt \in {"reserved", "mutation_started"}
    BY <1>13 DEF MarkConsumerResolved, ResolveAttempt, Resolvable, Reserved
  <2>2. /\ episode.event = e /\ episode.claim = c
        /\ episode.source # "none" => episode.terminal = "none"
    BY <2>1, HolderFacts
  <2>3. RowInv' /\ episode'.event = e
    BY <2>1, <2>2, ResolveRow
  <2>4. MarksKept
    BY <1>0, <2>1, <2>2, <2>3, AttemptedRow DEF ResolveAttempt, MarksKept
  <2>5. HandsKept(c)
    BY <2>1, <2>2 DEF ResolveAttempt, HandsKept, InHand
  <2> QED
    BY <2>3, <2>4, <2>5, KeptMarks
<1>14. ASSUME Age PROVE RowInv' /\ MarksAreTrue' /\ HandsKept(c)
  <2>1. RowInv' /\ Kept
    BY <1>14, AgeStep
  <2>2. MarksKept
    BY <1>0, <1>14, <2>1 DEF Age, Episodes, MarksKept, Kept
  <2> QED
    BY <2>1, <2>2, KeptHands, KeptMarks
<1> QED
  BY <1>1, <1>2, <1>3, <1>4, <1>5, <1>6, <1>7, <1>8, <1>9, <1>10, <1>11, <1>12, <1>13, <1>14
     DEF Calls

-----------------------------------------------------------------------------
(* Which of those calls a process makes, and what it goes on with.         *)

\* Where a process needs more than types to go on.
Careful == {"claimPublication", "audit", "mark", "reread", "cancel", "close", "login"}

\* A statement that finds its row is presented with an event and a token of the row's.
LEMMA RowNames ==
  ASSUME RowInv, NEW e, NEW t
  PROVE  /\ Exists(e) => e \in Events
         /\ Published(e, t) \/ Publishing(e, t) => e \in Events /\ t \in Tokens
BY DEF RowInv, EpisodeTypeOK, Episodes, RowStaysReadable, Exists, Published, Publishing

LEMMA CallNames ==
  ASSUME RowInv, NEW c \in Claims, NEW e, NEW t
  PROVE  /\ CancelPublication(e) \/ Close(e) => Calls(c)
         /\ MarkPublicationPublished(e, t) \/ MarkPublicationFailureReported(e, t) => Calls(c)
         /\ t \in Tokens /\ ClaimPublication(e, t) => Calls(c)
         /\ \A reason \in {"job_missing", "job_failed"} :
              ReconcileTerminalFailure(e, t, reason) => Calls(c)
         /\ \A d \in Claims :
              ClaimConsumerAttempt(e, t, d) \/ MarkConsumerMutationStarted(e, t, d)
                \/ MarkConsumerManualRecoveryRequired(e, t, d) => Calls(c)
         /\ MarkConsumerResolved(e, t, c) => Calls(c)
<1>1. CancelPublication(e) \/ Close(e) => Exists(e)
  BY DEF CancelPublication, Cancellable, Close, Closable
<1>2. MarkPublicationPublished(e, t) \/ MarkPublicationFailureReported(e, t) => Publishing(e, t)
  BY DEF MarkPublicationPublished, MarkPublicationFailureReported
<1>3. ClaimPublication(e, t) => Exists(e)
  BY DEF ClaimPublication, MayClaimPublication
<1>4. \A reason : ReconcileTerminalFailure(e, t, reason) => Published(e, t)
  BY DEF ReconcileTerminalFailure, Terminable
<1>5. \A d : ClaimConsumerAttempt(e, t, d) \/ MarkConsumerMutationStarted(e, t, d)
               \/ MarkConsumerManualRecoveryRequired(e, t, d) \/ MarkConsumerResolved(e, t, d)
               => Published(e, t)
  BY DEF ClaimConsumerAttempt, MarkConsumerMutationStarted, MarkConsumerManualRecoveryRequired,
         MarkConsumerResolved, Claimant
<1>6. CancelPublication(e) \/ Close(e) => Calls(c)
  BY <1>1, RowNames, Zenon DEF Calls
<1>7. MarkPublicationPublished(e, t) \/ MarkPublicationFailureReported(e, t) => Calls(c)
  BY <1>2, RowNames, Zenon DEF Calls, Publish
<1>8. t \in Tokens /\ ClaimPublication(e, t) => Calls(c)
  BY <1>3, RowNames, Zenon DEF Calls, Publish
<1>9. \A reason \in {"job_missing", "job_failed"} :
        ReconcileTerminalFailure(e, t, reason) => Calls(c)
  BY <1>4, RowNames, Zenon DEF Calls
<1>10. \A d \in Claims :
         ClaimConsumerAttempt(e, t, d) \/ MarkConsumerMutationStarted(e, t, d)
           \/ MarkConsumerManualRecoveryRequired(e, t, d) => Calls(c)
  BY <1>5, RowNames, Zenon DEF Calls
<1>11. ASSUME MarkConsumerResolved(e, t, c) PROVE Calls(c)
  <2>1. e \in Events /\ t \in Tokens
    BY <1>5, <1>11, RowNames
  <2>2. \E f \in Events, u \in Tokens : c \in Claims /\ MarkConsumerResolved(f, u, c)
    BY <1>11, <2>1
  <2> QED
    BY <2>2, Zenon DEF Calls
<1> QED
  BY <1>6, <1>7, <1>8, <1>9, <1>10, <1>11

\* Process p moves to snapshot s; what the others have read stays true.
LEMMA Move ==
  ASSUME RInv, NEW p \in Processes, NEW c \in {p, Schedule}, c \in Claims,
         Calls(c) \/ UNCHANGED episodeVars,
         NEW s \in Snapshots, proc' = [proc EXCEPT ![p] = s],
         audits \subseteq audits', SnapshotOK(p, s)', JobsOK', WorldOK'
  PROVE  RInv'
<1>1. RowInv' /\ MarksAreTrue' /\ HandsKept(c)
  BY CallKeeps DEF RInv
<1>2. proc \in [Processes -> Snapshots] /\ proc' \in [Processes -> Snapshots]
  BY DEF RInv
<1>3. SnapshotOK(p, proc[p])'
  BY <1>2
<1>4. ASSUME NEW q \in Processes, q # p PROVE SnapshotOK(q, proc[q])'
  <2>1. proc'[q] = proc[q]
    BY <1>2, <1>4
  <2>2. SnapshotOK(q, proc[q])
    BY DEF RInv
  <2>3. proc[q].pc = "login" => q # c
    BY <1>4, <2>2, RecoveryAssumption DEF SnapshotOK
  <2>4. proc[q].pc = "login" => InHand(q, proc[q].event)'
    BY <1>1, <2>1, <2>2, <2>3 DEF SnapshotOK, HandsKept, InHand
  <2> QED
    BY <2>1, <2>2, <2>4 DEF SnapshotOK
<1> QED
  BY <1>1, <1>2, <1>3, <1>4 DEF RInv

\* The process goes on where types are enough, with the audit it was at, if any.
LEMMA PlainMove ==
  ASSUME RInv, NEW p \in Processes, NEW c \in {p, Schedule}, c \in Claims,
         Calls(c) \/ UNCHANGED episodeVars,
         NEW s \in Snapshots, proc' = [proc EXCEPT ![p] = s], s.pc \notin Careful,
         s.kind = "restored" => proc[p].kind = "restored" /\ s.event = proc[p].event,
         UNCHANGED audits, JobsOK', WorldOK'
  PROVE  RInv'
<1>1. SnapshotOK(p, proc[p])
  BY DEF RInv
<1>2. SnapshotOK(p, s)'
  BY <1>1 DEF SnapshotOK, Careful
<1> QED
  BY <1>2, Move

LEMMA GotoMove ==
  ASSUME RInv, NEW p \in Processes, NEW c \in {p, Schedule}, c \in Claims,
         Calls(c) \/ UNCHANGED episodeVars,
         NEW pc \in PCs \ Careful, Goto(p, pc), UNCHANGED audits, JobsOK', WorldOK'
  PROVE  RInv'
<1> DEFINE s == [proc[p] EXCEPT !.pc = pc]
<1>1. proc \in [Processes -> Snapshots]
  BY DEF RInv
<1>2. proc[p] \in Snapshots
  BY <1>1
<1>3. /\ s \in Snapshots /\ s.pc = pc
      /\ s.kind = proc[p].kind /\ s.event = proc[p].event
  BY <1>2 DEF Snapshots
<1>4. proc' = [proc EXCEPT ![p] = s]
  BY DEF Goto
<1>5. PICK r : r = s
  OBVIOUS
<1> HIDE DEF s
<1> QED
  BY <1>3, <1>4, <1>5, PlainMove

\* The process has done with the episode, or with its part of the tick.
LEMMA DoneMove ==
  ASSUME RInv, NEW p \in Processes, NEW c \in {p, Schedule}, c \in Claims,
         Calls(c) \/ UNCHANGED episodeVars,
         Done(p) \/ EndTick(p), UNCHANGED audits, JobsOK', WorldOK'
  PROVE  RInv'
<1>1. PICK s \in {Idle, Observer} : proc' = [proc EXCEPT ![p] = s]
  BY DEF Done, EndTick
<1>2. CASE s = Idle
  <2>1. s \in Snapshots /\ s.pc \notin Careful /\ s.kind = "expired"
    BY <1>2 DEF Idle, Snapshots, PCs, Careful
  <2> QED
    BY <1>1, <2>1, PlainMove
<1>3. CASE s = Observer
  <2>1. s \in Snapshots /\ s.pc \notin Careful /\ s.kind = "expired"
    BY <1>3 DEF Idle, Observer, Snapshots, PCs, Careful
  <2> QED
    BY <1>1, <2>1, PlainMove
<1> QED
  BY <1>1, <1>2, <1>3

LEMMA SameWorld ==
  ASSUME RInv, UNCHANGED world PROVE JobsOK' /\ WorldOK' /\ UNCHANGED audits
BY DEF RInv, world, JobsOK, WorldOK, AuditsPrecedeClose

\* Only what a monitor remembers changes, and a few counts.
LEMMA SameOrders ==
  ASSUME RInv, memory' \in [Monitors -> Memories], session' \in {"active", "expired"},
         expiries' \in 0..MaxExpiries, mishaps' \in 0..MaxMishaps,
         UNCHANGED <<jobs, audits, closed>>
  PROVE  JobsOK' /\ WorldOK'
BY DEF RInv, JobsOK, WorldOK, AuditsPrecedeClose

LEMMA SettledMemory ==
  ASSUME memory \in [Monitors -> Memories], NEW m, Settle(m)
  PROVE  memory' \in [Monitors -> Memories]
BY DEF Settle, Memories

-----------------------------------------------------------------------------
(* The audits of an episode.                                               *)

\* An audit that is delivered was recorded.
LEMMA DeliveredIsRecorded ==
  ASSUME RInv, NEW e, NEW kind \in {"expired", "restored"}, Delivered(e, kind)
  PROVE  <<kind, e>> \in audits /\ e \in Events
<1>1. MarksAreTrue /\ Exists(e) /\ e \in Events
  BY RowNames DEF RInv, Delivered
<1>2. CASE kind = "expired"
  BY <1>1, <1>2 DEF MarksAreTrue, Delivered, Exists
<1>3. CASE kind = "restored"
  BY <1>1, <1>3 DEF MarksAreTrue, Delivered, Exists
<1> QED
  BY <1>1, <1>2, <1>3

\* At the expired audit of an episode.
LEMMA ExpiredMove ==
  ASSUME RInv, NEW p \in Processes, NEW c \in {p, Schedule}, c \in Claims,
         Calls(c) \/ UNCHANGED episodeVars,
         NEW row, row.event \in Events, NEW stage \in {"tick", "restore"},
         proc' = [proc EXCEPT ![p] = Expired(row, stage)],
         UNCHANGED audits, JobsOK', WorldOK'
  PROVE  RInv'
<1>1. PICK s : s = Expired(row, stage)
  OBVIOUS
<1>2. /\ s \in Snapshots /\ s.pc = "audit" /\ s.kind = "expired"
      /\ s.event \in Events
  BY <1>1 DEF Expired, Idle, Snapshots, PCs
<1>3. SnapshotOK(p, s)'
  BY <1>2 DEF SnapshotOK
<1> QED
  BY <1>1, <1>2, <1>3, Move

LEMMA Acknowledged ==
  ASSUME RInv, NEW p \in Processes, Calls(Schedule) \/ UNCHANGED episodeVars,
         <<proc[p].kind, proc[p].event>> \in audits, proc[p].event \in Events,
         AuditAcknowledged(p), UNCHANGED <<jobs, session, audits, closed, expiries, mishaps>>
  PROVE  RInv'
<1>1. /\ proc \in [Processes -> Snapshots] /\ proc[p] \in Snapshots
      /\ memory \in [Monitors -> Memories] /\ SnapshotOK(p, proc[p]) /\ WorldOK
  BY DEF RInv, WorldOK
<1>2. Schedule \in Claims
  BY RecoveryAssumption
<1>3. memory' \in [Monitors -> Memories]
  BY <1>1, SettledMemory DEF AuditAcknowledged
<1>4. JobsOK' /\ WorldOK'
  BY <1>1, <1>3, SameOrders DEF WorldOK
<1>5. CASE EndTick(p)
  BY <1>2, <1>4, <1>5, DoneMove
<1>6. CASE proc' = [proc EXCEPT ![p] = [Idle EXCEPT !.pc = "publish", !.event = proc[p].event]]
  <2>1. PICK s : s = [Idle EXCEPT !.pc = "publish", !.event = proc[p].event]
    OBVIOUS
  <2>2. s \in Snapshots /\ s.pc \notin Careful /\ s.kind = "expired"
    BY <2>1 DEF Idle, Snapshots, PCs, Careful
  <2> QED
    BY <1>2, <1>4, <1>6, <2>1, <2>2, PlainMove
<1>7. CASE proc' = [proc EXCEPT ![p].pc = IF proc[p].kind = "restored" THEN "cancel" ELSE "audit",
                                ![p].kind = "restored"]
  <2>1. PICK s : s = [proc[p] EXCEPT
                        !.pc = IF proc[p].kind = "restored" THEN "cancel" ELSE "audit",
                        !.kind = "restored"]
    OBVIOUS
  <2>2. /\ s \in Snapshots /\ s.kind = "restored" /\ s.event = proc[p].event
        /\ s.pc = IF proc[p].kind = "restored" THEN "cancel" ELSE "audit"
    BY <1>1, <2>1 DEF Snapshots, PCs
  <2>3. proc' = [proc EXCEPT ![p] = s]
    BY <1>1, <1>7, <2>1
  <2>4. <<"expired", s.event>> \in audits
    BY <1>1, <2>2 DEF Snapshots, SnapshotOK
  <2>5. SnapshotOK(p, s)'
    BY <1>1, <2>2, <2>4 DEF SnapshotOK
  <2> QED
    BY <1>2, <1>4, <2>2, <2>3, <2>5, Move
<1> QED
  BY <1>5, <1>6, <1>7 DEF AuditAcknowledged

LEMMA Refused ==
  ASSUME RInv, NEW p \in Processes, AuditRefused(p), mishaps' \in 0..MaxMishaps,
         UNCHANGED <<episodeVars, jobs, session, audits, closed, expiries>>
  PROVE  RInv'
<1>1. memory \in [Monitors -> Memories] /\ Schedule \in Claims /\ WorldOK
  BY RecoveryAssumption DEF RInv, WorldOK
<1>2. memory' \in [Monitors -> Memories]
  BY <1>1, SettledMemory DEF AuditRefused
<1>3. JobsOK' /\ WorldOK'
  BY <1>1, <1>2, SameOrders DEF WorldOK
<1>4. CASE EndTick(p)
  BY <1>1, <1>3, <1>4, DoneMove
<1>5. CASE Goto(p, "recheck")
  <2>1. "recheck" \in PCs \ Careful
    BY DEF PCs, Careful
  <2> QED
    BY <1>1, <1>3, <1>5, <2>1, GotoMove
<1> QED
  BY <1>4, <1>5 DEF AuditRefused

LEMMA Mishaps ==
  ASSUME mishaps \in 0..MaxMishaps, Mishap PROVE mishaps' \in 0..MaxMishaps
BY RecoveryAssumption DEF Mishap

LEMMA RecordStep ==
  ASSUME RInv, NEW p \in Processes, RecordAudit(p) PROVE RInv'
<1>1. /\ proc \in [Processes -> Snapshots] /\ proc[p] \in Snapshots /\ proc[p].pc = "audit"
      /\ SnapshotOK(p, proc[p]) /\ WorldOK /\ JobsOK
  BY DEF RInv, RecordAudit, At
<1>2. proc[p].event \in Events /\ proc[p].kind \in {"expired", "restored"}
  BY <1>1 DEF SnapshotOK, Snapshots
<1>3. CASE Delivered(proc[p].event, proc[p].kind) /\ AuditAcknowledged(p)
           /\ UNCHANGED <<audits, mishaps>>
  <2>1. <<proc[p].kind, proc[p].event>> \in audits
    BY <1>2, <1>3, DeliveredIsRecorded
  <2> QED
    BY <1>2, <1>3, <2>1, Acknowledged DEF RecordAudit
<1>4. CASE Mishap /\ AuditRefused(p) /\ UNCHANGED audits
  <2>1. mishaps' \in 0..MaxMishaps
    BY <1>1, <1>4, Mishaps DEF WorldOK
  <2> QED
    BY <1>4, <2>1, Refused DEF RecordAudit
<1>5. CASE /\ audits' = audits \cup {<<proc[p].kind, proc[p].event>>}
           /\ Goto(p, "mark") /\ UNCHANGED <<memory, mishaps>>
  <2>1. UNCHANGED <<episodeVars, memory, jobs, session, closed, expiries, mishaps>>
    BY <1>5 DEF RecordAudit
  <2>2. PICK s : s = [proc[p] EXCEPT !.pc = "mark"]
    OBVIOUS
  <2>3. /\ s \in Snapshots /\ s.pc = "mark" /\ s.kind = proc[p].kind
        /\ s.event = proc[p].event
    BY <1>1, <2>2 DEF Snapshots, PCs
  <2>4. proc' = [proc EXCEPT ![p] = s]
    BY <1>1, <1>5, <2>2 DEF Goto
  <2>5. SnapshotOK(p, s)'
    BY <1>1, <1>2, <1>5, <2>3 DEF SnapshotOK
  <2>6. AuditsPrecedeClose'
    <3>1. \A e \in closed' : <<"restored", e>> \in audits'
      BY <1>1, <1>5, <2>1 DEF WorldOK, AuditsPrecedeClose
    <3>2. ASSUME NEW e \in Events, <<"restored", e>> \in audits'
          PROVE  <<"expired", e>> \in audits'
      <4>1. CASE <<"restored", e>> \in audits
        BY <1>1, <1>5, <4>1 DEF WorldOK, AuditsPrecedeClose
      <4>2. CASE proc[p].kind = "restored" /\ e = proc[p].event
        BY <1>1, <1>5, <4>2 DEF SnapshotOK
      <4> QED
        BY <1>5, <3>2, <4>1, <4>2
    <3> QED
      BY <3>1, <3>2 DEF AuditsPrecedeClose
  <2>7. audits' \subseteq {"expired", "restored"} \X Events
    BY <1>1, <1>2, <1>5 DEF WorldOK
  <2>8. JobsOK' /\ WorldOK'
    BY <1>1, <2>1, <2>6, <2>7 DEF JobsOK, WorldOK
  <2>9. Schedule \in Claims /\ audits \subseteq audits'
    BY <1>5, RecoveryAssumption
  <2> QED
    BY <2>1, <2>3, <2>4, <2>5, <2>8, <2>9, Move
<1> QED
  BY <1>3, <1>4, <1>5 DEF RecordAudit

LEMMA MarkStep ==
  ASSUME RInv, NEW p \in Processes, MarkAudit(p) PROVE RInv'
<1> DEFINE e == proc[p].event
<1>1. /\ proc \in [Processes -> Snapshots] /\ proc[p] \in Snapshots /\ proc[p].pc = "mark"
      /\ SnapshotOK(p, proc[p]) /\ WorldOK /\ Schedule \in Claims
      /\ UNCHANGED <<jobs, session, audits, closed, expiries, mishaps>>
  BY RecoveryAssumption DEF RInv, MarkAudit, At
<1>2. e \in Events /\ <<proc[p].kind, e>> \in audits
  BY <1>1 DEF SnapshotOK
<1>3. CASE /\ AuditAcknowledged(p)
           /\ \/ proc[p].kind = "expired" /\ MarkExpiredAudit(e)
              \/ proc[p].kind = "restored" /\ MarkRestoredAudit(e)
  <2>1. \/ MarkExpiredAudit(e) /\ <<"expired", e>> \in audits
        \/ MarkRestoredAudit(e) /\ <<"restored", e>> \in audits
    BY <1>2, <1>3
  <2>2. Calls(Schedule)
    BY <1>2, <2>1, Zenon DEF Calls
  <2> QED
    BY <1>1, <1>2, <1>3, <2>2, Acknowledged
<1>4. CASE Goto(p, "reread") /\ UNCHANGED <<episodeVars, memory>>
  <2>1. PICK s : s = [proc[p] EXCEPT !.pc = "reread"]
    OBVIOUS
  <2>2. /\ s \in Snapshots /\ s.pc = "reread" /\ s.kind = proc[p].kind
        /\ s.event = proc[p].event
    BY <1>1, <2>1 DEF Snapshots, PCs
  <2>3. proc' = [proc EXCEPT ![p] = s]
    BY <1>1, <1>4, <2>1 DEF Goto
  <2>4. SnapshotOK(p, s)'
    BY <1>1, <1>2, <2>2 DEF SnapshotOK
  <2>5. UNCHANGED world
    BY <1>1, <1>4 DEF world
  <2> QED
    BY <1>1, <1>4, <2>2, <2>3, <2>4, <2>5, SameWorld, Move
<1> QED
  BY <1>3, <1>4 DEF MarkAudit

LEMMA RereadStep ==
  ASSUME RInv, NEW p \in Processes, RereadAudit(p) PROVE RInv'
<1>1. /\ proc[p] \in Snapshots /\ WorldOK
      /\ UNCHANGED <<episodeVars, jobs, session, audits, closed, expiries, mishaps>>
  BY DEF RInv, RereadAudit
<1>2. CASE Delivered(proc[p].event, proc[p].kind) /\ AuditAcknowledged(p)
  <2>1. proc[p].kind \in {"expired", "restored"}
    BY <1>1 DEF Snapshots
  <2>2. <<proc[p].kind, proc[p].event>> \in audits /\ proc[p].event \in Events
    BY <1>2, <2>1, DeliveredIsRecorded
  <2> QED
    BY <1>1, <1>2, <2>2, Acknowledged
<1>3. CASE AuditRefused(p)
  BY <1>1, <1>3, Refused DEF WorldOK
<1> QED
  BY <1>2, <1>3 DEF RereadAudit

-----------------------------------------------------------------------------
(* The end of a restoration.                                               *)

LEMMA RestoredMove ==
  ASSUME RInv, NEW p \in Processes, Calls(Schedule) \/ UNCHANGED episodeVars,
         NEW gone, Restored(p, gone), closed' \subseteq Events,
         \A e \in closed' : <<"restored", e>> \in audits,
         UNCHANGED <<jobs, session, audits, expiries, mishaps>>
  PROVE  RInv'
<1>1. memory \in [Monitors -> Memories] /\ Schedule \in Claims /\ WorldOK
  BY RecoveryAssumption DEF RInv, WorldOK
<1>2. memory' \in [Monitors -> Memories]
  BY <1>1 DEF Restored, Memories
<1>3. JobsOK' /\ WorldOK'
  BY <1>1, <1>2 DEF RInv, JobsOK, WorldOK, AuditsPrecedeClose
<1> QED
  BY <1>1, <1>3, DoneMove DEF Restored

LEMMA CancelProcessStep ==
  ASSUME RInv, NEW p \in Processes, Cancel(p) PROVE RInv'
<1>1. /\ proc \in [Processes -> Snapshots] /\ proc[p] \in Snapshots /\ proc[p].pc = "cancel"
      /\ SnapshotOK(p, proc[p]) /\ Schedule \in Claims /\ UNCHANGED world
  BY RecoveryAssumption DEF RInv, Cancel, At
<1>2. Calls(Schedule) \/ UNCHANGED episodeVars
  BY <1>1, CallNames DEF RInv, Cancel
<1>3. PICK s : s = [proc[p] EXCEPT !.pc = "close"]
  OBVIOUS
<1>4. /\ s \in Snapshots /\ s.pc = "close" /\ s.kind = proc[p].kind
      /\ s.event = proc[p].event
  BY <1>1, <1>3 DEF Snapshots, PCs
<1>5. proc' = [proc EXCEPT ![p] = s]
  BY <1>1, <1>3 DEF Cancel, Goto
<1>6. SnapshotOK(p, s)'
  BY <1>1, <1>4, SameWorld DEF SnapshotOK
<1> QED
  BY <1>1, <1>2, <1>4, <1>5, <1>6, SameWorld, Move

LEMMA CloseProcessStep ==
  ASSUME RInv, NEW p \in Processes, CloseEpisode(p) PROVE RInv'
<1> DEFINE e == proc[p].event
<1>1. /\ SnapshotOK(p, proc[p]) /\ proc[p].pc = "close" /\ Schedule \in Claims /\ WorldOK
      /\ UNCHANGED <<jobs, session, audits, expiries, mishaps>>
  BY RecoveryAssumption DEF RInv, CloseEpisode, At
<1>2. CASE Close(e) /\ closed' = closed \cup {e} /\ Restored(p, TRUE)
  <2>1. e \in Events
    BY <1>2, RowNames DEF RInv, Close, Closable
  <2>2. Calls(Schedule)
    BY <1>1, <1>2, CallNames DEF RInv
  <2>3. /\ closed' \subseteq Events
        /\ \A f \in closed' : <<"restored", f>> \in audits
    BY <1>1, <1>2, <2>1 DEF SnapshotOK, WorldOK, AuditsPrecedeClose
  <2> QED
    BY <1>1, <1>2, <2>2, <2>3, RestoredMove
<1>3. CASE Goto(p, "recheck") /\ UNCHANGED <<episodeVars, closed, memory>>
  <2>1. "recheck" \in PCs \ Careful /\ UNCHANGED world
    BY <1>1, <1>3 DEF PCs, Careful, world
  <2> QED
    BY <1>1, <1>3, <2>1, SameWorld, GotoMove
<1> QED
  BY <1>2, <1>3 DEF CloseEpisode

LEMMA RecheckStep ==
  ASSUME RInv, NEW p \in Processes, Recheck(p) PROVE RInv'
<1>1. /\ closed' \subseteq Events
      /\ \A e \in closed' : <<"restored", e>> \in audits
  BY DEF RInv, WorldOK, AuditsPrecedeClose, Recheck
<1> QED
  BY <1>1, RestoredMove DEF Recheck

LEMMA RestoreSteps ==
  ASSUME RInv, NEW p \in Processes, RestoreStep(p) PROVE RInv'
BY RecordStep, MarkStep, RereadStep, CancelProcessStep, CloseProcessStep, RecheckStep
   DEF RestoreStep

-----------------------------------------------------------------------------
(* A monitor's tick.                                                       *)

LEMMA MonitorFacts ==
  ASSUME RInv, NEW m \in Monitors
  PROVE  /\ m \in Processes /\ m \in Tokens /\ m # None /\ Schedule \in Claims
         /\ proc \in [Processes -> Snapshots] /\ proc[m] \in Snapshots
         /\ SnapshotOK(m, proc[m])
         /\ memory \in [Monitors -> Memories] /\ memory[m] \in Memories
         /\ mishaps \in 0..MaxMishaps /\ expiries \in 0..MaxExpiries
         /\ session \in {"active", "expired"}
         /\ RowInv /\ episode \in Episodes
BY RecoveryAssumption, EpisodeAssumption
   DEF RInv, WorldOK, Processes, RowInv, EpisodeTypeOK

LEMMA CheckStep ==
  ASSUME RInv, NEW m \in Monitors, Check(m) PROVE RInv'
<1>1. UNCHANGED <<episodeVars, jobs, session, audits, closed, expiries, mishaps>>
  BY DEF Check
<1>2. memory' \in [Monitors -> Memories]
  <2>1. CASE BadTick(m)
    <3>1. memory' = [memory EXCEPT ![m].pending = TRUE] \/ UNCHANGED memory
      BY <2>1 DEF BadTick
    <3>2. memory \in [Monitors -> Memories]
      BY MonitorFacts
    <3> QED
      BY <3>1, <3>2 DEF Memories
  <2>2. CASE ActiveTick(m)
    BY <2>2, MonitorFacts, SettledMemory DEF ActiveTick
  <2> QED
    BY <2>1, <2>2 DEF Check
<1>3. JobsOK' /\ WorldOK'
  BY <1>1, <1>2, MonitorFacts, SameOrders
<1>4. CASE Goto(m, "elect")
  <2>1. "elect" \in PCs \ Careful
    BY DEF PCs, Careful
  <2> QED
    BY <1>1, <1>3, <1>4, <2>1, MonitorFacts, GotoMove
<1>5. CASE EndTick(m)
  BY <1>1, <1>3, <1>5, MonitorFacts, DoneMove
<1>6. CASE ActiveTick(m)
  <2> DEFINE known == memory[m].recovery
  <2>1. PICK s : s = [Idle EXCEPT !.pc = IF known = None THEN "find" ELSE "audit",
                                  !.event = known, !.stage = "restore"]
    OBVIOUS
  <2>2. proc' = [proc EXCEPT ![m] = s]
    BY <1>6, <2>1 DEF ActiveTick
  <2>3. known \in Events \cup {None}
    BY MonitorFacts DEF Memories
  <2>4. /\ s \in Snapshots /\ s.kind = "expired" /\ s.event = known
        /\ s.pc = IF known = None THEN "find" ELSE "audit"
    BY <2>1, <2>3 DEF Idle, Snapshots, PCs
  <2>5. SnapshotOK(m, s)'
    BY <2>3, <2>4 DEF SnapshotOK
  <2> QED
    BY <1>1, <1>3, <2>2, <2>4, <2>5, MonitorFacts, Move
<1> QED
  BY <1>4, <1>5, <1>6 DEF Check, BadTick

LEMMA ElectStep ==
  ASSUME RInv, NEW m \in Monitors, Elect(m) PROVE RInv'
<1>1. UNCHANGED <<jobs, session, audits, closed, expiries>>
  BY DEF Elect
<1>2. mishaps' \in 0..MaxMishaps
  BY MonitorFacts, Mishaps DEF Elect
<1>3. \A e \in Events : Create(e) => Calls(Schedule)
  BY Zenon DEF Calls
<1>4. CASE \E e \in Events :
             /\ Create(e)
             /\ memory' = [memory EXCEPT ![m].recovery = e, ![m].candidate = e]
             /\ proc' = [proc EXCEPT ![m] = Expired(Fresh(e), "tick")]
  <2>1. PICK e \in Events :
          /\ Create(e)
          /\ memory' = [memory EXCEPT ![m].recovery = e, ![m].candidate = e]
          /\ proc' = [proc EXCEPT ![m] = Expired(Fresh(e), "tick")]
    BY <1>4
  <2>2. memory' \in [Monitors -> Memories]
    BY <2>1, MonitorFacts DEF Memories
  <2>3. Fresh(e).event \in Events
    BY DEF Fresh
  <2> QED
    BY <1>1, <1>2, <1>3, <2>1, <2>2, <2>3, MonitorFacts, SameOrders, ExpiredMove
<1>5. CASE /\ episode.event # None
           /\ memory' = [memory EXCEPT ![m].recovery = episode.event]
           /\ proc' = [proc EXCEPT ![m] = Expired(episode, "tick")]
           /\ UNCHANGED episodeVars
  <2>1. episode.event \in Events
    BY <1>5, MonitorFacts DEF Episodes
  <2>2. memory' \in [Monitors -> Memories]
    BY <1>5, <2>1, MonitorFacts DEF Memories
  <2> QED
    BY <1>1, <1>2, <1>5, <2>1, <2>2, MonitorFacts, SameOrders, ExpiredMove
<1>6. CASE /\ EndTick(m)
           /\ \/ UNCHANGED <<episodeVars, memory>>
              \/ \E e \in Events : /\ Create(e)
                                   /\ memory' = [memory EXCEPT ![m].candidate = e]
  <2>1. Calls(Schedule) \/ UNCHANGED episodeVars
    BY <1>3, <1>6
  <2>2. memory' \in [Monitors -> Memories]
    BY <1>6, MonitorFacts DEF Memories
  <2> QED
    BY <1>1, <1>2, <1>6, <2>1, <2>2, MonitorFacts, SameOrders, DoneMove
<1> QED
  BY <1>4, <1>5, <1>6 DEF Elect

LEMMA FindRecoveryStep ==
  ASSUME RInv, NEW m \in Monitors, FindRecovery(m) PROVE RInv'
<1>1. UNCHANGED <<episodeVars, jobs, session, audits, closed, expiries, mishaps>>
  BY DEF FindRecovery
<1>2. CASE /\ episode.event # None
           /\ memory' = [memory EXCEPT ![m].recovery = episode.event]
           /\ proc' = [proc EXCEPT ![m] = Expired(episode, "restore")]
  <2>1. episode.event \in Events
    BY <1>2, MonitorFacts DEF Episodes
  <2>2. memory' \in [Monitors -> Memories]
    BY <1>2, <2>1, MonitorFacts DEF Memories
  <2> QED
    BY <1>1, <1>2, <2>1, <2>2, MonitorFacts, SameOrders, ExpiredMove
<1>3. CASE EndTick(m) /\ UNCHANGED memory
  BY <1>1, <1>3, MonitorFacts, SameOrders, DoneMove
<1> QED
  BY <1>2, <1>3 DEF FindRecovery

-----------------------------------------------------------------------------
(* The publication and the queue's verdict.                                *)

LEMMA FindForPublicationStep ==
  ASSUME RInv, NEW m \in Monitors, FindForPublication(m) PROVE RInv'
<1>1. UNCHANGED <<episodeVars, jobs, session, audits, closed, expiries, mishaps>>
  BY DEF FindForPublication
<1>2. CASE UNCHANGED memory /\ proc' = [proc EXCEPT
             ![m].token = IF episode.token = None THEN m ELSE episode.token,
             ![m].pc = IF episode.publication = "published" THEN "observe"
                                                           ELSE "claimPublication"]
  <2>1. episode.token \in Tokens \cup {None}
    BY MonitorFacts DEF Episodes
  <2>2. PICK t \in Tokens, pc \in {"observe", "claimPublication"} :
          proc' = [proc EXCEPT ![m].token = t, ![m].pc = pc]
    BY <1>2, <2>1, MonitorFacts
  <2> DEFINE s == [proc[m] EXCEPT !.token = t, !.pc = pc]
  <2>3. proc[m] \in Snapshots /\ pc \in PCs
    BY <2>2, MonitorFacts DEF PCs
  <2>4. /\ s \in Snapshots /\ s.pc = pc /\ s.token = t
        /\ s.kind = proc[m].kind /\ s.event = proc[m].event
    BY <2>3 DEF Snapshots
  <2>5. proc' = [proc EXCEPT ![m] = s]
    BY <2>2, MonitorFacts
  <2>6. PICK r : r = s
    OBVIOUS
  <2> HIDE DEF s
  <2>7. /\ r \in Snapshots /\ proc' = [proc EXCEPT ![m] = r] /\ r.pc = pc /\ r.token \in Tokens
        /\ r.kind = proc[m].kind /\ r.event = proc[m].event
    BY <2>4, <2>5, <2>6
  <2>8. SnapshotOK(m, r)'
    BY <1>1, <2>2, <2>7, MonitorFacts DEF SnapshotOK
  <2> QED
    BY <1>1, <1>2, <2>7, <2>8, MonitorFacts, SameOrders, Move
<1>3. CASE EndTick(m) /\ Settle(m)
  BY <1>1, <1>3, MonitorFacts, SettledMemory, SameOrders, DoneMove
<1> QED
  BY <1>2, <1>3 DEF FindForPublication

LEMMA ObserveStep ==
  ASSUME RInv, NEW m \in Monitors, Observe(m) PROVE RInv'
<1>1. memory' \in [Monitors -> Memories] /\ mishaps' \in 0..MaxMishaps
  BY MonitorFacts, SettledMemory, Mishaps DEF Observe
<1> QED
  BY <1>1, MonitorFacts, SameOrders, DoneMove DEF Observe

LEMMA ClaimForScheduleStep ==
  ASSUME RInv, NEW m \in Monitors, ClaimForSchedule(m) PROVE RInv'
<1>1. /\ UNCHANGED <<jobs, session, audits, closed, expiries, mishaps>>
      /\ proc[m].token \in Tokens
  BY MonitorFacts DEF ClaimForSchedule, At, SnapshotOK
<1>2. CASE ClaimPublication(proc[m].event, proc[m].token) /\ Goto(m, "schedule")
           /\ UNCHANGED memory
  <2>1. Calls(Schedule) /\ "schedule" \in PCs \ Careful
    BY <1>1, <1>2, MonitorFacts, CallNames DEF PCs, Careful
  <2> QED
    BY <1>1, <1>2, <2>1, MonitorFacts, SameOrders, GotoMove
<1>3. CASE UNCHANGED episodeVars /\ EndTick(m) /\ Settle(m)
  BY <1>1, <1>3, MonitorFacts, SettledMemory, SameOrders, DoneMove
<1> QED
  BY <1>2, <1>3 DEF ClaimForSchedule

\* Job e is another one.
JobFits(job) ==
  /\ job.state \in {"waiting", "active"} => job.tries < MaxAttempts
  /\ job.holder # None => job.state = "active"

LEMMA JobSet ==
  ASSUME JobsOK, NEW e, NEW job \in Jobs, JobFits(job), jobs' = [jobs EXCEPT ![e] = job]
  PROVE  JobsOK'
<1>1. jobs' \in [Events -> Jobs]
  BY DEF JobsOK
<1>2. ASSUME NEW f \in Events PROVE JobFits(jobs[f])'
  <2>1. JobFits(jobs[f]) /\ (jobs'[f] = jobs[f] \/ jobs'[f] = job)
    BY DEF JobsOK, JobFits
  <2> QED
    BY <2>1 DEF JobFits
<1> QED
  BY <1>1, <1>2 DEF JobsOK, JobFits

\* A job that stalled waits or has failed, its attempts as they were.
LEMMA StalledJobs ==
  ASSUME NEW job \in Jobs, job.tries < MaxAttempts
  PROVE  Stalled(job) \in Jobs /\ JobFits(Stalled(job))
<1>1. PICK state : state = IF job.stalls = 0 THEN "waiting" ELSE "failed"
  OBVIOUS
<1>2. Stalled(job) = [job EXCEPT !.holder = None, !.stalls = 1, !.state = state]
  BY <1>1 DEF Stalled
<1>3. state \in {"waiting", "failed"}
  BY <1>1
<1>4. PICK new : new = [state |-> state, token |-> job.token, tries |-> job.tries,
                        stalls |-> 1, holder |-> None]
  OBVIOUS
<1>5. job.token \in Tokens \cup {None} /\ job.tries \in 0..MaxAttempts /\ 1 \in 0..1
  BY DEF Jobs
<1>6. new \in Jobs /\ JobFits(new)
  BY <1>3, <1>4, <1>5 DEF Jobs, JobFits
<1>7. job = [state |-> job.state, token |-> job.token, tries |-> job.tries,
             stalls |-> job.stalls, holder |-> job.holder]
  BY DEF Jobs
<1>8. Stalled(job) = new
  BY <1>2, <1>4, <1>7
<1> QED
  BY <1>6, <1>8

LEMMA AddedJobs ==
  ASSUME JobsOK, NEW e, NEW t \in Tokens \cup {None}, jobs' \in {jobs, Added(e, t)}
  PROVE  JobsOK'
<1>1. CASE jobs' = jobs
  BY <1>1 DEF JobsOK
<1>2. CASE jobs' = [jobs EXCEPT ![e] = [NoJob EXCEPT !.state = "waiting", !.token = t]]
  <2>1. PICK job : job = [state |-> "waiting", token |-> t, tries |-> 0, stalls |-> 0,
                       holder |-> None]
    OBVIOUS
  <2>2. jobs' = [jobs EXCEPT ![e] = job]
    BY <1>2, <2>1 DEF NoJob
  <2>3. 0 \in 0..MaxAttempts /\ 0 < MaxAttempts
    BY DEF MaxAttempts
  <2>4. job \in Jobs /\ JobFits(job)
    BY <2>1, <2>3 DEF Jobs, JobFits
  <2> QED
    BY <2>2, <2>4, JobSet
<1> QED
  BY <1>1, <1>2 DEF Added

LEMMA AddJobStep ==
  ASSUME RInv, NEW m \in Monitors, AddJob(m) PROVE RInv'
<1>1. /\ UNCHANGED <<episodeVars, memory, session, audits, closed, expiries>>
      /\ proc[m].token \in Tokens \cup {None}
      /\ jobs' \in {jobs, Added(proc[m].event, proc[m].token)}
  BY MonitorFacts DEF AddJob, Snapshots
<1>2. JobsOK'
  BY <1>1, AddedJobs DEF RInv
<1>3. mishaps' \in 0..MaxMishaps
  BY MonitorFacts, Mishaps DEF AddJob
<1>4. WorldOK'
  BY <1>1, <1>3 DEF RInv, WorldOK, AuditsPrecedeClose
<1>5. PICK pc \in {"published", "report"} : Goto(m, pc)
  BY DEF AddJob
<1>6. pc \in PCs \ Careful
  BY <1>5 DEF PCs, Careful
<1> QED
  BY <1>1, <1>2, <1>4, <1>5, <1>6, MonitorFacts, GotoMove

LEMMA ReportStep ==
  ASSUME RInv, NEW m \in Monitors, Report(m) PROVE RInv'
<1>1. Calls(Schedule) \/ UNCHANGED episodeVars
  BY MonitorFacts, CallNames DEF Report
<1> QED
  BY <1>1, MonitorFacts, SameWorld, DoneMove DEF Report

LEMMA MarkPublishedStep ==
  ASSUME RInv, NEW m \in Monitors, MarkPublished(m) PROVE RInv'
<1>1. Calls(Schedule) \/ UNCHANGED episodeVars
  BY MonitorFacts, CallNames DEF MarkPublished
<1> QED
  BY <1>1, MonitorFacts, SettledMemory, SameOrders, DoneMove DEF MarkPublished

LEMMA TerminalFindStep ==
  ASSUME RInv, NEW m \in Monitors, TerminalFind(m) PROVE RInv'
<1>1. UNCHANGED <<episodeVars, world>>
  BY DEF TerminalFind
<1>2. CASE proc' = [proc EXCEPT ![m] = [Idle EXCEPT !.pc = "terminalObserve",
                                          !.event = episode.event, !.token = episode.token]]
  <2>1. PICK s : s = [Idle EXCEPT !.pc = "terminalObserve", !.event = episode.event,
                                  !.token = episode.token]
    OBVIOUS
  <2>2. episode.event \in Events \cup {None} /\ episode.token \in Tokens \cup {None}
    BY MonitorFacts DEF Episodes
  <2>3. s \in Snapshots /\ s.pc \notin Careful /\ s.kind = "expired"
    BY <2>1, <2>2 DEF Idle, Snapshots, PCs, Careful
  <2> QED
    BY <1>1, <1>2, <2>1, <2>3, MonitorFacts, SameWorld, PlainMove
<1>3. CASE Done(m)
  BY <1>1, <1>3, MonitorFacts, SameWorld, DoneMove
<1> QED
  BY <1>2, <1>3 DEF TerminalFind

LEMMA TerminalObserveStep ==
  ASSUME RInv, NEW m \in Monitors, TerminalObserve(m) PROVE RInv'
<1>1. /\ UNCHANGED <<episodeVars, memory, jobs, session, audits, closed, expiries>>
      /\ mishaps' \in 0..MaxMishaps
  BY MonitorFacts, Mishaps DEF TerminalObserve
<1>2. CASE \E pc \in {"job_missing", "job_failed"} : Goto(m, pc)
  <2>1. PICK pc \in {"job_missing", "job_failed"} : Goto(m, pc)
    BY <1>2
  <2>2. pc \in PCs \ Careful
    BY <2>1 DEF PCs, Careful
  <2> QED
    BY <1>1, <2>1, <2>2, MonitorFacts, SameOrders, GotoMove
<1>3. CASE Done(m)
  BY <1>1, <1>3, MonitorFacts, SameOrders, DoneMove
<1> QED
  BY <1>2, <1>3 DEF TerminalObserve

LEMMA TerminalReconcileStep ==
  ASSUME RInv, NEW m \in Monitors, TerminalReconcile(m) PROVE RInv'
<1>1. Calls(Schedule) \/ UNCHANGED episodeVars
  BY MonitorFacts, CallNames DEF TerminalReconcile
<1> QED
  BY <1>1, MonitorFacts, SameWorld, DoneMove DEF TerminalReconcile

LEMMA MonitorSteps ==
  ASSUME RInv, NEW m \in Monitors, MonitorStep(m) PROVE RInv'
BY MonitorFacts, CheckStep, ElectStep, FindRecoveryStep, RestoreSteps, FindForPublicationStep,
   ObserveStep, ClaimForScheduleStep, AddJobStep, ReportStep, MarkPublishedStep,
   TerminalFindStep, TerminalObserveStep, TerminalReconcileStep
   DEF MonitorStep

-----------------------------------------------------------------------------
(* A worker that recovers a session.                                       *)

LEMMA WorkerFacts ==
  ASSUME RInv, NEW w \in Workers
  PROVE  /\ w \in Processes /\ w \in Tokens /\ w \in Claims /\ w # None
         /\ Schedule \in Claims /\ w # Schedule
         /\ proc \in [Processes -> Snapshots] /\ proc[w] \in Snapshots
         /\ SnapshotOK(w, proc[w])
         /\ memory \in [Monitors -> Memories]
         /\ mishaps \in 0..MaxMishaps /\ expiries \in 0..MaxExpiries
         /\ session \in {"active", "expired"}
         /\ RowInv /\ episode \in Episodes /\ JobsOK
BY RecoveryAssumption, EpisodeAssumption
   DEF RInv, WorldOK, Processes, RowInv, EpisodeTypeOK

LEMMA RecoverStep ==
  ASSUME RInv, NEW w \in Workers, Recover(w) PROVE RInv'
<1> DEFINE Reserve(row) == proc' = [proc EXCEPT ![w] =
             [Idle EXCEPT !.event = row.event,
                          !.token = IF row.token = None THEN w ELSE row.token,
                          !.pc = IF row.publication = "published" THEN "claim"
                                                                  ELSE "claimPublication"]]
<1>1. UNCHANGED world
  BY DEF Recover
<1>2. ASSUME NEW row, row.event \in Events, row.token \in Tokens \cup {None}, Reserve(row),
             Calls(w) \/ UNCHANGED episodeVars
      PROVE  RInv'
  <2>1. PICK t \in Tokens, pc \in {"claim", "claimPublication"} :
          proc' = [proc EXCEPT ![w] = [Idle EXCEPT !.event = row.event, !.token = t, !.pc = pc]]
    BY <1>2, WorkerFacts
  <2>2. PICK s : s = [Idle EXCEPT !.event = row.event, !.token = t, !.pc = pc]
    OBVIOUS
  <2>3. pc \in PCs
    BY DEF PCs
  <2>4. s \in Snapshots /\ s.kind = "expired" /\ s.token = t /\ s.pc = pc
    BY <1>2, <2>2, <2>3 DEF Idle, Snapshots
  <2>5. SnapshotOK(w, s)'
    BY <2>4 DEF SnapshotOK
  <2> QED
    BY <1>1, <1>2, <2>1, <2>2, <2>4, <2>5, WorkerFacts, SameWorld, Move
<1>3. CASE \E e \in Events \ born : Create(e) /\ Reserve(Fresh(e))
  <2>1. PICK e \in Events : Create(e) /\ Reserve(Fresh(e))
    BY <1>3
  <2>2. Fresh(e).event \in Events /\ Fresh(e).token \in Tokens \cup {None}
    BY DEF Fresh
  <2>3. Calls(w)
    BY <2>1, Zenon DEF Calls
  <2> QED
    BY <1>2, <2>1, <2>2, <2>3
<1>4. CASE episode.event # None /\ Reserve(episode) /\ UNCHANGED episodeVars
  <2>1. episode.event \in Events /\ episode.token \in Tokens \cup {None}
    BY <1>4, WorkerFacts DEF Episodes
  <2> QED
    BY <1>2, <1>4, <2>1
<1> QED
  BY <1>3, <1>4 DEF Recover

\* One of the claimant's calls, after which it goes on or has done.
LEMMA WorkerMove ==
  ASSUME RInv, NEW w \in Workers, NEW c \in {w, Schedule}, Calls(c) \/ UNCHANGED episodeVars,
         NEW pc \in PCs \ Careful, Goto(w, pc) \/ Done(w), UNCHANGED world
  PROVE  RInv'
BY WorkerFacts, SameWorld, GotoMove, DoneMove

LEMMA ClaimForLoginStep ==
  ASSUME RInv, NEW w \in Workers, ClaimForLogin(w) \/ PublishForLogin(w) PROVE RInv'
<1>1. UNCHANGED world
  BY DEF ClaimForLogin, PublishForLogin
<1>2. Calls(w) \/ UNCHANGED episodeVars
  BY WorkerFacts, CallNames DEF ClaimForLogin, PublishForLogin, At, SnapshotOK
<1>3. PICK pc \in {"published", "claim"} : Goto(w, pc) \/ Done(w)
  BY DEF ClaimForLogin, PublishForLogin
<1>4. pc \in PCs \ Careful
  BY <1>3 DEF PCs, Careful
<1> QED
  BY <1>1, <1>2, <1>3, <1>4, WorkerMove

LEMMA ClaimLoginStep ==
  ASSUME RInv, NEW w \in Workers, ClaimLogin(w) PROVE RInv'
<1>1. Calls(w) \/ UNCHANGED episodeVars
  BY WorkerFacts, CallNames DEF ClaimLogin
<1>2. "start" \in PCs \ Careful
  BY DEF PCs, Careful
<1> QED
  BY <1>1, <1>2, WorkerMove DEF ClaimLogin

\* Told to start, the claimant has the login in hand.
LEMMA StartLoginStep ==
  ASSUME RInv, NEW w \in Workers, StartLogin(w) PROVE RInv'
<1> DEFINE e == proc[w].event  t == proc[w].token
<1>1. UNCHANGED world
  BY DEF StartLogin
<1>2. CASE MarkConsumerMutationStarted(e, t, w) /\ Goto(w, "login")
  <2>1. Calls(w)
    BY <1>2, WorkerFacts, CallNames
  <2>2. Claimant(e, t, w) /\ episode' = Attempted("mutation_started")
    BY <1>2 DEF MarkConsumerMutationStarted, StartMutation
  <2>3. episode.event = e /\ e # None /\ episode.claim = w
    BY <2>2 DEF Claimant, Published, Exists
  <2>4. /\ episode'.event = e /\ episode'.claim = w
        /\ episode'.attempt = "mutation_started"
    BY <2>2, <2>3, WorkerFacts DEF Attempted, Touched, Episodes
  <2>5. PICK s : s = [proc[w] EXCEPT !.pc = "login"]
    OBVIOUS
  <2>6. /\ s \in Snapshots /\ s.pc = "login" /\ s.kind = proc[w].kind
        /\ s.event = e
    BY <2>5, WorkerFacts DEF Snapshots, PCs
  <2>7. proc' = [proc EXCEPT ![w] = s]
    BY <1>2, <2>5, WorkerFacts DEF Goto
  <2>8. SnapshotOK(w, s)'
    BY <1>1, <2>3, <2>4, <2>6, WorkerFacts, SameWorld DEF SnapshotOK, InHand, Unresolved
  <2> QED
    BY <1>1, <2>1, <2>6, <2>7, <2>8, WorkerFacts, SameWorld, Move
<1>3. CASE Done(w) /\ UNCHANGED episodeVars
  BY <1>1, <1>3, WorkerFacts, SameWorld, DoneMove
<1> QED
  BY <1>2, <1>3 DEF StartLogin

LEMMA LoginStep ==
  ASSUME RInv, NEW w \in Workers, Login(w) PROVE RInv'
<1>1. UNCHANGED <<episodeVars, memory, jobs, audits, closed, expiries, mishaps>>
  BY DEF Login
<1>2. session' \in {"active", "expired"}
  BY WorkerFacts DEF Login
<1>3. PICK pc \in {"recollect", "giveUp"} : Goto(w, pc)
  BY DEF Login
<1>4. pc \in PCs \ Careful
  BY <1>3 DEF PCs, Careful
<1> QED
  BY <1>1, <1>2, <1>3, <1>4, WorkerFacts, SameOrders, GotoMove

LEMMA GiveUpStep ==
  ASSUME RInv, NEW w \in Workers, GiveUp(w) PROVE RInv'
<1>1. Calls(w) \/ UNCHANGED episodeVars
  BY WorkerFacts, CallNames DEF GiveUp
<1>2. mishaps' \in 0..MaxMishaps
  BY WorkerFacts, Mishaps DEF GiveUp
<1> QED
  BY <1>1, <1>2, WorkerFacts, SameOrders, DoneMove DEF GiveUp

LEMMA RecollectStep ==
  ASSUME RInv, NEW w \in Workers, Recollect(w) PROVE RInv'
<1>1. PICK pc \in {"resolve", "giveUp"} : Goto(w, pc)
  BY DEF Recollect
<1>2. pc \in PCs \ Careful
  BY <1>1 DEF PCs, Careful
<1> QED
  BY <1>1, <1>2, WorkerMove DEF Recollect

LEMMA ResolveLoginStep ==
  ASSUME RInv, NEW w \in Workers, ResolveLogin(w) PROVE RInv'
<1> DEFINE e == proc[w].event  t == proc[w].token
<1>1. UNCHANGED world
  BY DEF ResolveLogin
<1>2. CASE /\ MarkConsumerResolved(e, t, w)
           /\ proc' = [proc EXCEPT ![w] = Expired(episode, "restore")]
  <2>1. Calls(w)
    BY <1>2, WorkerFacts, CallNames
  <2>2. episode.event \in Events
    BY <1>2, WorkerFacts DEF MarkConsumerResolved, Claimant, Published, Exists, Episodes
  <2> QED
    BY <1>1, <1>2, <2>1, <2>2, WorkerFacts, SameWorld, ExpiredMove
<1>3. CASE Done(w) /\ UNCHANGED episodeVars
  BY <1>1, <1>3, WorkerFacts, SameWorld, DoneMove
<1> QED
  BY <1>2, <1>3 DEF ResolveLogin

-----------------------------------------------------------------------------
(* The job, its consumer, and the rest of the world.                       *)

LEMMA FinishedJobs ==
  ASSUME JobsOK, NEW e, NEW w, NEW job,
         e \in Events /\ jobs[e].state = "active" => job \in Jobs /\ JobFits(job),
         jobs' = [jobs EXCEPT ![e] =
                    IF jobs[e].state = "active" /\ jobs[e].holder = w THEN job ELSE jobs[e]]
  PROVE  JobsOK'
<1>1. CASE e \in Events /\ jobs[e].state = "active" /\ jobs[e].holder = w
  BY <1>1, JobSet
<1>2. CASE ~(e \in Events /\ jobs[e].state = "active" /\ jobs[e].holder = w)
  <2>1. jobs \in [Events -> Jobs]
    BY DEF JobsOK
  <2>2. jobs' = jobs
    BY <1>2, <2>1
  <2> QED
    BY <2>2 DEF JobsOK
<1> QED
  BY <1>1, <1>2

LEMMA FinishMove ==
  ASSUME RInv, NEW w \in Workers, NEW c \in {w, Schedule}, Calls(c) \/ UNCHANGED episodeVars,
         Completed(w) \/ Thrown(w),
         UNCHANGED <<memory, session, audits, closed, expiries>>, mishaps' \in 0..MaxMishaps
  PROVE  RInv'
<1> DEFINE e == proc[w].event
<1>1. PICK job :
        /\ jobs' = [jobs EXCEPT ![e] =
             IF jobs[e].state = "active" /\ jobs[e].holder = w THEN job ELSE jobs[e]]
        /\ Done(w)
        /\ \/ job = [NoJob EXCEPT !.state = "completed"]
           \/ job = [jobs[e] EXCEPT !.tries = @ + 1, !.holder = None,
                       !.state = IF jobs[e].tries + 1 < MaxAttempts THEN "waiting" ELSE "failed"]
  BY DEF Completed, Thrown, Finish
<1>2. ASSUME job = [NoJob EXCEPT !.state = "completed"] PROVE job \in Jobs /\ JobFits(job)
  <2>1. 0 \in 0..MaxAttempts
    BY DEF MaxAttempts
  <2>2. job \in Jobs /\ JobFits(job)
    BY <1>2, <2>1 DEF NoJob, Jobs, JobFits
  <2> QED
    BY <2>2
<1>3. ASSUME job = [jobs[e] EXCEPT !.tries = @ + 1, !.holder = None,
               !.state = IF jobs[e].tries + 1 < MaxAttempts THEN "waiting" ELSE "failed"],
             e \in Events, jobs[e].state = "active"
      PROVE  job \in Jobs /\ JobFits(job)
  <2>1. jobs[e] \in Jobs /\ jobs[e].tries < MaxAttempts
    BY <1>3, WorkerFacts DEF JobsOK
  <2>2. jobs[e].tries \in 0..MaxAttempts
    BY <2>1 DEF Jobs
  <2>3. jobs[e].tries + 1 \in 0..MaxAttempts
    BY <2>1, <2>2 DEF MaxAttempts
  <2>4. /\ job \in Jobs /\ job.tries = jobs[e].tries + 1 /\ job.holder = None
        /\ job.state = IF jobs[e].tries + 1 < MaxAttempts THEN "waiting" ELSE "failed"
    BY <1>3, <2>1, <2>3 DEF Jobs
  <2> QED
    BY <2>4 DEF JobFits
<1>4. e \in Events /\ jobs[e].state = "active" => job \in Jobs /\ JobFits(job)
  BY <1>1, <1>2, <1>3
<1>5. PICK f : f = e
  OBVIOUS
<1>6. JobsOK'
  BY <1>1, <1>4, <1>5, WorkerFacts, FinishedJobs
<1>7. WorldOK'
  BY DEF RInv, WorldOK, AuditsPrecedeClose
<1> QED
  BY <1>1, <1>6, <1>7, WorkerFacts, DoneMove

LEMMA TakeJobStep ==
  ASSUME RInv, NEW w \in Workers, TakeJob(w) PROVE RInv'
<1>1. PICK e \in Events :
        /\ jobs[e].state = "waiting"
        /\ jobs' = [jobs EXCEPT ![e].state = "active", ![e].holder = w]
        /\ proc' = [proc EXCEPT ![w] =
             [Idle EXCEPT !.pc = "jobRead", !.event = e, !.token = jobs[e].token]]
  BY DEF TakeJob
<1>2. UNCHANGED <<episodeVars, memory, session, audits, closed, expiries, mishaps>>
  BY DEF TakeJob
<1>3. jobs \in [Events -> Jobs] /\ jobs[e] \in Jobs /\ jobs[e].tries < MaxAttempts
  BY <1>1, WorkerFacts DEF JobsOK
<1>4. PICK job : job = [jobs[e] EXCEPT !.state = "active", !.holder = w]
  OBVIOUS
<1>5. job \in Jobs /\ job.tries = jobs[e].tries /\ job.state = "active"
  BY <1>3, <1>4 DEF Jobs
<1>6. jobs' = [jobs EXCEPT ![e] = job]
  BY <1>1, <1>3, <1>4
<1>7. JobsOK'
  BY <1>3, <1>5, <1>6, WorkerFacts, JobSet DEF JobFits
<1>8. WorldOK'
  BY <1>2 DEF RInv, WorldOK, AuditsPrecedeClose
<1>9. PICK s : s = [Idle EXCEPT !.pc = "jobRead", !.event = e, !.token = jobs[e].token]
  OBVIOUS
<1>10. jobs[e].token \in Tokens \cup {None}
  BY <1>3 DEF Jobs
<1>11. s \in Snapshots /\ s.pc \notin Careful /\ s.kind = "expired"
  BY <1>9, <1>10 DEF Idle, Snapshots, PCs, Careful
<1> QED
  BY <1>1, <1>2, <1>7, <1>8, <1>9, <1>11, WorkerFacts, PlainMove

LEMMA JobReadStep ==
  ASSUME RInv, NEW w \in Workers, JobRead(w) PROVE RInv'
<1>1. UNCHANGED <<episodeVars, memory, session, audits, closed, expiries, mishaps>>
  BY DEF JobRead
<1>2. CASE UNCHANGED jobs /\ \E pc \in {"jobRun", "jobClaim"} : Goto(w, pc)
  <2>1. PICK pc \in {"jobRun", "jobClaim"} : Goto(w, pc)
    BY <1>2
  <2>2. pc \in PCs \ Careful /\ UNCHANGED world
    BY <1>1, <1>2 DEF PCs, Careful, world
  <2> QED
    BY <1>1, <2>1, <2>2, WorkerMove
<1>3. CASE Completed(w) \/ Thrown(w)
  BY <1>1, <1>3, WorkerFacts, FinishMove
<1> QED
  BY <1>2, <1>3 DEF JobRead

LEMMA JobClaimStep ==
  ASSUME RInv, NEW w \in Workers, JobClaim(w) PROVE RInv'
<1>1. Calls(w) \/ UNCHANGED episodeVars
  BY WorkerFacts, CallNames DEF JobClaim
<1>2. PICK pc \in {"jobRun", "jobReread"} : Goto(w, pc)
  BY DEF JobClaim
<1>3. pc \in PCs \ Careful
  BY <1>2 DEF PCs, Careful
<1> QED
  BY <1>1, <1>2, <1>3, WorkerMove DEF JobClaim

LEMMA JobEndStep ==
  ASSUME RInv, NEW w \in Workers, JobRun(w) \/ JobFault(w) PROVE RInv'
<1>1. Calls(Schedule) \/ UNCHANGED episodeVars
  BY WorkerFacts, CallNames DEF JobRun, JobFault
<1>2. mishaps' \in 0..MaxMishaps
  BY WorkerFacts, Mishaps DEF JobRun, JobFault
<1>3. Completed(w) \/ Thrown(w)
  BY DEF JobRun, JobFault
<1>4. UNCHANGED <<memory, session, audits, closed, expiries>>
  BY DEF JobRun, JobFault
<1> QED
  BY <1>1, <1>2, <1>3, <1>4, FinishMove

LEMMA WorkerSteps ==
  ASSUME RInv, NEW w \in Workers, WorkerStep(w) \/ Recover(w) \/ TakeJob(w) PROVE RInv'
BY WorkerFacts, RecoverStep, ClaimForLoginStep, ClaimLoginStep, StartLoginStep, LoginStep,
   GiveUpStep, RecollectStep, ResolveLoginStep, RestoreSteps, TakeJobStep, JobReadStep,
   JobClaimStep, JobEndStep
   DEF WorkerStep

\* No process moves, and the audits stay as they are.
LEMMA RestMove ==
  ASSUME RInv, Calls(Schedule) \/ UNCHANGED episodeVars, UNCHANGED <<proc, audits>>,
         JobsOK', WorldOK'
  PROVE  RInv'
<1>1. Schedule \in Claims
  BY RecoveryAssumption
<1>2. RowInv' /\ MarksAreTrue' /\ HandsKept(Schedule)
  BY <1>1, CallKeeps DEF RInv
<1>3. ASSUME NEW p \in Processes PROVE SnapshotOK(p, proc[p])'
  <2>1. SnapshotOK(p, proc[p])
    BY DEF RInv
  <2>2. proc[p].pc = "login" => InHand(p, proc[p].event)'
    BY <1>2, <2>1, RecoveryAssumption DEF SnapshotOK, HandsKept, InHand
  <2> QED
    BY <2>1, <2>2 DEF SnapshotOK
<1> QED
  BY <1>2, <1>3 DEF RInv

LEMMA QueueStep ==
  ASSUME RInv, NEW e \in Events, ForgetJob(e) \/ Stall(e) PROVE RInv'
<1>1. /\ UNCHANGED <<episodeVars, proc, memory, session, audits, closed, expiries>>
      /\ mishaps' \in 0..MaxMishaps
  BY Mishaps DEF RInv, WorldOK, ForgetJob, Stall
<1>2. WorldOK'
  BY <1>1 DEF RInv, WorldOK, AuditsPrecedeClose
<1>3. JobsOK /\ jobs[e] \in Jobs
  BY DEF RInv, JobsOK
<1>4. CASE ForgetJob(e)
  <2>1. 0 \in 0..MaxAttempts
    BY DEF MaxAttempts
  <2>2. NoJob \in Jobs /\ JobFits(NoJob)
    BY <2>1 DEF NoJob, Jobs, JobFits
  <2> QED
    BY <1>1, <1>2, <1>3, <1>4, <2>2, JobSet, RestMove DEF ForgetJob
<1>5. CASE Stall(e)
  <2>1. jobs[e].tries < MaxAttempts
    BY <1>3, <1>5 DEF Stall, JobsOK
  <2>2. Stalled(jobs[e]) \in Jobs /\ JobFits(Stalled(jobs[e]))
    BY <1>3, <2>1, StalledJobs
  <2>3. jobs' = [jobs EXCEPT ![e] = Stalled(jobs[e])]
    BY <1>5 DEF Stall
  <2>5. JobsOK'
    BY <1>3, <2>2, <2>3, JobSet
  <2> QED
    BY <1>1, <1>2, <2>5, RestMove
<1> QED
  BY <1>4, <1>5

LEMMA OperatorStep ==
  ASSUME RInv, Operator PROVE RInv'
<1>1. PICK e \in Events :
        \/ /\ Exists(e) /\ episode.token # None /\ episode.claim # None
           /\ ResolveConsumerManualRecovery(e, episode.token, episode.claim, "safe_to_retry")
        \/ ResolutionAuditDelivered(e)
        \/ \E f \in Events \ born : AuthorizeManualRecoveryReplay(e, f)
  BY DEF Operator
<1>2. episode.token \in Tokens \cup {None} /\ episode.claim \in Claims \cup {None}
  BY DEF RInv, RowInv, EpisodeTypeOK, Episodes
<1>3. CASE /\ episode.token # None /\ episode.claim # None
           /\ ResolveConsumerManualRecovery(e, episode.token, episode.claim, "safe_to_retry")
  <2>1. PICK t \in Tokens, d \in Claims : ResolveConsumerManualRecovery(e, t, d, "safe_to_retry")
    BY <1>2, <1>3
  <2> QED
    BY <2>1, RestMove, SameWorld, Zenon DEF Operator, Calls
<1>4. CASE ResolutionAuditDelivered(e) \/ \E f \in Events \ born : AuthorizeManualRecoveryReplay(e, f)
  <2>1. Calls(Schedule)
    BY <1>4, Zenon DEF Calls
  <2> QED
    BY <2>1, RestMove, SameWorld DEF Operator
<1> QED
  BY <1>1, <1>3, <1>4

LEMMA OutsideStep ==
  ASSUME RInv, SessionExpires \/ SomeoneLogsIn \/ Clock \/ UNCHANGED vars PROVE RInv'
<1>1. /\ Calls(Schedule) \/ UNCHANGED episodeVars
      /\ UNCHANGED <<proc, memory, jobs, audits, closed, mishaps>>
      /\ session' \in {"active", "expired"} /\ expiries' \in 0..MaxExpiries
  <2>1. session \in {"active", "expired"} /\ expiries \in 0..MaxExpiries
    BY DEF RInv, WorldOK
  <2>2. CASE SessionExpires
    BY <2>1, <2>2, RecoveryAssumption DEF SessionExpires
  <2>3. CASE SomeoneLogsIn
    BY <2>1, <2>3 DEF SomeoneLogsIn
  <2>4. CASE Clock
    <3>1. Calls(Schedule)
      BY <2>4, Zenon DEF Clock, Calls
    <3> QED
      BY <2>1, <2>4, <3>1 DEF Clock, world
  <2>5. CASE UNCHANGED vars
    BY <2>1, <2>5 DEF vars
  <2> QED
    BY <2>2, <2>3, <2>4, <2>5
<1>2. memory' \in [Monitors -> Memories] /\ mishaps' \in 0..MaxMishaps
  BY <1>1 DEF RInv, WorldOK
<1> QED
  BY <1>1, <1>2, SameOrders, RestMove

LEMMA CrashStep ==
  ASSUME RInv, NEW p \in Processes, Crash(p) PROVE RInv'
<1>1. /\ UNCHANGED <<episodeVars, session, audits, closed, expiries>> /\ Done(p)
      /\ mishaps' \in 0..MaxMishaps /\ Schedule \in Claims
  BY Mishaps, RecoveryAssumption DEF RInv, WorldOK, Crash
<1>2. memory' \in [Monitors -> Memories]
  <2>1. Forgotten \in Memories
    BY DEF Forgotten, Memories
  <2> QED
    BY <2>1 DEF Crash, RInv, WorldOK
<1>3. WorldOK'
  BY <1>1, <1>2 DEF RInv, WorldOK, AuditsPrecedeClose
<1>4. \A e \in Events : jobs[e] \in Jobs /\ JobFits(jobs[e])
  BY DEF RInv, JobsOK, JobFits
<1>5. /\ DOMAIN jobs' = Events /\ jobs' = [e \in Events |-> jobs'[e]]
      /\ \A e \in Events :
           jobs'[e] = IF jobs[e].holder = p THEN Stalled(jobs[e]) ELSE jobs[e]
  BY DEF Crash
<1>6. ASSUME NEW e \in Events PROVE jobs'[e] \in Jobs /\ JobFits(jobs'[e])
  <2>1. CASE jobs[e].holder = p
    <3>1. p # None
      BY RecoveryAssumption, EpisodeAssumption DEF Processes
    <3>2. jobs[e].tries < MaxAttempts
      BY <1>4, <2>1, <3>1 DEF JobFits
    <3>3. Stalled(jobs[e]) \in Jobs /\ JobFits(Stalled(jobs[e]))
      BY <1>4, <3>2, StalledJobs
    <3> QED
      BY <1>5, <2>1, <3>3
  <2>2. CASE jobs[e].holder # p
    BY <1>4, <1>5, <2>2
  <2> QED
    BY <2>1, <2>2
<1>7. JobsOK'
  BY <1>5, <1>6 DEF JobsOK, JobFits
<1> QED
  BY <1>1, <1>3, <1>7, DoneMove

LEMMA RecoveryInit == Init => RInv
<1> SUFFICES ASSUME Init PROVE RInv
  OBVIOUS
<1>1. RowInv
  BY InitEstablishes DEF Init, IInv
<1>2. MarksAreTrue
  BY DEF Init, EpisodeInit, Fresh, MarksAreTrue
<1>3. 0 \in 0..MaxAttempts
  BY DEF MaxAttempts
<1>4. NoJob \in Jobs /\ JobFits(NoJob)
  BY <1>3 DEF NoJob, Jobs, JobFits
<1>5. JobsOK
  BY <1>4 DEF Init, JobsOK, JobFits
<1>6. Idle \in Snapshots /\ Forgotten \in Memories
  BY DEF Idle, Snapshots, PCs, Forgotten, Memories
<1>7. WorldOK
  BY <1>6, RecoveryAssumption DEF Init, WorldOK, AuditsPrecedeClose
<1>8. proc \in [Processes -> Snapshots]
  BY <1>6 DEF Init
<1>9. ASSUME NEW p \in Processes PROVE SnapshotOK(p, proc[p])
  <2>1. proc[p] = Idle
    BY DEF Init
  <2> QED
    BY <2>1 DEF Idle, SnapshotOK
<1> QED
  BY <1>1, <1>2, <1>5, <1>7, <1>8, <1>9 DEF RInv

LEMMA RecoveryKeeps == RInv /\ [Next]_vars => RInv'
BY MonitorSteps, WorkerSteps, CrashStep, QueueStep, OperatorStep, OutsideStep DEF Next

LEMMA RecoveryInvariance == Spec => []RInv
BY RecoveryInit, RecoveryKeeps, PTL DEF Spec

-----------------------------------------------------------------------------
(* Theorems about the processes.                                           *)

\* Row, snapshots, memories, jobs and audits keep their types, for every number of
\* monitors, workers, events and failures.
THEOREM RecoveryTypes == Spec => []RecoveryTypeOK
<1>1. RInv => RecoveryTypeOK
  BY DEF RInv, RowInv, JobsOK, WorldOK, RecoveryTypeOK
<1> QED
  BY <1>1, RecoveryInvariance, PTL

\* No interleaving of monitors, workers, crashes and replays makes a row that mapRow
\* rejects, not even where an event's id comes back.
THEOREM RecoveryRowsAreReadable == Spec => []RowStaysReadable
<1>1. RInv => RowStaysReadable
  BY DEF RInv, RowInv
<1> QED
  BY <1>1, RecoveryInvariance, PTL

\* What is closed has both its canonical audits, the expiry's first.
THEOREM AuditsPrecede == Spec => []AuditsPrecedeClose
<1>1. RInv => AuditsPrecedeClose
  BY DEF RInv, WorldOK
<1> QED
  BY <1>1, RecoveryInvariance, PTL

\* Two workers log in at once only after an operator's decision about one of them.
THEOREM OverlapsAreDecided == Spec => []LoginsOverlapOnlyByDecision
<1>1. ASSUME RInv, NEW v \in Workers, NEW w \in Workers, At(v, "login"), At(w, "login"), v # w
      PROVE  \E p \in {v, w} : resolution[proc[p].event].outcome # "none"
  <2>1. InHand(v, proc[v].event) /\ InHand(w, proc[w].event)
    BY <1>1 DEF RInv, Processes, SnapshotOK, At
  <2> QED
    BY <1>1, <2>1 DEF InHand
<1>2. RInv => LoginsOverlapOnlyByDecision
  BY <1>1 DEF LoginsOverlapOnlyByDecision
<1> QED
  BY <1>2, RecoveryInvariance, PTL

\* Whatever they do to the row, monitors, workers and operators do through the
\* repository's statements, presenting names that it knows.
LEMMA NextCalls ==
  ASSUME RInv, [Next]_vars
  PROVE  (\E c \in Claims : Calls(c)) \/ UNCHANGED episodeVars
<1>1. Schedule \in Claims /\ RowInv
  BY RecoveryAssumption DEF RInv
<1>2. ASSUME NEW p \in Processes, RestoreStep(p)
      PROVE  Calls(Schedule) \/ UNCHANGED episodeVars
  <2>1. CASE MarkAudit(p)
    <3>1. SnapshotOK(p, proc[p]) /\ proc[p].pc = "mark"
      BY <2>1 DEF RInv, MarkAudit, At
    <3>2. PICK e \in Events : e = proc[p].event /\ <<proc[p].kind, e>> \in audits
      BY <3>1 DEF SnapshotOK
    <3>3. \/ MarkExpiredAudit(e) /\ <<"expired", e>> \in audits
          \/ MarkRestoredAudit(e) /\ <<"restored", e>> \in audits
          \/ UNCHANGED episodeVars
      BY <2>1, <3>2 DEF MarkAudit
    <3> QED
      BY <3>3, Zenon DEF Calls
  <2>2. CASE Cancel(p) \/ CloseEpisode(p)
    BY <1>1, <2>2, CallNames DEF Cancel, CloseEpisode
  <2>3. CASE RecordAudit(p) \/ RereadAudit(p) \/ Recheck(p)
    BY <2>3 DEF RecordAudit, RereadAudit, Recheck
  <2> QED
    BY <1>2, <2>1, <2>2, <2>3 DEF RestoreStep
<1>3. ASSUME NEW m \in Monitors, MonitorStep(m)
      PROVE  Calls(Schedule) \/ UNCHANGED episodeVars
  <2>1. CASE Elect(m)
    <3>1. (\E e \in Events : Create(e)) \/ UNCHANGED episodeVars
      BY <2>1 DEF Elect
    <3> QED
      BY <3>1, Zenon DEF Calls
  <2>2. CASE ClaimForSchedule(m)
    <3>1. proc[m].token \in Tokens
      BY <2>2, MonitorFacts DEF ClaimForSchedule, At, SnapshotOK
    <3> QED
      BY <1>1, <2>2, <3>1, CallNames DEF ClaimForSchedule
  <2>3. CASE Report(m) \/ MarkPublished(m) \/ TerminalReconcile(m)
    BY <1>1, <2>3, CallNames DEF Report, MarkPublished, TerminalReconcile
  <2>4. CASE Check(m) \/ FindRecovery(m) \/ FindForPublication(m) \/ Observe(m) \/ AddJob(m)
             \/ TerminalFind(m) \/ TerminalObserve(m)
    BY <2>4 DEF Check, FindRecovery, FindForPublication, Observe, AddJob, TerminalFind,
                TerminalObserve
  <2> QED
    BY <1>2, <1>3, <2>1, <2>2, <2>3, <2>4, MonitorFacts DEF MonitorStep
<1>4. ASSUME NEW w \in Workers, WorkerStep(w) \/ Recover(w) \/ TakeJob(w)
      PROVE  Calls(w) \/ Calls(Schedule) \/ UNCHANGED episodeVars
  <2>1. CASE Recover(w)
    <3>1. (\E e \in Events : Create(e)) \/ UNCHANGED episodeVars
      BY <2>1 DEF Recover
    <3> QED
      BY <3>1, Zenon DEF Calls
  <2>2. CASE ClaimForLogin(w)
    <3>1. proc[w].token \in Tokens
      BY <2>2, WorkerFacts DEF ClaimForLogin, At, SnapshotOK
    <3> QED
      BY <1>1, <2>2, <3>1, CallNames DEF ClaimForLogin
  <2>3. CASE \/ PublishForLogin(w) \/ ClaimLogin(w) \/ StartLogin(w) \/ GiveUp(w)
             \/ ResolveLogin(w) \/ JobClaim(w) \/ JobRun(w)
    BY <1>1, <2>3, WorkerFacts, CallNames
       DEF PublishForLogin, ClaimLogin, StartLogin, GiveUp, ResolveLogin, JobClaim, JobRun
  <2>4. CASE Login(w) \/ Recollect(w) \/ JobRead(w) \/ JobFault(w) \/ TakeJob(w)
    BY <2>4 DEF Login, Recollect, JobRead, JobFault, TakeJob
  <2> QED
    BY <1>2, <1>4, <2>1, <2>2, <2>3, <2>4, WorkerFacts DEF WorkerStep
<1>5. CASE Operator
  <2>1. \E e \in Events :
          \/ \E t \in Tokens, d \in Claims :
               ResolveConsumerManualRecovery(e, t, d, "safe_to_retry")
          \/ ResolutionAuditDelivered(e)
          \/ \E f \in Events : AuthorizeManualRecoveryReplay(e, f)
    <3>1. episode.token \in Tokens \cup {None} /\ episode.claim \in Claims \cup {None}
      BY <1>1 DEF RowInv, EpisodeTypeOK, Episodes
    <3> QED
      BY <1>5, <3>1 DEF Operator
  <2> QED
    BY <1>1, <2>1, Zenon DEF Calls
<1>6. CASE Clock
  BY <1>1, <1>6, Zenon DEF Clock, Calls
<1>7. CASE SessionExpires \/ SomeoneLogsIn \/ UNCHANGED vars
           \/ (\E p \in Processes : Crash(p)) \/ \E e \in Events : ForgetJob(e) \/ Stall(e)
  BY <1>7 DEF SessionExpires, SomeoneLogsIn, vars, Crash, ForgetJob, Stall
<1>8. Workers \subseteq Claims
  BY RecoveryAssumption
<1> QED
  BY <1>1, <1>3, <1>4, <1>5, <1>6, <1>7, <1>8 DEF Next

LEMMA CallIsStatement ==
  ASSUME NEW c \in Claims, Calls(c) PROVE Statement
<1>1. CASE \E e \in Events : \/ Create(e)
                             \/ \E f \in Events : AuthorizeManualRecoveryReplay(e, f)
  BY <1>1, Zenon DEF Statement
<1>2. CASE \/ Age
           \/ \E e \in Events :
                \/ CancelPublication(e) \/ MarkExpiredAudit(e) \/ MarkRestoredAudit(e) \/ Close(e)
                \/ ResolutionAuditDelivered(e)
                \/ \E t \in Tokens :
                     \/ Publish(e, t)
                     \/ \E reason \in {"job_missing", "job_failed"} :
                          ReconcileTerminalFailure(e, t, reason)
  BY <1>2, Zenon DEF Statement, EpisodeNext
<1>3. CASE \E e \in Events, t \in Tokens, d \in Claims :
             Attempt(e, t, d) \/ ResolveConsumerManualRecovery(e, t, d, "safe_to_retry")
  BY <1>3 DEF Statement, EpisodeNext
<1> QED
  BY <1>1, <1>2, <1>3 DEF Calls, Attempt

\* Every step of every process is one of the repository's statements, or leaves
\* row, decisions and histories alone.
THEOREM StatementsOnly == Spec => EpisodeInit /\ [][Statement]_episodeVars
<1>1. Init => EpisodeInit
  BY DEF Init
<1>2. RInv /\ [Next]_vars => [Statement]_episodeVars
  BY NextCalls, CallIsStatement
<1> QED
  BY <1>1, <1>2, RecoveryInvariance, PTL DEF Spec

\* The verdict of the queue spares a login whose lease is running, whoever asks.
THEOREM RecoveryVerdictsSpare == Spec => VerdictSparesLeasedLogin
<1>1. RInv /\ [Next]_vars =>
        [episode'.event = episode.event /\ episode'.terminal # episode.terminal
           => ~LeaseActive /\ episode'.attempt # "mutation_started"]_episodeVars
  BY NextCalls, CallIsStatement, VerdictStep DEF RInv
<1> QED
  BY <1>1, RecoveryInvariance, PTL DEF Spec, VerdictSparesLeasedLogin

\* So it is when monitors, workers and operators call, and bring closed ids back:
\* the tests' repository takes every step that the running system takes.
THEOREM TwinTakesEveryCall == Spec => TwinFollows
<1>1. RInv /\ [Next]_vars => [Follows]_episodeVars
  BY RecoveryKeeps, StepFollows DEF RInv
<1> QED
  BY <1>1, RecoveryInvariance, PTL DEF Spec, TwinFollows

\* A row that is born bears an id that no row of the bank has borne.
NoIdComesBack ==
  [][episode'.event \notin {episode.event, None} => episode'.event \notin born]_episodeVars

\* An insertion under a fresh id is the store's own, and a decision was about an
\* event that was born.
LEMMA FreshStatement ==
  ASSUME IInv, Statement,
         episode'.event \notin {episode.event, None} => episode'.event \notin born
  PROVE  EpisodeNext
<1>1. ASSUME NEW e \in Events, Create(e) PROVE EpisodeNext
  <2>1. episode.event = None /\ episode'.event = e /\ e # None
    BY <1>1, EpisodeAssumption DEF Create, Fresh
  <2> QED
    BY <1>1, <2>1, Zenon DEF EpisodeNext
<1>2. ASSUME NEW e \in Events, NEW f \in Events, AuthorizeManualRecoveryReplay(f, e)
      PROVE  EpisodeNext
  <2>1. /\ episode.event \in {None, f} /\ f # e /\ e # None
        /\ resolution[f].outcome # "none"
    BY <1>2, EpisodeAssumption DEF AuthorizeManualRecoveryReplay, Exists
  <2>2. episode'.event = e
    BY <1>2 DEF AuthorizeManualRecoveryReplay, Fresh
  <2>3. e \notin born
    BY <2>1, <2>2
  <2>4. f \in born
    BY <2>1 DEF IInv, Ledger, DecisionsSettle, Births
  <2> QED
    BY <1>2, <2>3, <2>4, Zenon DEF EpisodeNext
<1> QED
  BY <1>1, <1>2, Zenon DEF Statement

\* The insertion of a closed id is the only way in which monitors, workers and
\* operators leave what the repository promises: where no id comes back, they
\* implement it.
THEOREM FreshIdsImplementStore == Spec /\ NoIdComesBack => EpisodeSpec
<1>1. RInv /\ [Next]_vars => [Statement]_episodeVars
  BY NextCalls, CallIsStatement
<1>2. IInv /\ [Statement]_episodeVars
        /\ [episode'.event \notin {episode.event, None}
               => episode'.event \notin born]_episodeVars
      => [EpisodeNext]_episodeVars
  BY FreshStatement
<1>3. Init => EpisodeInit
  BY DEF Init
<1> QED
  BY <1>1, <1>2, <1>3, InitEstablishes, NextKeeps, RecoveryInvariance, PTL
     DEF Spec, EpisodeSpec, NoIdComesBack

\* So one login per event, the record of every unsettled login, and the decision
\* before a replay hold of the running system too, as long as no id comes back.
THEOREM FreshIdsSuffice ==
  Spec /\ NoIdComesBack =>
    [](OneMutationPerEvent /\ UnsettledMutationIsKept /\ ReplayIsEarned)
<1>1. IInv => OneMutationPerEvent /\ UnsettledMutationIsKept /\ ReplayIsEarned
  BY DEF IInv, Ledger
<1> QED
  BY <1>1, FreshIdsImplementStore, Invariance, PTL
=============================================================================
