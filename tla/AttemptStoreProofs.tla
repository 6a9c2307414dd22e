------------------------- MODULE AttemptStoreProofs -------------------------
(***************************************************************************)
(* AttemptStore, for any number of deliveries, tokens and retries.  The    *)
(* properties are not inductive by themselves: what carries them is the    *)
(* arithmetic of the generation column (GenerationLaw) and the fact that   *)
(* a touched active row still belongs to the lease that touched it         *)
(* (TouchedByOwner).                                                       *)
(***************************************************************************)
EXTENDS AttemptStore, FiniteSetTheorems, TLAPS

\* Owner and lease go together, and only an active row has them.
OwnerShape ==
  /\ attempt.status # "active" => attempt.owner = NoOwner
  /\ attempt.owner = NoOwner => attempt.lease = 0

\* Each retry costs two generations, one to lease and one to let go, so the
\* generation tells how often the row was leased.
GenerationLaw ==
  /\ attempt.status = "missing" => attempt.generation = 0 /\ attempt.retryCount = 0
  /\ attempt.status = "active" =>
       attempt.generation =
         2 * attempt.retryCount + (IF attempt.owner = NoOwner THEN 0 ELSE 1)
  /\ Terminal => attempt.generation = 2 * attempt.retryCount + 2

IssuedCount ==
  /\ IsFiniteSet(issued)
  /\ Cardinality(issued) =
       attempt.retryCount +
         (IF attempt.owner = NoOwner /\ ~Terminal THEN 0 ELSE 1)
  /\ \A h \in issued : h.generation <= attempt.generation

\* A row whose phase has moved still has the owner that moved it.
TouchedByOwner ==
  attempt.status = "active" /\ ~Untouched =>
    /\ attempt.owner # NoOwner
    /\ begun = {[attemptId |-> attempt.attemptId, token |-> attempt.owner,
                 generation |-> attempt.generation]}

\* The phase column never understates what callers were told.
PhaseTellsAll ==
  /\ attempt.status = "missing" => Untouched
  /\ Untouched => begun = {}
  /\ attempt.phase # "submit_may_have_been_dispatched" => barred = {}

IInv ==
  /\ StoreTypeOK
  /\ OwnerShape
  /\ GenerationLaw
  /\ IssuedCount
  /\ TouchedByOwner
  /\ PhaseTellsAll
  /\ SingleInteraction
  /\ BarrierBelongsToWriter
  /\ GenerationsAreUnique

-----------------------------------------------------------------------------
(* The invariant holds initially and every action preserves it.            *)

\* The new row has nobody near it.
LEMMA InitEstablishes == StoreInit => IInv
<1> SUFFICES ASSUME StoreInit PROVE IInv
  OBVIOUS
<1>1. PICK id \in AttemptIds :
        attempt = [attemptId |-> id, status |-> "missing",
                   phase |-> "no_credential_interaction", failureClass |-> "none",
                   retryCount |-> 0, owner |-> NoOwner, generation |-> 0, lease |-> 0]
  BY DEF StoreInit
<1>2. issued = {} /\ begun = {} /\ barred = {}
  BY DEF StoreInit
<1>3. StoreTypeOK
  BY <1>1, <1>2, StoreAssumption DEF StoreTypeOK, Attempts, Phases
<1>4. IssuedCount
  BY <1>1, <1>2, FS_EmptySet DEF IssuedCount, Terminal
<1>5. OwnerShape /\ GenerationLaw /\ TouchedByOwner /\ PhaseTellsAll
  BY <1>1, <1>2 DEF OwnerShape, GenerationLaw, TouchedByOwner, PhaseTellsAll,
                    Untouched, Terminal
<1>6. SingleInteraction /\ BarrierBelongsToWriter /\ GenerationsAreUnique
  BY <1>2 DEF SingleInteraction, BarrierBelongsToWriter, GenerationsAreUnique
<1> QED
  BY <1>3, <1>4, <1>5, <1>6 DEF IInv

\* Creating the row moves only status and attempt id.
LEMMA CreateStep ==
  ASSUME IInv, NEW id \in AttemptIds, Create(id)
  PROVE  IInv'
<1> USE DEF Create, Untouched, Terminal
<1>1. StoreTypeOK'
  BY DEF IInv, StoreTypeOK, Attempts
<1>2. OwnerShape' /\ GenerationLaw' /\ TouchedByOwner' /\ PhaseTellsAll'
  BY DEF IInv, StoreTypeOK, Attempts, OwnerShape, GenerationLaw, TouchedByOwner,
         PhaseTellsAll
<1>3. IssuedCount'
  BY DEF IInv, StoreTypeOK, Attempts, IssuedCount
<1>4. SingleInteraction' /\ BarrierBelongsToWriter' /\ GenerationsAreUnique'
  BY DEF IInv, SingleInteraction, BarrierBelongsToWriter, GenerationsAreUnique
<1> QED
  BY <1>1, <1>2, <1>3, <1>4 DEF IInv

\* A new lease takes a generation above every generation handed out before.
LEMMA AcquireStep ==
  ASSUME IInv, NEW id \in AttemptIds, NEW token \in Tokens, AcquireLease(id, token)
  PROVE  IInv'
<1> DEFINE h == [attemptId |-> id, token |-> token,
                 generation |-> attempt.generation + 1]
<1>1. /\ attempt \in Attempts
      /\ attempt.status = "active" /\ attempt.owner = NoOwner
      /\ attempt.attemptId = id
      /\ attempt' = [attempt EXCEPT !.owner = token, !.lease = LeaseTicks,
                                    !.generation = @ + 1]
      /\ issued' = issued \cup {h}
      /\ begun' = begun /\ barred' = barred
  BY DEF AcquireLease, Free, IsRow, IInv, StoreTypeOK
<1>2. h \in Handles /\ h \notin issued
  BY <1>1 DEF IInv, IssuedCount, Handles, Attempts
<1>3. StoreTypeOK'
  <2>1. attempt.generation + 1 \in Nat /\ LeaseTicks \in 0..LeaseTicks
    BY <1>1, StoreAssumption DEF Attempts
  <2>2. attempt' \in Attempts
    BY <1>1, <2>1 DEF Attempts
  <2> HIDE DEF h
  <2> QED
    BY <1>1, <1>2, <2>2 DEF IInv, StoreTypeOK
<1>4. /\ attempt'.status = "active" /\ attempt'.owner # NoOwner
      /\ attempt'.retryCount = attempt.retryCount
      /\ attempt'.generation = attempt.generation + 1
      /\ attempt'.phase = attempt.phase
  BY <1>1, StoreAssumption DEF Attempts
<1>5. OwnerShape' /\ GenerationLaw'
  BY <1>1, <1>4 DEF IInv, OwnerShape, GenerationLaw, Terminal, Attempts
<1>6. IssuedCount'
  <2>1. IsFiniteSet(issued') /\ Cardinality(issued') = Cardinality(issued) + 1
    BY <1>1, <1>2, FS_AddElement DEF IInv, IssuedCount
  <2>2. Cardinality(issued') = attempt'.retryCount + 1
    BY <2>1, <1>1, <1>4 DEF IInv, IssuedCount, Terminal, Attempts
  <2>3. \A g \in issued' : g.generation <= attempt'.generation
    BY <1>1, <1>4 DEF IInv, IssuedCount, StoreTypeOK, Handles, Attempts
  <2> QED
    BY <2>1, <2>2, <2>3, <1>4 DEF IssuedCount, Terminal
<1>7. begun = {}
  BY <1>1 DEF IInv, TouchedByOwner, PhaseTellsAll
<1>8. TouchedByOwner' /\ PhaseTellsAll'
  BY <1>1, <1>4, <1>7 DEF IInv, TouchedByOwner, PhaseTellsAll, Untouched
<1>9. SingleInteraction' /\ BarrierBelongsToWriter'
  BY <1>1 DEF IInv, SingleInteraction, BarrierBelongsToWriter
<1>10. GenerationsAreUnique'
  <2>1. \A g \in issued : g.generation < h.generation
    BY <1>1 DEF IInv, IssuedCount, StoreTypeOK, Handles, Attempts
  <2>2. \A g \in issued : g.generation \in Nat
    BY DEF IInv, StoreTypeOK, Handles
  <2>3. h.generation \in Nat
    BY <1>1 DEF Attempts
  <2> HIDE DEF h
  <2> QED
    BY <1>1, <2>1, <2>2, <2>3 DEF IInv, GenerationsAreUnique
<1> QED
  BY <1>3, <1>5, <1>6, <1>8, <1>9, <1>10 DEF IInv

\* Whoever may present a live handle is the row's owner.
LEMMA HolderOwns ==
  ASSUME IInv, NEW h \in issued, Holds(h)
  PROVE  /\ attempt.status = "active" /\ attempt.owner # NoOwner
         /\ h = [attemptId |-> attempt.attemptId, token |-> attempt.owner,
                 generation |-> attempt.generation]
BY StoreAssumption DEF IInv, StoreTypeOK, Handles, Holds

\* Renewal, and the clock, move the lease only.
LEMMA LeaseOnlyStep ==
  ASSUME IInv, attempt.owner # NoOwner, NEW n \in 0..LeaseTicks,
         attempt' = [attempt EXCEPT !.lease = n],
         UNCHANGED <<issued, begun, barred>>
  PROVE  IInv'
<1> USE DEF IInv, StoreTypeOK, Untouched, Terminal
<1>1. StoreTypeOK'
  BY DEF Attempts
<1>2. OwnerShape' /\ GenerationLaw' /\ TouchedByOwner' /\ PhaseTellsAll'
  BY DEF Attempts, OwnerShape, GenerationLaw, TouchedByOwner, PhaseTellsAll
<1>3. IssuedCount'
  BY DEF Attempts, IssuedCount
<1>4. SingleInteraction' /\ BarrierBelongsToWriter' /\ GenerationsAreUnique'
  BY DEF SingleInteraction, BarrierBelongsToWriter, GenerationsAreUnique
<1> QED
  BY <1>1, <1>2, <1>3, <1>4

\* Beginning the interaction makes h the only writer there can ever be.
LEMMA BeginStep ==
  ASSUME IInv, NEW h \in issued, BeginCredentialInteraction(h)
  PROVE  IInv'
<1>1. /\ attempt.status = "active" /\ attempt.owner # NoOwner
      /\ h = [attemptId |-> attempt.attemptId, token |-> attempt.owner,
              generation |-> attempt.generation]
  BY HolderOwns DEF BeginCredentialInteraction
<1>2. /\ attempt' = [attempt EXCEPT !.phase = "credentials_may_have_reached_portal",
                                    !.lease = LeaseTicks]
      /\ Untouched
      /\ begun' = begun \cup {h} /\ issued' = issued /\ barred' = barred
  BY DEF BeginCredentialInteraction
<1>3. attempt \in Attempts /\ begun = {} /\ barred = {}
  BY <1>2 DEF IInv, StoreTypeOK, PhaseTellsAll, Untouched
<1>4. begun' = {h}
  BY <1>2, <1>3
<1>5. StoreTypeOK'
  <2>1. LeaseTicks \in 0..LeaseTicks
    BY StoreAssumption
  <2>2. attempt' \in Attempts
    BY <1>2, <1>3, <2>1 DEF Attempts, Phases
  <2> QED
    BY <1>2, <1>4, <2>2 DEF IInv, StoreTypeOK
<1>6. /\ attempt'.status = "active" /\ attempt'.owner = attempt.owner
      /\ attempt'.retryCount = attempt.retryCount
      /\ attempt'.generation = attempt.generation
      /\ attempt'.attemptId = attempt.attemptId
      /\ attempt'.phase = "credentials_may_have_reached_portal"
  BY <1>1, <1>2, <1>3 DEF Attempts
<1>7. OwnerShape' /\ GenerationLaw'
  BY <1>1, <1>6 DEF IInv, OwnerShape, GenerationLaw, Terminal
<1>8. IssuedCount'
  BY <1>1, <1>2, <1>6 DEF IInv, IssuedCount, Terminal
<1>9. TouchedByOwner' /\ PhaseTellsAll'
  BY <1>1, <1>2, <1>3, <1>4, <1>6 DEF TouchedByOwner, PhaseTellsAll, Untouched
<1>10. SingleInteraction' /\ BarrierBelongsToWriter' /\ GenerationsAreUnique'
  BY <1>2, <1>3, <1>4
     DEF IInv, SingleInteraction, BarrierBelongsToWriter, GenerationsAreUnique
<1> QED
  BY <1>5, <1>7, <1>8, <1>9, <1>10 DEF IInv

\* The submit barrier is recorded for the lease that began.
LEMMA BarrierStep ==
  ASSUME IInv, NEW h \in issued, RecordSubmitBarrier(h)
  PROVE  IInv'
<1>1. /\ attempt.status = "active" /\ attempt.owner # NoOwner
      /\ h = [attemptId |-> attempt.attemptId, token |-> attempt.owner,
              generation |-> attempt.generation]
  BY HolderOwns DEF RecordSubmitBarrier
<1>2. /\ attempt' = [attempt EXCEPT !.phase = "submit_may_have_been_dispatched",
                                    !.lease = LeaseTicks]
      /\ attempt.phase = "credentials_may_have_reached_portal"
      /\ barred' = barred \cup {h} /\ issued' = issued /\ begun' = begun
  BY DEF RecordSubmitBarrier
<1>3. attempt \in Attempts /\ begun = {h}
  BY <1>1, <1>2 DEF IInv, StoreTypeOK, TouchedByOwner, Untouched
<1>4. barred' \subseteq begun'
  BY <1>2, <1>3 DEF IInv, BarrierBelongsToWriter
<1>5. StoreTypeOK'
  <2>1. LeaseTicks \in 0..LeaseTicks
    BY StoreAssumption
  <2>2. attempt' \in Attempts
    BY <1>2, <1>3, <2>1 DEF Attempts, Phases
  <2> QED
    BY <1>2, <1>4, <2>2 DEF IInv, StoreTypeOK
<1>6. /\ attempt'.status = "active" /\ attempt'.owner = attempt.owner
      /\ attempt'.retryCount = attempt.retryCount
      /\ attempt'.generation = attempt.generation
      /\ attempt'.attemptId = attempt.attemptId
      /\ attempt'.phase = "submit_may_have_been_dispatched"
  BY <1>1, <1>2, <1>3 DEF Attempts
<1>7. OwnerShape' /\ GenerationLaw'
  BY <1>1, <1>6 DEF IInv, OwnerShape, GenerationLaw, Terminal
<1>8. IssuedCount'
  BY <1>1, <1>2, <1>6 DEF IInv, IssuedCount, Terminal
<1>9. TouchedByOwner' /\ PhaseTellsAll'
  BY <1>1, <1>2, <1>3, <1>6 DEF TouchedByOwner, PhaseTellsAll, Untouched
<1>10. SingleInteraction' /\ BarrierBelongsToWriter' /\ GenerationsAreUnique'
  BY <1>2, <1>4
     DEF IInv, SingleInteraction, BarrierBelongsToWriter, GenerationsAreUnique
<1> QED
  BY <1>5, <1>7, <1>8, <1>9, <1>10 DEF IInv

\* What a release does to the row.
LEMMA ReleasedRow ==
  ASSUME attempt \in Attempts
  PROVE  /\ Released(attempt) \in Attempts
         /\ Released(attempt).owner = NoOwner
         /\ Released(attempt).lease = 0
         /\ Released(attempt).generation = attempt.generation + 1
         /\ Released(attempt).phase = attempt.phase
         /\ Released(attempt).status = attempt.status
         /\ Released(attempt).retryCount = attempt.retryCount
<1>1. attempt.generation + 1 \in Nat /\ 0 \in 0..LeaseTicks
  BY StoreAssumption DEF Attempts
<1> QED
  BY <1>1 DEF Attempts, Released

\* The three shapes of a release: a retry slot, a failure, a success.
LEMMA LetGoShapes ==
  ASSUME attempt \in Attempts
  PROVE  /\ attempt.retryCount < MaxRetries =>
              LET row == [Released(attempt) EXCEPT !.retryCount = @ + 1]
              IN  /\ row \in Attempts /\ row.owner = NoOwner /\ row.lease = 0
                  /\ row.generation = attempt.generation + 1
                  /\ row.phase = attempt.phase /\ row.status = attempt.status
                  /\ row.retryCount = attempt.retryCount + 1
         /\ \A class \in FailureClasses :
              LET row == Failed(attempt, class)
              IN  /\ row \in Attempts /\ row.owner = NoOwner /\ row.lease = 0
                  /\ row.generation = attempt.generation + 1
                  /\ row.phase = attempt.phase /\ row.status = "failed"
                  /\ row.retryCount = attempt.retryCount
         /\ LET row == [Released(attempt) EXCEPT !.status = "authenticated"]
            IN  /\ row \in Attempts /\ row.owner = NoOwner /\ row.lease = 0
                /\ row.generation = attempt.generation + 1
                /\ row.phase = attempt.phase /\ row.status = "authenticated"
                /\ row.retryCount = attempt.retryCount
<1> DEFINE r == Released(attempt)
<1>1. /\ r \in Attempts /\ r.owner = NoOwner /\ r.lease = 0
      /\ r.generation = attempt.generation + 1 /\ r.phase = attempt.phase
      /\ r.status = attempt.status /\ r.retryCount = attempt.retryCount
  BY ReleasedRow
<1>2. attempt.retryCount < MaxRetries => r.retryCount + 1 \in 0..MaxRetries
  BY <1>1, StoreAssumption DEF Attempts
<1> HIDE DEF r
<1>3. ASSUME attempt.retryCount < MaxRetries
      PROVE  LET row == [r EXCEPT !.retryCount = @ + 1]
             IN  /\ row \in Attempts /\ row.owner = NoOwner /\ row.lease = 0
                 /\ row.generation = attempt.generation + 1
                 /\ row.phase = attempt.phase /\ row.status = attempt.status
                 /\ row.retryCount = attempt.retryCount + 1
  BY <1>1, <1>2, <1>3 DEF Attempts
<1>4. ASSUME NEW class \in FailureClasses
      PROVE  LET row == [r EXCEPT !.status = "failed", !.failureClass = class]
             IN  /\ row \in Attempts /\ row.owner = NoOwner /\ row.lease = 0
                 /\ row.generation = attempt.generation + 1
                 /\ row.phase = attempt.phase /\ row.status = "failed"
                 /\ row.retryCount = attempt.retryCount
  BY <1>1, <1>4 DEF Attempts
<1>5. LET row == [r EXCEPT !.status = "authenticated"]
      IN  /\ row \in Attempts /\ row.owner = NoOwner /\ row.lease = 0
          /\ row.generation = attempt.generation + 1
          /\ row.phase = attempt.phase /\ row.status = "authenticated"
          /\ row.retryCount = attempt.retryCount
  BY <1>1 DEF Attempts
<1> QED
  BY <1>3, <1>4, <1>5 DEF r, Failed

\* Letting go of the lease, for a retry or with a verdict: the six statements
\* that clear ownerToken all have this shape.
LEMMA LetGoStep ==
  ASSUME IInv, attempt.status = "active", attempt.owner # NoOwner,
         attempt' \in Attempts,
         attempt'.owner = NoOwner, attempt'.lease = 0,
         attempt'.generation = attempt.generation + 1,
         attempt'.phase = attempt.phase,
         \/ /\ attempt'.status = "active" /\ Untouched
            /\ attempt'.retryCount = attempt.retryCount + 1
         \/ /\ attempt'.status \in {"authenticated", "failed"}
            /\ attempt'.retryCount = attempt.retryCount,
         UNCHANGED <<issued, begun, barred>>
  PROVE  IInv'
<1> USE DEF IInv, Terminal
<1>1. StoreTypeOK'
  BY DEF StoreTypeOK
<1>2. OwnerShape' /\ GenerationLaw'
  BY DEF StoreTypeOK, Attempts, OwnerShape, GenerationLaw
<1>3. TouchedByOwner' /\ PhaseTellsAll'
  BY DEF TouchedByOwner, PhaseTellsAll, Untouched
<1>4. IssuedCount'
  <2>1. \A h \in issued : h.generation <= attempt'.generation
    BY DEF StoreTypeOK, Attempts, Handles, IssuedCount
  <2>2. IsFiniteSet(issued) /\ Cardinality(issued) = attempt.retryCount + 1
    BY DEF IssuedCount
  <2>3. attempt.retryCount \in Nat
    BY DEF StoreTypeOK, Attempts
  <2>4. Cardinality(issued') =
          attempt'.retryCount +
            (IF attempt'.owner = NoOwner /\ ~Terminal' THEN 0 ELSE 1)
    BY <2>2, <2>3
  <2> QED
    BY <2>1, <2>2, <2>4 DEF IssuedCount
<1>5. SingleInteraction' /\ BarrierBelongsToWriter' /\ GenerationsAreUnique'
  BY DEF SingleInteraction, BarrierBelongsToWriter, GenerationsAreUnique
<1> QED
  BY <1>1, <1>2, <1>3, <1>4, <1>5

\* Every step of every caller, and of the clock.
LEMMA NextPreserves == IInv /\ [StoreNext]_storeVars => IInv'
<1> SUFFICES ASSUME IInv, [StoreNext]_storeVars PROVE IInv'
  OBVIOUS
<1>t. attempt \in Attempts /\ issued \subseteq Handles
  BY DEF IInv, StoreTypeOK
<1>c. {"transient_pre_interaction", "interaction_outcome_uncertain"} \subseteq FailureClasses
  BY DEF FailureClasses
<1>1. ASSUME NEW id \in AttemptIds, Create(id) PROVE IInv'
  BY <1>1, CreateStep
<1>2. ASSUME NEW id \in AttemptIds, NEW token \in Tokens, AcquireLease(id, token)
      PROVE  IInv'
  BY <1>2, AcquireStep
<1>3. ASSUME NEW id \in AttemptIds, ReconcileRetry(id) PROVE IInv'
  <2>1. /\ attempt.status = "active" /\ attempt.owner # NoOwner /\ Untouched
        /\ attempt.retryCount < MaxRetries
        /\ attempt' = [Released(attempt) EXCEPT !.retryCount = @ + 1]
        /\ UNCHANGED <<issued, begun, barred>>
    BY <1>3 DEF ReconcileRetry, Expired
  <2> QED
    BY <1>t, <2>1, LetGoShapes, LetGoStep
<1>4. ASSUME NEW id \in AttemptIds, ReconcileTerminal(id) PROVE IInv'
  <2>1. PICK class \in FailureClasses :
          /\ attempt.status = "active" /\ attempt.owner # NoOwner
          /\ attempt' = Failed(attempt, class)
          /\ UNCHANGED <<issued, begun, barred>>
    BY <1>4, <1>c DEF ReconcileTerminal, Expired
  <2>2. /\ attempt' \in Attempts /\ attempt'.owner = NoOwner /\ attempt'.lease = 0
        /\ attempt'.generation = attempt.generation + 1
        /\ attempt'.phase = attempt.phase /\ attempt'.status = "failed"
        /\ attempt'.retryCount = attempt.retryCount
    BY <1>t, <2>1, LetGoShapes
  <2> QED
    BY <2>1, <2>2, LetGoStep
<1>5. ASSUME NEW h \in issued, OwnerStep(h) PROVE IInv'
  <2>1. CASE RenewLease(h)
    <3>1. LeaseTicks \in 0..LeaseTicks
      BY StoreAssumption
    <3>2. /\ attempt.owner # NoOwner
          /\ attempt' = [attempt EXCEPT !.lease = LeaseTicks]
          /\ UNCHANGED <<issued, begun, barred>>
      BY <2>1, HolderOwns DEF RenewLease
    <3> QED
      BY <3>1, <3>2, LeaseOnlyStep
  <2>2. CASE BeginCredentialInteraction(h)
    BY <2>2, BeginStep
  <2>3. CASE RecordSubmitBarrier(h)
    BY <2>3, BarrierStep
  <2>4. CASE ClaimRetry(h)
    BY <1>t, <2>4, HolderOwns, LetGoShapes, LetGoStep DEF ClaimRetry
  <2>5. CASE ExhaustRetry(h)
    BY <1>t, <1>c, <2>5, HolderOwns, LetGoShapes, LetGoStep DEF ExhaustRetry
  <2>6. CASE CompleteAuthenticated(h)
    BY <1>t, <2>6, HolderOwns, LetGoShapes, LetGoStep DEF CompleteAuthenticated
  <2>7. CASE \E class \in FailureClasses : CompleteFailed(h, class)
    <3>1. PICK class \in FailureClasses : CompleteFailed(h, class)
      BY <2>7
    <3>2. /\ Holds(h) /\ attempt' = Failed(attempt, class)
          /\ UNCHANGED <<issued, begun, barred>>
      BY <3>1 DEF CompleteFailed
    <3>3. attempt.status = "active" /\ attempt.owner # NoOwner
      BY <3>2, HolderOwns
    <3>4. /\ attempt' \in Attempts /\ attempt'.owner = NoOwner /\ attempt'.lease = 0
          /\ attempt'.generation = attempt.generation + 1
          /\ attempt'.phase = attempt.phase /\ attempt'.status = "failed"
          /\ attempt'.retryCount = attempt.retryCount
      BY <1>t, <3>2, LetGoShapes
    <3> QED
      BY <3>2, <3>3, <3>4, LetGoStep
  <2> QED
    BY <1>5, <2>1, <2>2, <2>3, <2>4, <2>5, <2>6, <2>7 DEF OwnerStep
<1>6. CASE Tick
  <2>1. attempt.owner # NoOwner
    BY <1>6 DEF Tick, IInv, OwnerShape
  <2>2. attempt.lease - 1 \in 0..LeaseTicks
    BY <1>6, <1>t, StoreAssumption DEF Tick, Attempts
  <2> QED
    BY <1>6, <2>1, <2>2, LeaseOnlyStep DEF Tick
<1>7. CASE UNCHANGED storeVars
  BY <1>7 DEF storeVars, IInv, StoreTypeOK, OwnerShape, GenerationLaw, IssuedCount,
     TouchedByOwner, PhaseTellsAll, SingleInteraction, BarrierBelongsToWriter,
     GenerationsAreUnique, Untouched, Terminal
<1> QED
  BY <1>1, <1>2, <1>3, <1>4, <1>5, <1>6, <1>7 DEF StoreNext

-----------------------------------------------------------------------------
(* The theorems.                                                           *)

\* The strengthened invariant holds in every reachable state.
LEMMA Invariance == StoreSpec => []IInv
<1>1. StoreInit => IInv
  BY InitEstablishes
<1>2. IInv /\ [StoreNext]_storeVars => IInv'
  BY NextPreserves
<1> QED
  BY <1>1, <1>2, PTL DEF StoreSpec

\* Type correctness of the row and of the histories.
THEOREM TypeCorrect == StoreSpec => []StoreTypeOK
<1>1. IInv => StoreTypeOK
  BY DEF IInv
<1> QED
  BY <1>1, Invariance, PTL

\* However leases expire and handles go stale, at most one lease of an attempt
\* is told to write credentials, and only that one passes the submit barrier.
THEOREM SingleWriter == StoreSpec => [](SingleInteraction /\ BarrierBelongsToWriter)
<1>1. IInv => SingleInteraction /\ BarrierBelongsToWriter
  BY DEF IInv
<1> QED
  BY <1>1, Invariance, PTL

\* Generations are fencing numbers, even if callers share a token.
THEOREM FencingNumbers == StoreSpec => []GenerationsAreUnique
<1>1. IInv => GenerationsAreUnique
  BY DEF IInv
<1> QED
  BY <1>1, Invariance, PTL

\* At most MaxRetries + 1 leases are ever handed out for one attempt.
THEOREM BudgetHolds == StoreSpec => []LeaseBudget
<1>1. IInv => LeaseBudget
  <2> SUFFICES ASSUME IInv PROVE LeaseBudget
    OBVIOUS
  <2>1. attempt.retryCount \in 0..MaxRetries
    BY DEF IInv, StoreTypeOK, Attempts
  <2>2. \/ Cardinality(issued) = attempt.retryCount
        \/ Cardinality(issued) = attempt.retryCount + 1
    BY <2>1 DEF IInv, IssuedCount
  <2> QED
    BY <2>1, <2>2, StoreAssumption DEF LeaseBudget
<1> QED
  BY <1>1, Invariance, PTL

\* Nobody has written for an active attempt that is up for a lease.
THEOREM UnownedIsClean == StoreSpec => []UnownedMeansUntouched
<1>1. IInv => UnownedMeansUntouched
  BY DEF IInv, UnownedMeansUntouched, TouchedByOwner, PhaseTellsAll
<1> QED
  BY <1>1, Invariance, PTL

\* No step leaves a verdict.
THEOREM VerdictStays == StoreSpec => VerdictIsFinal
<1>1. IInv /\ [StoreNext]_storeVars => [Terminal => UNCHANGED storeVars]_storeVars
  <2> SUFFICES ASSUME IInv, [StoreNext]_storeVars, Terminal
               PROVE  UNCHANGED storeVars
    OBVIOUS
  <2>1. attempt.status \notin {"missing", "active"} /\ attempt.lease = 0
    BY DEF IInv, OwnerShape, Terminal
  <2>2. ~ \E id \in AttemptIds :
           \/ Create(id) \/ ReconcileRetry(id) \/ ReconcileTerminal(id)
           \/ \E token \in Tokens : AcquireLease(id, token)
    BY <2>1 DEF Create, AcquireLease, Free, ReconcileRetry, ReconcileTerminal, Expired
  <2>3. ~ \E h \in issued : OwnerStep(h)
    BY <2>1 DEF OwnerStep, RenewLease, BeginCredentialInteraction,
                RecordSubmitBarrier, ClaimRetry, ExhaustRetry,
                CompleteAuthenticated, CompleteFailed, Holds
  <2>4. ~ Tick
    BY <2>1 DEF Tick
  <2> QED
    BY <2>2, <2>3, <2>4 DEF StoreNext
<1> QED
  BY <1>1, Invariance, PTL DEF StoreSpec, VerdictIsFinal

\* No step consumes a retry slot once credentials may be at the portal.
THEOREM RetriesAreSafe == StoreSpec => RetryOnlyUntouched
<1>1. IInv /\ [StoreNext]_storeVars =>
        [attempt'.retryCount # attempt.retryCount => begun' = {}]_storeVars
  <2> SUFFICES ASSUME IInv, StoreNext, attempt'.retryCount # attempt.retryCount
               PROVE  begun' = {}
    BY DEF storeVars
  <2>t. attempt \in Attempts /\ (Untouched => begun = {})
    BY DEF IInv, StoreTypeOK, PhaseTellsAll
  <2>1. ASSUME NEW id \in AttemptIds, Create(id) PROVE FALSE
    BY <2>1, <2>t DEF Create, Attempts
  <2>2. ASSUME NEW id \in AttemptIds, NEW token \in Tokens, AcquireLease(id, token)
        PROVE  FALSE
    BY <2>2, <2>t DEF AcquireLease, Attempts
  <2>3. ASSUME NEW id \in AttemptIds, ReconcileRetry(id) PROVE begun' = {}
    BY <2>3, <2>t DEF ReconcileRetry
  <2>4. ASSUME NEW id \in AttemptIds, ReconcileTerminal(id) PROVE FALSE
    BY <2>4, <2>t DEF ReconcileTerminal, Failed, Released, Attempts
  <2>5. ASSUME NEW h \in issued, OwnerStep(h) PROVE begun' = {}
    <3>1. CASE RenewLease(h)
      BY <3>1, <2>t DEF RenewLease, Attempts
    <3>2. CASE BeginCredentialInteraction(h)
      BY <3>2, <2>t DEF BeginCredentialInteraction, Attempts
    <3>3. CASE RecordSubmitBarrier(h)
      BY <3>3, <2>t DEF RecordSubmitBarrier, Attempts
    <3>4. CASE ClaimRetry(h)
      BY <3>4, <2>t DEF ClaimRetry
    <3>5. CASE ExhaustRetry(h)
      BY <3>5, <2>t DEF ExhaustRetry, Failed, Released, Attempts
    <3>6. CASE CompleteAuthenticated(h)
      BY <3>6, <2>t DEF CompleteAuthenticated, Released, Attempts
    <3>7. CASE \E class \in FailureClasses : CompleteFailed(h, class)
      BY <3>7, <2>t DEF CompleteFailed, Failed, Released, Attempts
    <3> QED
      BY <2>5, <3>1, <3>2, <3>3, <3>4, <3>5, <3>6, <3>7 DEF OwnerStep
  <2>6. CASE Tick
    BY <2>6, <2>t DEF Tick, Attempts
  <2> QED
    BY <2>1, <2>2, <2>3, <2>4, <2>5, <2>6 DEF StoreNext
<1> QED
  BY <1>1, Invariance, PTL DEF StoreSpec, RetryOnlyUntouched

\* The repository implements OneLogin: each step is LetIn, LetSubmit, Settle or
\* invisible at that level.
THEOREM Refinement == StoreSpec => ImplementsOneLogin
<1> USE DEF Terminal, Untouched
<1>1. StoreInit => Login!OneInit
  BY DEF StoreInit, Login!OneInit, Stage
<1>2. IInv /\ [StoreNext]_storeVars => [Login!OneNext]_(Login!oneVars)
  <2> SUFFICES ASSUME IInv, [StoreNext]_storeVars
               PROVE  Login!OneNext \/ UNCHANGED <<Stage, begun, barred>>
    BY DEF Login!oneVars
  <2>t. /\ attempt \in Attempts /\ issued \subseteq Handles
        /\ attempt.status = "missing" => Untouched
        /\ Untouched => begun = {}
        /\ attempt.phase # "submit_may_have_been_dispatched" => barred = {}
    BY DEF IInv, StoreTypeOK, PhaseTellsAll
  <2>1. ASSUME NEW id \in AttemptIds, Create(id) PROVE UNCHANGED <<Stage, begun, barred>>
    BY <2>1, <2>t DEF Create, Attempts, Stage
  <2>2. ASSUME NEW id \in AttemptIds, NEW token \in Tokens, AcquireLease(id, token)
        PROVE  UNCHANGED <<Stage, begun, barred>>
    BY <2>2, <2>t DEF AcquireLease, Attempts, Stage
  <2>3. ASSUME NEW id \in AttemptIds, ReconcileRetry(id)
        PROVE  UNCHANGED <<Stage, begun, barred>>
    BY <2>3, <2>t DEF ReconcileRetry, Released, Attempts, Stage
  <2>4. ASSUME NEW id \in AttemptIds, ReconcileTerminal(id) PROVE Login!Settle
    BY <2>4, <2>t DEF ReconcileTerminal, Expired, Failed, Released, Attempts, Stage,
                     Login!Settle
  <2>5. ASSUME NEW h \in issued, OwnerStep(h)
        PROVE  Login!OneNext \/ UNCHANGED <<Stage, begun, barred>>
    <3>1. CASE RenewLease(h)
      BY <3>1, <2>t DEF RenewLease, Attempts, Stage
    <3>2. CASE BeginCredentialInteraction(h)
      <4>1. attempt.status = "active" /\ begun' = {h} /\ barred' = barred
        BY <3>2, <2>t DEF BeginCredentialInteraction, Holds
      <4>2. Stage = "untouched" /\ Stage' = "filling"
        BY <3>2, <4>1, <2>t DEF BeginCredentialInteraction, Attempts, Stage
      <4>3. h \in Handles
        BY <2>t
      <4> QED
        BY <4>1, <4>2, <4>3 DEF Login!OneNext, Login!LetIn
    <3>3. CASE RecordSubmitBarrier(h)
      <4>1. attempt.status = "active" /\ begun = {h}
        BY <3>3, HolderOwns DEF RecordSubmitBarrier, IInv, TouchedByOwner
      <4>2. barred' = begun /\ begun' = begun
        BY <3>3, <4>1, <2>t DEF RecordSubmitBarrier
      <4>3. Stage = "filling" /\ Stage' = "submitted"
        BY <3>3, <4>1, <2>t DEF RecordSubmitBarrier, Attempts, Stage
      <4> QED
        BY <4>2, <4>3 DEF Login!OneNext, Login!LetSubmit
    <3>4. CASE ClaimRetry(h)
      BY <3>4, <2>t DEF ClaimRetry, Released, Attempts, Stage
    <3>5. CASE ExhaustRetry(h)
      BY <3>5, <2>t DEF ExhaustRetry, Holds, Failed, Released, Attempts, Stage,
                       Login!Settle, Login!OneNext
    <3>6. CASE CompleteAuthenticated(h)
      BY <3>6, <2>t DEF CompleteAuthenticated, Holds, Released, Attempts, Stage,
                       Login!Settle, Login!OneNext
    <3>7. CASE \E class \in FailureClasses : CompleteFailed(h, class)
      BY <3>7, <2>t DEF CompleteFailed, Holds, Failed, Released, Attempts, Stage,
                       Login!Settle, Login!OneNext
    <3> QED
      BY <2>5, <3>1, <3>2, <3>3, <3>4, <3>5, <3>6, <3>7 DEF OwnerStep
  <2>6. CASE Tick
    BY <2>6, <2>t DEF Tick, Attempts, Stage
  <2>7. CASE UNCHANGED storeVars
    BY <2>7 DEF storeVars, Stage
  <2> QED
    BY <2>1, <2>2, <2>3, <2>4, <2>5, <2>6, <2>7 DEF StoreNext, Login!OneNext
<1> QED
  BY <1>1, <1>2, Invariance, PTL DEF StoreSpec, ImplementsOneLogin, Login!OneSpec
=============================================================================
