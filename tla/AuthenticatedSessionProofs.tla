--------------------- MODULE AuthenticatedSessionProofs ---------------------
(***************************************************************************)
(* AuthenticatedSession, for any number of workers, attempt ids, retries,  *)
(* ticks and crashes.  Every call of a worker is a statement of            *)
(* AttemptStore or leaves the row alone, so the store's invariant holds    *)
(* here; what is left is how each worker's own record of its progress      *)
(* agrees with the row and with the portal (Session).  Together they make  *)
(* the row go through what AttemptPolicy allows.                           *)
(***************************************************************************)
EXTENDS AuthenticatedSession, AttemptStoreProofs

Executing == {"executing", "write", "click", "decide"}
Holding   == Executing \cup {"complete"}

HandleOf(w, s) == [attemptId |-> s.id, token |-> w, generation |-> s.generation]

\* The worker has pressed submit, and the page call came back.
Submitted(s) ==
  /\ s.phase = "submit_barrier_recorded"
  /\ s.pc = "executing" \/ (s.pc = "decide" /\ s.outcome = "succeeded")

\* What worker w, in the state s, knows and has done.
SessionOf(w, s) ==
  /\ s.pc \in Holding => /\ HandleOf(w, s) \in issued
                         /\ s.phase = "leased" <=> HandleOf(w, s) \notin begun
  /\ s.pc \notin Executing => s.phase = "leased" /\ s.fills = 0
  /\ s.fills > 0 => s.phase # "leased"
  /\ s.pc = "write" => s.phase = "interaction_started" /\ s.fills < 2
  /\ s.pc = "click" => /\ s.phase = "submit_barrier_recorded"
                       /\ HandleOf(w, s) \in barred /\ clicks = 0
  /\ Submitted(s) => clicks = 1
  /\ s.answer = "authenticated" =>
       attempt.status = "authenticated" /\ attempt.attemptId = s.id
  /\ Terminal /\ s.pc \in Executing \ {"decide"} /\ s.phase # "leased" =>
       attempt.failureClass = "interaction_outcome_uncertain"

Session(w) == SessionOf(w, worker[w])

\* Only a lease that began reaches the portal, and one press at most.
PortalInv ==
  /\ written \subseteq begun
  /\ clicks \in 0..1
  /\ clicks = 1 => barred # {}

\* What a verdict says of the portal.
Verdicts ==
  /\ attempt.failureClass # "none" => attempt.status = "failed"
  /\ attempt.failureClass \in {"transient_pre_interaction", "unclassified_failure"}
       => begun = {}
  /\ attempt.status = "authenticated" => clicks = 1 \/ begun = {}

SInv ==
  /\ IInv
  /\ worker \in [Tokens -> Invocation]
  /\ PortalInv /\ Verdicts
  /\ \A w \in Tokens : Session(w)

-----------------------------------------------------------------------------
(* Steps that move one worker only.                                        *)

LEMMA EntryTypes ==
  ASSUME NEW id \in AttemptIds
  PROVE  Entry(id) \in Invocation
BY DEF Entry, Invocation, Calls, Outcomes, Answers

LEMMA StoreStutter ==
  ASSUME IInv, UNCHANGED storeVars PROVE IInv'
BY NextPreserves

LEMMA LocalStep ==
  ASSUME SInv, NEW w \in Tokens, NEW r \in Invocation,
         worker' = [worker EXCEPT ![w] = r],
         UNCHANGED <<storeVars, portal>>, SessionOf(w, r)
  PROVE  SInv'
<1>1. /\ attempt' = attempt /\ issued' = issued /\ begun' = begun /\ barred' = barred
      /\ written' = written /\ clicks' = clicks
      /\ worker \in [Tokens -> Invocation] /\ worker' \in [Tokens -> Invocation]
  BY DEF storeVars, portal, SInv
<1>2. IInv'
  BY StoreStutter DEF SInv
<1>3. PortalInv' /\ Verdicts'
  BY <1>1 DEF SInv, PortalInv, Verdicts
<1>4. ASSUME NEW v \in Tokens PROVE Session(v)'
  <2>1. SessionOf(v, worker'[v])
    <3>1. CASE v = w
      BY <1>1, <3>1
    <3>2. CASE v # w
      BY <1>1, <3>2 DEF SInv, Session
    <3> QED
      BY <3>1, <3>2
  <2> QED
    BY <1>1, <2>1 DEF Session, SessionOf, HandleOf, Terminal
<1> QED
  BY <1>1, <1>2, <1>3, <1>4 DEF SInv

LEMMA InitSession == Init => SInv
<1> SUFFICES ASSUME Init PROVE SInv
  OBVIOUS
<1>1. IInv
  BY InitEstablishes DEF Init
<1>2. PICK id \in AttemptIds : TRUE
  BY DEF Init, StoreInit
<1> DEFINE d == CHOOSE id0 \in AttemptIds : TRUE
<1>3. d \in AttemptIds
  BY <1>2
<1> HIDE DEF d
<1>4. worker = [w \in Tokens |-> [Entry(d) EXCEPT !.pc = "idle"]]
  BY DEF Init, d
<1>5. [Entry(d) EXCEPT !.pc = "idle"] \in Invocation
  BY <1>3, EntryTypes DEF Invocation, Calls
<1>6. worker \in [Tokens -> Invocation]
  BY <1>4, <1>5
<1>7. \A w \in Tokens : Session(w)
  BY <1>4 DEF Session, SessionOf, Submitted, Entry, Executing, Holding
<1>8. PortalInv /\ Verdicts
  BY DEF Init, StoreInit, PortalInv, Verdicts
<1> QED
  BY <1>1, <1>6, <1>7, <1>8 DEF SInv

-----------------------------------------------------------------------------
(* Steps that call a statement of the store.                               *)

\* The histories only grow, and a verdict stops everything.
LEMMA HistoryGrows ==
  ASSUME IInv, StoreNext
  PROVE  /\ issued \subseteq issued' /\ begun \subseteq begun' /\ barred \subseteq barred'
         /\ Terminal => UNCHANGED storeVars
<1>1. CASE \E id \in AttemptIds :
             \/ Create(id) \/ ReconcileRetry(id) \/ ReconcileTerminal(id)
             \/ \E token \in Tokens : AcquireLease(id, token)
  BY <1>1 DEF Create, AcquireLease, Free, ReconcileRetry, ReconcileTerminal, Expired, Terminal
<1>2. CASE \E h \in issued : OwnerStep(h)
  BY <1>2 DEF OwnerStep, RenewLease, BeginCredentialInteraction, RecordSubmitBarrier,
              ClaimRetry, ExhaustRetry, CompleteAuthenticated, CompleteFailed, Holds, Terminal
<1>3. CASE Tick
  BY <1>3 DEF Tick, IInv, OwnerShape, Terminal
<1> QED
  BY <1>1, <1>2, <1>3 DEF StoreNext

\* A worker that is not the one to move keeps what it knows.
LEMMA Bystander ==
  ASSUME IInv, NEW v \in Tokens, NEW s \in Invocation, SessionOf(v, s), StoreNext,
         clicks' = clicks,
         HandleOf(v, s) \in begun' => HandleOf(v, s) \in begun,
         ~Terminal /\ Terminal' /\ HandleOf(v, s) \in begun =>
           attempt'.failureClass = "interaction_outcome_uncertain"
  PROVE  SessionOf(v, s)'
<1>1. /\ issued \subseteq issued' /\ begun \subseteq begun' /\ barred \subseteq barred'
      /\ Terminal => attempt' = attempt
  BY HistoryGrows DEF storeVars
<1> QED
  BY <1>1 DEF SessionOf, HandleOf, Submitted, Terminal, Executing, Holding

\* What is left to show of a worker's call: what the worker knows afterwards, and
\* what a verdict it brings about says.
LEMMA CallStep ==
  ASSUME SInv, NEW w \in Tokens, NEW r \in Invocation,
         worker' = [worker EXCEPT ![w] = r], StoreNext, UNCHANGED portal,
         begun' \subseteq begun \cup {HandleOf(w, r)},
         ~Terminal /\ Terminal' =>
           \/ attempt'.failureClass = "interaction_outcome_uncertain"
           \/ begun \subseteq {HandleOf(w, worker[w])},
         SessionOf(w, r)', Verdicts'
  PROVE  SInv'
<1>1. /\ written' = written /\ clicks' = clicks
      /\ worker \in [Tokens -> Invocation] /\ worker' \in [Tokens -> Invocation]
  BY DEF portal, SInv
<1>2. IInv /\ IInv'
  BY NextPreserves DEF SInv
<1>3. PortalInv'
  BY <1>1, <1>2, HistoryGrows DEF SInv, PortalInv
<1>4. ASSUME NEW v \in Tokens PROVE Session(v)'
  <2>1. CASE v = w
    <3>1. worker'[v] = r
      BY <1>1, <2>1
    <3> QED
      BY <2>1, <3>1 DEF Session, SessionOf, HandleOf
  <2>2. CASE v # w
    <3>1. PICK s \in Invocation : s = worker[v]
      BY <1>1
    <3>2. /\ SessionOf(v, s) /\ worker'[v] = s
          /\ HandleOf(v, s) # HandleOf(w, r) /\ HandleOf(v, s) # HandleOf(w, worker[w])
      BY <1>1, <2>2, <3>1 DEF SInv, Session, HandleOf
    <3>3. HandleOf(v, s) \in begun' => HandleOf(v, s) \in begun
      BY <3>2
    <3>4. ~Terminal /\ Terminal' /\ HandleOf(v, s) \in begun =>
            attempt'.failureClass = "interaction_outcome_uncertain"
      BY <3>2
    <3>5. SessionOf(v, s)'
      BY <1>1, <1>2, <3>2, <3>3, <3>4, Bystander
    <3> QED
      BY <3>2, <3>5 DEF Session, SessionOf, HandleOf
  <2> QED
    BY <2>1, <2>2
<1> QED
  BY <1>1, <1>2, <1>3, <1>4 DEF SInv

-----------------------------------------------------------------------------
(* The coordinator and the mint.                                           *)

\* A worker that holds no lease goes on to a call that needs none.
LEMMA MoveStep ==
  ASSUME SInv, NEW w \in Tokens, NEW r \in Invocation,
         worker[w].pc \notin Executing, r.pc \notin Holding,
         r.id = worker[w].id, r.phase = worker[w].phase, r.fills = worker[w].fills,
         r.answer = worker[w].answer,
         worker' = [worker EXCEPT ![w] = r], UNCHANGED <<storeVars, portal>>
  PROVE  SInv'
<1>1. SessionOf(w, r)
  BY DEF SInv, Session, SessionOf, Submitted, Executing, Holding
<1> QED
  BY <1>1, LocalStep

LEMMA GoToStep ==
  ASSUME SInv, NEW w \in Tokens, NEW pc \in Calls \ Holding,
         worker[w].pc \notin Executing, GoTo(w, pc), UNCHANGED <<storeVars, portal>>
  PROVE  SInv'
<1>1. PICK s \in Invocation : s = worker[w]
  BY DEF SInv
<1>2. PICK r \in Invocation : r = [s EXCEPT !.pc = pc]
  BY DEF Invocation
<1>3. worker' = [worker EXCEPT ![w] = r]
  BY <1>1, <1>2 DEF GoTo
<1>4. r.pc = pc /\ r.id = s.id /\ r.phase = s.phase /\ r.fills = s.fills /\ r.answer = s.answer
  BY <1>2 DEF Invocation
<1> QED
  BY <1>1, <1>3, <1>4, MoveStep

\* The answer's record, and what it takes to answer.
LEMMA AnswerRecord ==
  ASSUME NEW s \in Invocation, NEW answer \in Answers
  PROVE  LET r == [Entry(s.id) EXCEPT !.pc = "idle", !.answer = answer]
         IN  /\ r \in Invocation /\ r.pc = "idle" /\ r.id = s.id /\ r.phase = "leased"
             /\ r.fills = 0 /\ r.answer = answer
<1>1. s.id \in AttemptIds
  BY DEF Invocation
<1>2. /\ Entry(s.id) \in Invocation /\ Entry(s.id).id = s.id
      /\ Entry(s.id).phase = "leased" /\ Entry(s.id).fills = 0
  BY <1>1, EntryTypes DEF Entry
<1> QED
  BY <1>2 DEF Invocation, Calls

LEMMA AnswerStep ==
  ASSUME SInv, NEW w \in Tokens, NEW answer \in Answers, Answer(w, answer),
         UNCHANGED <<storeVars, portal>>,
         answer = "authenticated" =>
           attempt.status = "authenticated" /\ attempt.attemptId = worker[w].id
  PROVE  SInv'
<1>1. PICK s \in Invocation : s = worker[w]
  BY DEF SInv
<1>2. PICK r \in Invocation :
        /\ r = [Entry(s.id) EXCEPT !.pc = "idle", !.answer = answer]
        /\ r.pc = "idle" /\ r.id = s.id /\ r.phase = "leased" /\ r.fills = 0
        /\ r.answer = answer
  BY AnswerRecord
<1>3. worker' = [worker EXCEPT ![w] = r]
  BY <1>1, <1>2 DEF Answer
<1>4. SessionOf(w, r)
  BY <1>1, <1>2 DEF SessionOf, Submitted, Executing, Holding
<1> QED
  BY <1>3, <1>4, LocalStep

\* The verdict of a row is an answer, and "authenticated" only for its own attempt.
LEMMA VerdictStep ==
  ASSUME SInv, NEW w \in Tokens, IsRow(worker[w].id), Terminal, Answer(w, Verdict),
         UNCHANGED <<storeVars, portal>>
  PROVE  SInv'
<1>1. /\ Verdict \in Answers
      /\ Verdict = "authenticated" =>
           attempt.status = "authenticated" /\ attempt.attemptId = worker[w].id
  BY DEF Verdict, IsRow, Answers
<1> QED
  BY <1>1, AnswerStep

LEMMA OtherAnswerStep ==
  ASSUME SInv, NEW w \in Tokens,
         NEW answer \in {"none", "retry_delivery", "needs_operator_action", "in_progress",
                         "cancelled"},
         Answer(w, answer), UNCHANGED <<storeVars, portal>>
  PROVE  SInv'
BY AnswerStep DEF Answers

LEMMA DeliverStep ==
  ASSUME SInv, NEW w \in Tokens, Deliver(w) PROVE SInv'
<1>1. PICK id \in AttemptIds : worker' = [worker EXCEPT ![w] = Entry(id)]
  BY DEF Deliver
<1>2. PICK r \in Invocation : r = Entry(id)
  BY EntryTypes
<1>3. SessionOf(w, r)
  BY <1>2 DEF SessionOf, Submitted, Executing, Holding, Entry
<1>4. UNCHANGED <<storeVars, portal>>
  BY DEF Deliver
<1> QED
  BY <1>1, <1>2, <1>3, <1>4, LocalStep

LEMMA FindStep ==
  ASSUME SInv, NEW w \in Tokens, FindExact(w) \/ AuthFind(w) PROVE SInv'
<1> DEFINE id == worker[w].id
<1>1. UNCHANGED <<storeVars, portal>> /\ worker[w].pc \notin Executing
  BY DEF FindExact, AuthFind, At, Executing
<1>2. CASE IsRow(id) /\ Terminal /\ Answer(w, Verdict)
  BY <1>1, <1>2, VerdictStep
<1>3. CASE Answer(w, "in_progress")
  BY <1>1, <1>3, OtherAnswerStep
<1>4. ASSUME NEW pc \in {"probe", "acquire", "probeNew", "authProbe"}, GoTo(w, pc) PROVE SInv'
  BY <1>1, <1>4, GoToStep DEF Calls, Holding, Executing
<1> QED
  BY <1>2, <1>3, <1>4 DEF FindExact, AuthFind

LEMMA ProbeStep ==
  ASSUME SInv, NEW w \in Tokens, Probe(w) \/ AuthProbe(w) PROVE SInv'
<1>1. UNCHANGED <<storeVars, portal>> /\ worker[w].pc \notin Executing
  BY DEF Probe, AuthProbe, At, Executing
<1>2. PICK s \in Invocation : s = worker[w]
  BY DEF SInv
<1>3. CASE \E answer \in {"retry_delivery", "cancelled"} : Answer(w, answer)
  BY <1>1, <1>3, OtherAnswerStep
<1>4. ASSUME NEW pc \in {"create", "acquire", "authCreate"}, GoTo(w, pc) PROVE SInv'
  BY <1>1, <1>4, GoToStep DEF Calls, Holding, Executing
<1>5. CASE worker' = [worker EXCEPT ![w].pc = IF At(w, "probeNew") THEN "create" ELSE "acquire"]
  <2>1. \/ worker' = [worker EXCEPT ![w].pc = "create"]
        \/ worker' = [worker EXCEPT ![w].pc = "acquire"]
    BY <1>5
  <2> QED
    BY <1>4, <2>1 DEF GoTo
<1>6. CASE worker' = [worker EXCEPT ![w].pc = "authFind", ![w].minting = TRUE,
                                    ![w].reconciled = FALSE]
  <2>1. PICK r \in Invocation :
          r = [s EXCEPT !.pc = "authFind", !.minting = TRUE, !.reconciled = FALSE]
    BY DEF Invocation, Calls
  <2>2. worker' = [worker EXCEPT ![w] = r]
    BY <1>2, <1>6, <2>1 DEF SInv
  <2>3. /\ r.pc = "authFind" /\ r.id = s.id /\ r.phase = s.phase /\ r.fills = s.fills
        /\ r.answer = s.answer
    BY <2>1 DEF Invocation
  <2> QED
    BY <1>1, <1>2, <2>2, <2>3, MoveStep DEF Holding, Executing
<1> QED
  BY <1>3, <1>4, <1>5, <1>6 DEF Probe, AuthProbe

LEMMA DiagnoseStep ==
  ASSUME SInv, NEW w \in Tokens, Diagnose(w) \/ FindTerminalOrRetry(w) PROVE SInv'
<1>1. UNCHANGED <<storeVars, portal>> /\ worker[w].pc \notin Executing
  BY DEF Diagnose, FindTerminalOrRetry, At, Executing
<1>2. PICK s \in Invocation : s = worker[w]
  BY DEF SInv
<1>3. CASE \E answer \in {"retry_delivery", "in_progress"} : Answer(w, answer)
  BY <1>1, <1>3, OtherAnswerStep
<1>4. CASE IsRow(worker[w].id) /\ Terminal /\ Answer(w, Verdict)
  BY <1>1, <1>4, VerdictStep
<1>5. CASE GoTo(w, "findTerminal")
  BY <1>1, <1>5, GoToStep DEF Calls, Holding, Executing
<1>6. CASE worker' = [worker EXCEPT ![w].pc = "reconcile", ![w].reconciled = TRUE]
  <2>1. PICK r \in Invocation : r = [s EXCEPT !.pc = "reconcile", !.reconciled = TRUE]
    BY DEF Invocation, Calls
  <2>2. worker' = [worker EXCEPT ![w] = r]
    BY <1>2, <1>6, <2>1 DEF SInv
  <2>3. /\ r.pc = "reconcile" /\ r.id = s.id /\ r.phase = s.phase /\ r.fills = s.fills
        /\ r.answer = s.answer
    BY <2>1 DEF Invocation
  <2> QED
    BY <1>1, <1>2, <2>2, <2>3, MoveStep DEF Holding, Executing
<1>7. LeaseDiagnosis(worker[w].id) = "terminal" => IsRow(worker[w].id) /\ Terminal
  BY DEF LeaseDiagnosis, Free, Terminal
<1>8. CASE Diagnose(w)
  BY <1>3, <1>4, <1>5, <1>6, <1>7, <1>8 DEF Diagnose
<1>9. CASE FindTerminalOrRetry(w)
  BY <1>3, <1>4, <1>9 DEF FindTerminalOrRetry
<1> QED
  BY <1>8, <1>9

\* The row is born, or met; nobody holds it yet.
LEMMA GetOrCreateStep ==
  ASSUME SInv, NEW w \in Tokens, GetOrCreate(w) PROVE SInv'
<1> DEFINE id == worker[w].id
<1>1. UNCHANGED portal /\ worker[w].pc \notin Executing /\ id \in AttemptIds
  BY DEF GetOrCreate, At, Executing, SInv, Invocation
<1>2. PICK s \in Invocation : s = worker[w]
  BY DEF SInv
<1>3. CASE UNCHANGED storeVars /\ IsRow(id) /\ Terminal /\ Answer(w, Verdict)
  BY <1>1, <1>3, VerdictStep
<1>4. CASE /\ UNCHANGED storeVars
           /\ \E answer \in {"needs_operator_action", "in_progress"} : Answer(w, answer)
  BY <1>1, <1>4, OtherAnswerStep
<1>5. CASE UNCHANGED storeVars /\ GoTo(w, "acquire")
  BY <1>1, <1>5, GoToStep DEF Calls, Holding, Executing
<1>6. CASE Create(id) /\ GoTo(w, "acquire")
  <2>1. PICK r \in Invocation : r = [s EXCEPT !.pc = "acquire"]
    BY DEF Invocation, Calls
  <2>2. worker' = [worker EXCEPT ![w] = r]
    BY <1>2, <1>6, <2>1 DEF GoTo
  <2>3. r.pc = "acquire" /\ r.phase = s.phase /\ r.fills = s.fills /\ r.answer = s.answer
    BY <2>1 DEF Invocation
  <2>4. /\ attempt.status = "missing" /\ attempt'.status = "active"
        /\ attempt'.failureClass = attempt.failureClass
        /\ begun' = begun /\ ~Terminal'
    BY <1>6 DEF Create, SInv, IInv, StoreTypeOK, Attempts, Terminal
  <2>5. Verdicts'
    BY <2>4 DEF SInv, Verdicts
  <2>6. SessionOf(w, r)'
    BY <1>1, <1>2, <2>3, <2>4
       DEF SInv, Session, SessionOf, Submitted, Executing, Holding, Terminal
  <2>7. StoreNext
    BY <1>1, <1>6 DEF StoreNext
  <2> QED
    BY <1>1, <2>2, <2>4, <2>5, <2>6, <2>7, CallStep
<1> QED
  BY <1>3, <1>4, <1>5, <1>6 DEF GetOrCreate

\* A lease just taken has not begun anything.
LEMMA AcquireCall ==
  ASSUME SInv, NEW w \in Tokens, Acquire(w) PROVE SInv'
<1> DEFINE id == worker[w].id
<1>1. UNCHANGED portal /\ worker[w].pc = "acquire" /\ id \in AttemptIds
  BY DEF Acquire, At, SInv, Invocation
<1>2. PICK s \in Invocation : s = worker[w]
  BY DEF SInv
<1>3. CASE UNCHANGED storeVars /\ GoTo(w, "diagnose")
  BY <1>1, <1>3, GoToStep DEF Calls, Holding, Executing
<1>4. CASE AcquireLease(id, w) /\ UNCHANGED portal /\
           worker' = [worker EXCEPT
             ![w].pc = IF worker[w].minting THEN "executing" ELSE "complete",
             ![w].generation = attempt.generation + 1]
  <2>1. PICK g \in Nat : g = attempt.generation + 1
    BY DEF SInv, IInv, StoreTypeOK, Attempts
  <2>2. PICK r \in Invocation :
          r = [s EXCEPT !.pc = IF s.minting THEN "executing" ELSE "complete",
                        !.generation = g]
    BY DEF Invocation, Calls
  <2>3. worker' = [worker EXCEPT ![w] = r]
    BY <1>2, <1>4, <2>1, <2>2 DEF SInv
  <2>4. /\ r.pc \in {"executing", "complete"} /\ r.generation = g /\ r.id = s.id
        /\ r.phase = s.phase /\ r.fills = s.fills /\ r.answer = s.answer
        /\ r.outcome = s.outcome
    BY <2>2 DEF Invocation
  <2>5. s.phase = "leased" /\ s.fills = 0 /\ s.pc = "acquire"
    BY <1>1, <1>2 DEF SInv, Session, SessionOf, Executing
  <2>6. /\ attempt.status = "active" /\ attempt'.status = "active"
        /\ attempt'.failureClass = attempt.failureClass
        /\ begun' = begun /\ ~Terminal /\ ~Terminal'
    BY <1>4 DEF AcquireLease, Free, SInv, IInv, StoreTypeOK, Attempts, Terminal
  <2>7. HandleOf(w, r) \in issued' /\ HandleOf(w, r) \notin begun'
    <3>1. HandleOf(w, r) = [attemptId |-> id, token |-> w, generation |-> g]
      BY <1>2, <2>4 DEF HandleOf
    <3>2. HandleOf(w, r) \in issued'
      BY <1>4, <2>1, <3>1 DEF AcquireLease
    <3>3. \A h \in begun : h.generation < g
      BY <2>1 DEF SInv, IInv, StoreTypeOK, IssuedCount, Attempts, Handles
    <3> QED
      BY <2>6, <3>1, <3>2, <3>3
  <2>8. Verdicts'
    BY <2>6 DEF SInv, Verdicts
  <2>9. s.answer # "authenticated"
    BY <1>2, <2>6 DEF SInv, Session, SessionOf
  <2>10. SessionOf(w, r)'
    BY <2>4, <2>5, <2>6, <2>7, <2>9
       DEF SessionOf, HandleOf, Submitted, Executing, Holding, Terminal
  <2>11. StoreNext
    BY <1>1, <1>4 DEF StoreNext
  <2> QED
    BY <1>1, <2>3, <2>6, <2>8, <2>10, <2>11, CallStep
<1> QED
  BY <1>3, <1>4 DEF Acquire

-----------------------------------------------------------------------------
(* Letting go of the row.                                                  *)

\* The columns that the store's own proofs do not look at.
LEMMA LetGoColumns ==
  ASSUME attempt \in Attempts
  PROVE  /\ LET row == [Released(attempt) EXCEPT !.retryCount = @ + 1]
            IN  row.attemptId = attempt.attemptId /\ row.failureClass = attempt.failureClass
                /\ row.status = attempt.status
         /\ \A class \in FailureClasses :
              /\ Failed(attempt, class).attemptId = attempt.attemptId
              /\ Failed(attempt, class).failureClass = class
              /\ Failed(attempt, class).status = "failed"
         /\ LET row == [Released(attempt) EXCEPT !.status = "authenticated"]
            IN  row.attemptId = attempt.attemptId /\ row.failureClass = attempt.failureClass
                /\ row.status = "authenticated"
<1>1. /\ Released(attempt) \in Attempts /\ Released(attempt).status = attempt.status
  BY ReleasedRow
<1>2. /\ Released(attempt).attemptId = attempt.attemptId
      /\ Released(attempt).failureClass = attempt.failureClass
  BY DEF Released, Attempts
<1> QED
  BY <1>1, <1>2 DEF Failed, Attempts

\* A worker that calls a statement and is over with its answer.
LEMMA LetGoCall ==
  ASSUME SInv, NEW w \in Tokens, NEW answer \in Answers, Answer(w, answer), StoreNext,
         UNCHANGED <<portal, begun>>, Verdicts',
         ~Terminal /\ Terminal' =>
           \/ attempt'.failureClass = "interaction_outcome_uncertain"
           \/ begun \subseteq {HandleOf(w, worker[w])},
         answer = "authenticated" =>
           attempt'.status = "authenticated" /\ attempt'.attemptId = worker[w].id
  PROVE  SInv'
<1>1. PICK s \in Invocation : s = worker[w]
  BY DEF SInv
<1>2. PICK r \in Invocation :
        /\ r = [Entry(s.id) EXCEPT !.pc = "idle", !.answer = answer]
        /\ r.pc = "idle" /\ r.id = s.id /\ r.phase = "leased" /\ r.fills = 0
        /\ r.answer = answer
  BY AnswerRecord
<1>3. worker' = [worker EXCEPT ![w] = r]
  BY <1>1, <1>2 DEF Answer
<1>4. SessionOf(w, r)'
  BY <1>1, <1>2 DEF SessionOf, Submitted, Executing, Holding
<1> QED
  BY <1>3, <1>4, CallStep

\* A worker that calls a statement and goes on without a lease.
LEMMA MoveCall ==
  ASSUME SInv, NEW w \in Tokens, NEW pc \in Calls \ Holding,
         worker[w].pc \notin Executing, worker[w].answer # "authenticated" \/ Terminal',
         GoTo(w, pc), StoreNext, UNCHANGED <<portal, begun>>, Verdicts',
         ~Terminal,
         Terminal' => \/ attempt'.failureClass = "interaction_outcome_uncertain"
                      \/ begun = {}
  PROVE  SInv'
<1>1. PICK s \in Invocation : s = worker[w]
  BY DEF SInv
<1>2. PICK r \in Invocation : r = [s EXCEPT !.pc = pc]
  BY DEF Invocation
<1>3. worker' = [worker EXCEPT ![w] = r]
  BY <1>1, <1>2 DEF GoTo
<1>4. r.pc = pc /\ r.phase = s.phase /\ r.fills = s.fills /\ r.answer = s.answer
  BY <1>2 DEF Invocation
<1>5. s.answer # "authenticated"
  BY <1>1 DEF SInv, Session, SessionOf, Terminal
<1>6. SessionOf(w, r)'
  BY <1>1, <1>4, <1>5 DEF SInv, Session, SessionOf, Submitted, Executing, Holding
<1> QED
  BY <1>3, <1>6, CallStep

LEMMA ReconcileStep ==
  ASSUME SInv, NEW w \in Tokens, Reconcile(w) PROVE SInv'
<1> DEFINE id == worker[w].id
<1>1. UNCHANGED portal /\ worker[w].pc \notin Executing /\ id \in AttemptIds
  BY DEF Reconcile, At, Executing, SInv, Invocation
<1>2. CASE UNCHANGED storeVars /\ GoTo(w, "reconcileTerminal")
  BY <1>1, <1>2, GoToStep DEF Calls, Holding, Executing
<1>3. CASE ReconcileRetry(id) /\ GoTo(w, IF worker[w].minting THEN "authFind" ELSE "probe")
  <2>1. PICK pc \in Calls \ Holding : GoTo(w, pc)
    BY <1>3 DEF Calls, Holding, Executing
  <2>2. /\ attempt \in Attempts /\ attempt.status = "active" /\ begun' = begun
        /\ attempt' = [Released(attempt) EXCEPT !.retryCount = @ + 1]
    BY <1>3 DEF ReconcileRetry, Expired, SInv, IInv, StoreTypeOK
  <2>3. attempt'.status = "active" /\ attempt'.failureClass = attempt.failureClass
    BY <2>2, LetGoColumns
  <2>4. Verdicts' /\ ~Terminal /\ ~Terminal'
    BY <2>2, <2>3 DEF SInv, Verdicts, Terminal
  <2>5. StoreNext
    BY <1>1, <1>3 DEF StoreNext
  <2>6. worker[w].answer # "authenticated"
    BY <2>2 DEF SInv, Session, SessionOf
  <2> QED
    BY <1>1, <2>1, <2>2, <2>4, <2>5, <2>6, MoveCall
<1> QED
  BY <1>2, <1>3 DEF Reconcile

\* The attempt fails for the lease that ran out: uncertain, unless untouched.
LEMMA ReconcileOverStep ==
  ASSUME SInv, NEW w \in Tokens, ReconcileOver(w) PROVE SInv'
<1> DEFINE id == worker[w].id
<1>1. UNCHANGED portal /\ worker[w].pc \notin Executing /\ id \in AttemptIds
  BY DEF ReconcileOver, At, Executing, SInv, Invocation
<1>2. CASE UNCHANGED storeVars /\ Answer(w, "retry_delivery")
  BY <1>1, <1>2, OtherAnswerStep
<1>3. CASE UNCHANGED storeVars /\ GoTo(w, "findTerminal")
  BY <1>1, <1>3, GoToStep DEF Calls, Holding, Executing
<1>4. CASE /\ ReconcileTerminal(id)
           /\ GoTo(w, "authFind") \/ Answer(w, "needs_operator_action")
  <2>1. /\ attempt \in Attempts /\ attempt.status = "active" /\ begun' = begun
        /\ Untouched => begun = {}
    BY <1>4 DEF ReconcileTerminal, Expired, SInv, IInv, StoreTypeOK, PhaseTellsAll
  <2>2. PICK class \in {"transient_pre_interaction", "interaction_outcome_uncertain"} :
          /\ attempt' = Failed(attempt, class)
          /\ class = "transient_pre_interaction" => Untouched
    BY <1>4 DEF ReconcileTerminal
  <2>3. attempt'.status = "failed" /\ attempt'.failureClass = class
    BY <2>1, <2>2, LetGoColumns DEF FailureClasses
  <2>4. Verdicts' /\ ~Terminal
    BY <2>1, <2>2, <2>3 DEF Verdicts, Terminal
  <2>5. \/ attempt'.failureClass = "interaction_outcome_uncertain"
        \/ begun = {}
    BY <2>1, <2>2, <2>3
  <2>6. StoreNext
    BY <1>1, <1>4 DEF StoreNext
  <2>7. worker[w].answer # "authenticated"
    BY <2>1 DEF SInv, Session, SessionOf
  <2>8. CASE GoTo(w, "authFind")
    <3>1. "authFind" \in Calls \ Holding
      BY DEF Calls, Holding, Executing
    <3> QED
      BY <1>1, <2>1, <2>4, <2>5, <2>6, <2>7, <2>8, <3>1, MoveCall
  <2>9. CASE Answer(w, "needs_operator_action")
    BY <1>1, <2>1, <2>4, <2>5, <2>6, <2>9, LetGoCall DEF Answers
  <2> QED
    BY <1>4, <2>8, <2>9
<1> QED
  BY <1>2, <1>3, <1>4 DEF ReconcileOver

-----------------------------------------------------------------------------
(* The holder of the lease.                                                *)

\* A worker whose handle holds the row is the only one that can have begun.
LEMMA HolderBegun ==
  ASSUME SInv, NEW w \in Tokens, worker[w].pc \in Holding, Holds(Handle(w))
  PROVE  /\ Handle(w) \in issued /\ Handle(w) = HandleOf(w, worker[w])
         /\ attempt.status = "active" /\ attempt.attemptId = worker[w].id
         /\ begun \subseteq {Handle(w)}
         /\ worker[w].phase = "leased" <=> begun = {}
         /\ worker[w].answer # "authenticated" /\ ~Terminal
<1>1. Handle(w) = HandleOf(w, worker[w]) /\ Handle(w) \in issued
  BY DEF Handle, HandleOf, SInv, Session, SessionOf
<1>2. /\ attempt.status = "active" /\ attempt.owner # NoOwner
      /\ Handle(w) = [attemptId |-> attempt.attemptId, token |-> attempt.owner,
                      generation |-> attempt.generation]
  BY <1>1, HolderOwns DEF SInv
<1>3. begun = {} \/ begun = {Handle(w)}
  BY <1>2 DEF SInv, IInv, TouchedByOwner, PhaseTellsAll
<1>4. worker[w].phase = "leased" <=> Handle(w) \notin begun
  BY <1>1 DEF SInv, Session, SessionOf
<1>5. worker[w].answer # "authenticated"
  BY <1>2 DEF SInv, Session, SessionOf
<1>6. attempt.attemptId = worker[w].id
  BY DEF Holds, Handle
<1> QED
  BY <1>1, <1>2, <1>3, <1>4, <1>5, <1>6 DEF Terminal

\* An observed login is complete: no credential was written for it.
LEMMA CompleteStep ==
  ASSUME SInv, NEW w \in Tokens, CompleteObserved(w) PROVE SInv'
<1>1. UNCHANGED portal /\ worker[w].pc = "complete"
  BY DEF CompleteObserved, At
<1>2. CASE UNCHANGED storeVars /\ Answer(w, "retry_delivery")
  BY <1>1, <1>2, OtherAnswerStep
<1>3. CASE CompleteAuthenticated(Handle(w)) /\ Answer(w, "authenticated")
  <2>1. worker[w].phase = "leased" /\ worker[w].pc \in Holding
    BY <1>1 DEF SInv, Session, SessionOf, Executing, Holding
  <2>2. /\ Handle(w) \in issued /\ attempt.attemptId = worker[w].id /\ begun = {}
        /\ attempt.status = "active"
    BY <1>3, <2>1, HolderBegun DEF CompleteAuthenticated
  <2>3. /\ attempt' = [Released(attempt) EXCEPT !.status = "authenticated"]
        /\ begun' = begun /\ attempt \in Attempts
    BY <1>3 DEF CompleteAuthenticated, SInv, IInv, StoreTypeOK
  <2>4. /\ attempt'.attemptId = attempt.attemptId
        /\ attempt'.failureClass = attempt.failureClass
        /\ attempt'.status = "authenticated"
    BY <2>3, LetGoColumns
  <2>5. Verdicts'
    BY <2>2, <2>3, <2>4 DEF SInv, Verdicts
  <2>6. StoreNext
    BY <1>3, <2>2 DEF StoreNext, OwnerStep
  <2> QED
    BY <1>1, <1>3, <2>2, <2>3, <2>4, <2>5, <2>6, LetGoCall DEF Answers
<1> QED
  BY <1>2, <1>3 DEF CompleteObserved

\* A refusal is remembered by the worker alone.
LEMMA RefusedStep ==
  ASSUME SInv, NEW w \in Tokens, Refused(w), UNCHANGED <<storeVars, portal>>
  PROVE  SInv'
<1>1. PICK s \in Invocation : s = worker[w]
  BY DEF SInv
<1>2. PICK r \in Invocation : r = [s EXCEPT !.sticky = TRUE]
  BY DEF Invocation
<1>3. worker' = [worker EXCEPT ![w] = r]
  BY <1>1, <1>2 DEF Refused
<1>4. /\ r.pc = s.pc /\ r.id = s.id /\ r.generation = s.generation /\ r.phase = s.phase
      /\ r.fills = s.fills /\ r.outcome = s.outcome /\ r.answer = s.answer
  BY <1>2 DEF Invocation
<1>5. SessionOf(w, s)
  BY <1>1 DEF SInv, Session
<1>6. SessionOf(w, r)
  BY <1>4, <1>5 DEF SessionOf, HandleOf, Submitted
<1> QED
  BY <1>3, <1>6, LocalStep

\* A fence that lets its holder through, to a field or to the submit control.
LEMMA FenceStep ==
  ASSUME SInv, NEW w \in Tokens, worker[w].pc = "executing",
         NEW pc \in {"write", "click"},
         NEW phase \in {"interaction_started", "submit_barrier_recorded"},
         Authorized(w, pc, phase), Holds(Handle(w)), StoreNext, UNCHANGED portal,
         attempt'.status = "active", attempt'.failureClass = attempt.failureClass,
         begun' = begun \cup {Handle(w)},
         pc = "write" => phase = "interaction_started" /\ worker[w].fills < 2,
         pc = "click" => /\ phase = "submit_barrier_recorded"
                         /\ Handle(w) \in barred' /\ clicks = 0
  PROVE  SInv'
<1>1. PICK s \in Invocation : s = worker[w]
  BY DEF SInv
<1>2. PICK r \in Invocation : r = [s EXCEPT !.pc = pc, !.phase = phase]
  BY DEF Invocation, Calls
<1>3. worker' = [worker EXCEPT ![w] = r]
  BY <1>1, <1>2 DEF Authorized, SInv
<1>4. /\ r.pc = pc /\ r.id = s.id /\ r.generation = s.generation /\ r.phase = phase
      /\ r.fills = s.fills /\ r.outcome = s.outcome /\ r.answer = s.answer
  BY <1>2 DEF Invocation
<1>5. /\ HandleOf(w, r) = Handle(w) /\ HandleOf(w, s) = Handle(w)
      /\ s.answer # "authenticated" /\ ~Terminal /\ attempt.status = "active"
      /\ Handle(w) \in issued
  BY <1>1, <1>4, HolderBegun DEF HandleOf, Handle, Executing, Holding
<1>6. issued \subseteq issued' /\ clicks' = clicks
  BY HistoryGrows DEF SInv, portal
<1>7. Verdicts'
  BY <1>5 DEF SInv, Verdicts
<1>8. SessionOf(w, r)'
  <2>1. HandleOf(w, r)' = HandleOf(w, r)
    BY DEF HandleOf
  <2> QED
    BY <1>1, <1>4, <1>5, <1>6, <2>1
       DEF SessionOf, Submitted, Executing, Holding, Terminal
<1> QED
  BY <1>3, <1>5, <1>7, <1>8, CallStep DEF Terminal

LEMMA FieldFences ==
  ASSUME SInv, NEW w \in Tokens, BeginFence(w) \/ RenewFence(w) PROVE SInv'
<1>1. /\ UNCHANGED portal /\ worker[w].pc = "executing" /\ worker[w].pc \in Holding
      /\ worker[w].fills < 2
  BY DEF BeginFence, RenewFence, At, Executing, Holding
<1>2. CASE Refused(w) /\ UNCHANGED storeVars
  BY <1>1, <1>2, RefusedStep
<1>3. CASE BeginCredentialInteraction(Handle(w)) /\ Authorized(w, "write", "interaction_started")
  <2>1. Holds(Handle(w)) /\ Handle(w) \in issued /\ attempt.status = "active"
    BY <1>1, <1>3, HolderBegun DEF BeginCredentialInteraction
  <2>2. /\ attempt'.status = attempt.status /\ attempt'.failureClass = attempt.failureClass
        /\ begun' = begun \cup {Handle(w)}
    BY <1>3 DEF BeginCredentialInteraction, SInv, IInv, StoreTypeOK, Attempts
  <2>3. StoreNext
    BY <1>3, <2>1 DEF StoreNext, OwnerStep
  <2> QED
    BY <1>1, <1>3, <2>1, <2>2, <2>3, FenceStep
<1>4. CASE /\ RenewLease(Handle(w)) /\ Authorized(w, "write", "interaction_started")
           /\ worker[w].fills = 1
  <2>1. /\ Holds(Handle(w)) /\ Handle(w) \in issued /\ attempt.status = "active"
        /\ begun \subseteq {Handle(w)}
    BY <1>1, <1>4, HolderBegun DEF RenewLease
  <2>2. worker[w].phase # "leased"
    BY <1>4 DEF SInv, Session, SessionOf
  <2>3. begun = {Handle(w)}
    BY <1>1, <2>1, <2>2, HolderBegun
  <2>4. /\ attempt'.status = attempt.status /\ attempt'.failureClass = attempt.failureClass
        /\ begun' = begun
    BY <1>4 DEF RenewLease, SInv, IInv, StoreTypeOK, Attempts
  <2>5. StoreNext
    BY <1>4, <2>1 DEF StoreNext, OwnerStep
  <2> QED
    BY <1>1, <1>4, <2>1, <2>3, <2>4, <2>5, FenceStep
<1> QED
  BY <1>2, <1>3, <1>4 DEF BeginFence, RenewFence

\* Nobody has pressed submit before the barrier.
LEMMA BarrierFenceStep ==
  ASSUME SInv, NEW w \in Tokens, BarrierFence(w) PROVE SInv'
<1>1. /\ UNCHANGED portal /\ worker[w].pc = "executing" /\ worker[w].pc \in Holding
      /\ worker[w].phase = "interaction_started"
  BY DEF BarrierFence, At, Executing, Holding
<1>2. CASE Refused(w) /\ UNCHANGED storeVars
  BY <1>1, <1>2, RefusedStep
<1>3. CASE /\ RecordSubmitBarrier(Handle(w))
           /\ Authorized(w, "click", "submit_barrier_recorded")
  <2>1. /\ Holds(Handle(w)) /\ Handle(w) \in issued /\ attempt.status = "active"
        /\ begun \subseteq {Handle(w)}
    BY <1>1, <1>3, HolderBegun DEF RecordSubmitBarrier
  <2>2. begun = {Handle(w)}
    BY <1>1, <2>1, HolderBegun
  <2>3. /\ attempt'.status = attempt.status /\ attempt'.failureClass = attempt.failureClass
        /\ begun' = begun /\ Handle(w) \in barred'
    BY <1>3 DEF RecordSubmitBarrier, SInv, IInv, StoreTypeOK, Attempts
  <2>4. barred = {}
    BY <1>3 DEF RecordSubmitBarrier, SInv, IInv, PhaseTellsAll
  <2>5. clicks = 0
    BY <2>4 DEF SInv, PortalInv
  <2>6. StoreNext
    BY <1>3, <2>1 DEF StoreNext, OwnerStep
  <2> QED
    BY <1>1, <1>3, <2>1, <2>2, <2>3, <2>5, <2>6, FenceStep
<1> QED
  BY <1>2, <1>3 DEF BarrierFence

LEMMA HeartbeatStep ==
  ASSUME SInv, NEW w \in Tokens, Heartbeat(w) PROVE SInv'
<1>1. UNCHANGED portal /\ worker[w].pc \in Holding
  BY DEF Heartbeat, Executing, Holding
<1>2. CASE Refused(w) /\ UNCHANGED storeVars
  BY <1>1, <1>2, RefusedStep
<1>3. CASE RenewLease(Handle(w)) /\ UNCHANGED worker
  <2>1. PICK s \in Invocation : s = worker[w]
    BY DEF SInv
  <2>2. worker' = [worker EXCEPT ![w] = s]
    BY <1>3, <2>1 DEF SInv
  <2>3. Holds(Handle(w)) /\ Handle(w) \in issued /\ attempt.status = "active"
        /\ s.answer # "authenticated"
    BY <1>1, <1>3, <2>1, HolderBegun DEF RenewLease
  <2>4. /\ attempt'.status = attempt.status /\ attempt'.failureClass = attempt.failureClass
        /\ begun' = begun /\ issued' = issued /\ barred' = barred /\ clicks' = clicks
    BY <1>1, <1>3 DEF RenewLease, SInv, IInv, StoreTypeOK, Attempts, portal
  <2>5. StoreNext
    BY <1>3, <2>3 DEF StoreNext, OwnerStep
  <2>6. Verdicts'
    BY <2>4 DEF SInv, Verdicts
  <2>7. SessionOf(w, s)'
    BY <2>1, <2>3, <2>4 DEF SInv, Session, SessionOf, HandleOf, Submitted, Terminal
  <2> QED
    BY <1>1, <2>2, <2>3, <2>4, <2>5, <2>6, <2>7, CallStep DEF Terminal
<1> QED
  BY <1>2, <1>3 DEF Heartbeat

-----------------------------------------------------------------------------
(* The page.                                                               *)

LEMMA WriteStep ==
  ASSUME SInv, NEW w \in Tokens, WriteField(w) PROVE SInv'
<1>1. PICK s \in Invocation : s = worker[w]
  BY DEF SInv
<1>2. SessionOf(w, s) /\ s.pc = "write"
  BY <1>1 DEF WriteField, At, SInv, Session
<1>3. s.fills + 1 \in 1..2 /\ s.phase = "interaction_started" /\ HandleOf(w, s) \in begun
  BY <1>2 DEF SessionOf, Invocation, Executing, Holding
<1>0. PICK n \in 0..2 : n = s.fills + 1
  BY <1>3
<1>4. PICK r \in Invocation : r = [s EXCEPT !.pc = "executing", !.fills = n]
  BY DEF Invocation, Calls
<1>5. /\ r.pc = "executing" /\ r.id = s.id /\ r.generation = s.generation
      /\ r.phase = s.phase /\ r.fills = s.fills + 1 /\ r.outcome = s.outcome
      /\ r.answer = s.answer
  BY <1>4, <1>0 DEF Invocation
<1>6. /\ worker' = [worker EXCEPT ![w] = r]
      /\ UNCHANGED storeVars /\ clicks' = clicks /\ written' = written \cup {Handle(w)}
  BY <1>1, <1>4, <1>0 DEF WriteField, SInv
<1>7. SessionOf(w, r)
  BY <1>2, <1>3, <1>5 DEF SessionOf, HandleOf, Submitted, Executing, Holding
<1>8. /\ IInv' /\ Verdicts' /\ worker' \in [Tokens -> Invocation]
      /\ attempt' = attempt /\ issued' = issued /\ begun' = begun /\ barred' = barred
  BY <1>6, StoreStutter DEF SInv, Verdicts, storeVars
<1>9. PortalInv'
  <2>1. Handle(w) = HandleOf(w, s)
    BY <1>1 DEF Handle, HandleOf
  <2> QED
    BY <1>3, <1>6, <1>8, <2>1 DEF SInv, PortalInv
<1>10. ASSUME NEW v \in Tokens PROVE Session(v)'
  <2>1. SessionOf(v, worker'[v])
    <3>1. CASE v = w
      BY <1>6, <1>7, <3>1 DEF SInv
    <3>2. CASE v # w
      BY <1>6, <3>2 DEF SInv, Session
    <3> QED
      BY <3>1, <3>2
  <2> QED
    BY <1>6, <1>8, <2>1 DEF Session, SessionOf, HandleOf, Submitted, Terminal
<1> QED
  BY <1>8, <1>9, <1>10 DEF SInv

\* The one worker past the barrier presses submit once.
LEMMA ClickStep ==
  ASSUME SInv, NEW w \in Tokens, ClickSubmit(w) PROVE SInv'
<1>1. PICK s \in Invocation : s = worker[w]
  BY DEF SInv
<1>2. SessionOf(w, s) /\ s.pc = "click"
  BY <1>1 DEF ClickSubmit, At, SInv, Session
<1>3. /\ s.phase = "submit_barrier_recorded" /\ HandleOf(w, s) \in barred /\ clicks = 0
  BY <1>2 DEF SessionOf
<1>4. PICK r \in Invocation : r = [s EXCEPT !.pc = "executing"]
  BY DEF Invocation, Calls
<1>5. /\ r.pc = "executing" /\ r.id = s.id /\ r.generation = s.generation
      /\ r.phase = s.phase /\ r.fills = s.fills /\ r.outcome = s.outcome
      /\ r.answer = s.answer
  BY <1>4 DEF Invocation
<1>6. /\ worker' = [worker EXCEPT ![w] = r]
      /\ UNCHANGED storeVars /\ clicks' = 1 /\ written' = written
  BY <1>1, <1>3, <1>4 DEF ClickSubmit, GoTo
<1>7. /\ IInv' /\ worker' \in [Tokens -> Invocation]
      /\ attempt' = attempt /\ issued' = issued /\ begun' = begun /\ barred' = barred
  BY <1>6, StoreStutter DEF SInv, storeVars
<1>8. PortalInv' /\ Verdicts'
  BY <1>3, <1>6, <1>7 DEF SInv, PortalInv, Verdicts
<1>9. ASSUME NEW v \in Tokens PROVE Session(v)'
  <2>1. CASE v = w
    <3>1. worker'[v] = r
      BY <1>6, <2>1 DEF SInv
    <3>2. SessionOf(v, r)'
      BY <1>2, <1>3, <1>5, <1>6, <1>7, <2>1
         DEF SessionOf, HandleOf, Submitted, Executing, Holding, Terminal
    <3> QED
      BY <3>1, <3>2 DEF Session, SessionOf, HandleOf
  <2>2. CASE v # w
    <3>1. PICK t \in Invocation : t = worker[v]
      BY DEF SInv
    <3>2. worker'[v] = t /\ SessionOf(v, t) /\ HandleOf(v, t) # HandleOf(w, s)
      BY <1>6, <2>2, <3>1 DEF SInv, Session, HandleOf
    <3>3. HandleOf(v, t) \notin barred
      BY <1>3, <3>2 DEF SInv, IInv, SingleInteraction, BarrierBelongsToWriter
    <3>4. SessionOf(v, t)'
      BY <1>6, <1>7, <3>2, <3>3 DEF SessionOf, HandleOf, Submitted, Terminal
    <3> QED
      BY <3>2, <3>4 DEF Session, SessionOf, HandleOf
  <2> QED
    BY <2>1, <2>2
<1> QED
  BY <1>7, <1>8, <1>9 DEF SInv

\* Only an execution that is not inside a page call can have succeeded.
LEMMA ExecutionStep ==
  ASSUME SInv, NEW w \in Tokens, ExecutionEnds(w) PROVE SInv'
<1>1. PICK s \in Invocation : s = worker[w]
  BY DEF SInv
<1>2. PICK outcome \in Outcomes :
        /\ outcome = "succeeded" => s.pc = "executing"
        /\ worker' = [worker EXCEPT ![w].pc = "decide", ![w].outcome = outcome]
  BY <1>1 DEF ExecutionEnds, At
<1>3. PICK r \in Invocation : r = [s EXCEPT !.pc = "decide", !.outcome = outcome]
  BY DEF Invocation, Calls
<1>4. worker' = [worker EXCEPT ![w] = r]
  BY <1>1, <1>2, <1>3 DEF SInv
<1>5. /\ r.pc = "decide" /\ r.id = s.id /\ r.generation = s.generation
      /\ r.phase = s.phase /\ r.fills = s.fills /\ r.outcome = outcome
      /\ r.answer = s.answer
  BY <1>3 DEF Invocation
<1>6. SessionOf(w, s) /\ s.pc \in Executing
  BY <1>1 DEF ExecutionEnds, SInv, Session, Executing
<1>7. SessionOf(w, r)
  BY <1>2, <1>5, <1>6 DEF SessionOf, HandleOf, Submitted, Executing, Holding
<1>8. UNCHANGED <<storeVars, portal>>
  BY DEF ExecutionEnds
<1> QED
  BY <1>4, <1>7, <1>8, LocalStep

\* The decision: a login that pressed submit, a retry of an untouched attempt,
\* or a failure whose class does not understate the phase.
LEMMA DecideStep ==
  ASSUME SInv, NEW w \in Tokens, Decide(w) PROVE SInv'
<1>1. /\ UNCHANGED portal /\ worker[w].pc = "decide" /\ worker[w].pc \in Holding
      /\ attempt \in Attempts /\ clicks' = clicks
  BY DEF Decide, At, Executing, Holding, SInv, IInv, StoreTypeOK, portal
<1>2. CASE UNCHANGED storeVars /\ Answer(w, "needs_operator_action")
  BY <1>1, <1>2, OtherAnswerStep
<1>3. CASE /\ LoggedIn(w) /\ CompleteAuthenticated(Handle(w))
           /\ Answer(w, "authenticated")
  <2>1. /\ Handle(w) \in issued /\ attempt.attemptId = worker[w].id
        /\ attempt.status = "active" /\ begun \subseteq {HandleOf(w, worker[w])}
    BY <1>1, <1>3, HolderBegun DEF CompleteAuthenticated
  <2>2. attempt' = [Released(attempt) EXCEPT !.status = "authenticated"] /\ begun' = begun
    BY <1>3 DEF CompleteAuthenticated
  <2>3. /\ attempt'.attemptId = attempt.attemptId /\ attempt'.status = "authenticated"
        /\ attempt'.failureClass = attempt.failureClass
    BY <1>1, <2>2, LetGoColumns
  <2>4. clicks = 1
    BY <1>1, <1>3 DEF LoggedIn, SInv, Session, SessionOf, Submitted
  <2>5. attempt.failureClass = "none"
    BY <1>1, <2>1 DEF SInv, Verdicts, Attempts
  <2>6. Verdicts'
    BY <1>1, <2>3, <2>4, <2>5 DEF Verdicts
  <2>7. StoreNext
    BY <1>3, <2>1 DEF StoreNext, OwnerStep
  <2> QED
    BY <1>1, <1>3, <2>1, <2>2, <2>3, <2>6, <2>7, LetGoCall DEF Answers
<1>4. CASE MayRetry(w) /\ ClaimRetry(Handle(w)) /\ Answer(w, "retry_delivery")
  <2>1. Handle(w) \in issued /\ attempt.status = "active"
    BY <1>1, <1>4, HolderBegun DEF ClaimRetry
  <2>2. attempt' = [Released(attempt) EXCEPT !.retryCount = @ + 1] /\ begun' = begun
    BY <1>4 DEF ClaimRetry
  <2>3. attempt'.status = "active" /\ attempt'.failureClass = attempt.failureClass
    BY <1>1, <2>1, <2>2, LetGoColumns
  <2>4. Verdicts' /\ ~Terminal'
    BY <2>1, <2>2, <2>3 DEF SInv, Verdicts, Terminal
  <2>5. StoreNext
    BY <1>4, <2>1 DEF StoreNext, OwnerStep
  <2> QED
    BY <1>1, <1>4, <2>2, <2>4, <2>5, LetGoCall DEF Answers
<1>5. ASSUME NEW class \in FailureClasses,
             \/ MayRetry(w) /\ ExhaustRetry(Handle(w)) /\ class = "transient_pre_interaction"
             \/ CompleteFailed(Handle(w), class) /\ class = FailureOf(w),
             Answer(w, "needs_operator_action")
      PROVE  SInv'
  <2>1. Holds(Handle(w)) /\ attempt' = Failed(attempt, class) /\ begun' = begun
    BY <1>5 DEF ExhaustRetry, CompleteFailed
  <2>2. /\ Handle(w) \in issued /\ begun \subseteq {HandleOf(w, worker[w])}
        /\ worker[w].phase = "leased" => begun = {}
    BY <1>1, <2>1, HolderBegun
  <2>3. attempt'.status = "failed" /\ attempt'.failureClass = class
    BY <1>1, <2>1, LetGoColumns
  <2>4. class \in {"transient_pre_interaction", "unclassified_failure"} => begun = {}
    BY <1>5, <2>2 DEF MayRetry, FailureOf
  <2>5. Verdicts'
    BY <2>1, <2>3, <2>4 DEF Verdicts
  <2>6. StoreNext
    BY <1>5, <2>2 DEF StoreNext, OwnerStep
  <2> QED
    BY <1>1, <1>5, <2>1, <2>2, <2>5, <2>6, LetGoCall DEF Answers
<1>6. FailureOf(w) \in FailureClasses /\ "transient_pre_interaction" \in FailureClasses
  BY DEF FailureOf, FailureClasses
<1> QED
  BY <1>2, <1>3, <1>4, <1>5, <1>6 DEF Decide

-----------------------------------------------------------------------------
(* The whole system.                                                       *)

LEMMA CrashStep ==
  ASSUME SInv, NEW w \in Tokens, Crash(w) PROVE SInv'
BY OtherAnswerStep DEF Crash

\* The clock brings no verdict and no word to anybody.
LEMMA ClockStep ==
  ASSUME SInv, Clock PROVE SInv'
<1>1. /\ worker' = worker /\ written' = written /\ clicks' = clicks
      /\ issued' = issued /\ begun' = begun /\ barred' = barred
      /\ attempt'.status = attempt.status /\ attempt'.attemptId = attempt.attemptId
      /\ attempt'.failureClass = attempt.failureClass
  BY DEF Clock, Tick, portal, SInv, IInv, StoreTypeOK, Attempts
<1>2. IInv'
  BY NextPreserves DEF Clock, SInv, StoreNext
<1>3. PortalInv' /\ Verdicts'
  BY <1>1 DEF SInv, PortalInv, Verdicts
<1>4. ASSUME NEW v \in Tokens PROVE Session(v)'
  BY <1>1 DEF SInv, Session, SessionOf, HandleOf, Submitted, Terminal
<1> QED
  BY <1>1, <1>2, <1>3, <1>4 DEF SInv

LEMMA StutterStep ==
  ASSUME SInv, UNCHANGED vars PROVE SInv'
<1>1. UNCHANGED storeVars /\ UNCHANGED <<worker, written, clicks>>
  BY DEF vars, storeVars
<1>2. IInv'
  BY <1>1, StoreStutter DEF SInv
<1>3. PortalInv' /\ Verdicts'
  BY <1>1 DEF SInv, PortalInv, Verdicts, storeVars
<1>4. ASSUME NEW v \in Tokens PROVE Session(v)'
  BY <1>1 DEF SInv, Session, SessionOf, HandleOf, Submitted, Terminal, storeVars
<1> QED
  BY <1>1, <1>2, <1>3, <1>4 DEF SInv

LEMMA ProgressKeeps ==
  ASSUME SInv, NEW w \in Tokens, Progress(w) PROVE SInv'
BY FindStep, ProbeStep, GetOrCreateStep, AcquireCall, DiagnoseStep, ReconcileStep,
   ReconcileOverStep, CompleteStep, FieldFences, BarrierFenceStep, WriteStep, ClickStep,
   ExecutionStep, DecideStep
   DEF Progress

LEMMA SessionKeeps == SInv /\ [Next]_vars => SInv'
<1> SUFFICES ASSUME SInv, [Next]_vars PROVE SInv'
  OBVIOUS
<1>1. ASSUME NEW w \in Tokens, Deliver(w) \/ Progress(w) \/ Heartbeat(w) \/ Crash(w)
      PROVE  SInv'
  BY <1>1, DeliverStep, ProgressKeeps, HeartbeatStep, CrashStep
<1> QED
  BY <1>1, ClockStep, StutterStep DEF Next

LEMMA SessionInvariance == Spec => []SInv
<1> QED
  BY InitSession, SessionKeeps, PTL DEF Spec

-----------------------------------------------------------------------------
(* What it comes to.                                                       *)

\* Every worker's record, the histories and the crash count stay in their types.
THEOREM SessionTypes == Spec => []TypeOK
<1> DEFINE C == crashes \in 0..MaxCrashes
<1>1. Init => C
  BY CrashAssumption DEF Init
<1>2. C /\ [Next]_vars => C'
  <2> SUFFICES ASSUME C, [Next]_vars PROVE C'
    OBVIOUS
  <2>1. crashes' = crashes \/ (crashes < MaxCrashes /\ crashes' = crashes + 1)
    <3>1. ASSUME NEW w \in Tokens, Progress(w) PROVE crashes' = crashes
      BY <3>1
         DEF Progress, FindExact, Probe, GetOrCreate, Acquire, Diagnose, Reconcile,
             ReconcileOver, FindTerminalOrRetry, CompleteObserved, AuthFind, AuthProbe,
             BeginFence, RenewFence, BarrierFence, WriteField, ClickSubmit, ExecutionEnds,
             Decide
    <3> QED
      BY <3>1 DEF Next, vars, Clock, Crash, Deliver, Heartbeat
  <2> QED
    BY <2>1, CrashAssumption
<1>3. SInv /\ C => TypeOK
  BY DEF SInv, IInv, StoreTypeOK, PortalInv, TypeOK
<1> QED
  BY <1>1, <1>2, <1>3, SessionInvariance, PTL DEF Spec

\* Whatever leases expire and whoever is still mid-call, the portal sees the
\* fields of one invocation and one press of submit: the fences of the mutation
\* authority hold for any number of concurrent deliveries.
THEOREM PortalSafe == Spec => []PortalSeesOneLogin
<1>1. SInv => PortalSeesOneLogin
  BY DEF SInv, PortalInv, IInv, SingleInteraction, PortalSeesOneLogin
<1> QED
  BY <1>1, SessionInvariance, PTL

\* A recorded verdict that says nothing was tried is true: no field was filled.
THEOREM UntouchedVerdictsHold == Spec => []UntouchedVerdicts
<1>1. SInv => UntouchedVerdicts
  BY DEF SInv, PortalInv, Verdicts, UntouchedVerdicts
<1> QED
  BY <1>1, SessionInvariance, PTL

\* A login that filled the form and is recorded as authenticated has pressed
\* submit exactly once.
THEOREM AuthenticationsSubmitted == Spec => []AuthenticatedMeansSubmitted
<1>1. SInv => AuthenticatedMeansSubmitted
  BY DEF SInv, PortalInv, Verdicts, AuthenticatedMeansSubmitted
<1> QED
  BY <1>1, SessionInvariance, PTL

\* A scrape is told "authenticated" only about an attempt that says so for good.
THEOREM AuthenticationsLast == Spec => []AuthenticatedIsDurable
<1>1. SInv => AuthenticatedIsDurable
  BY DEF SInv, Session, SessionOf, AuthenticatedIsDurable
<1> QED
  BY <1>1, SessionInvariance, PTL

\* Only the page calls change the portal.
LEMMA PageCalls ==
  ASSUME [Next]_vars, portal' # portal
  PROVE  \E w \in Tokens : WriteField(w) \/ ClickSubmit(w)
BY DEF Next, vars, portal, Clock, Crash, Deliver, Heartbeat, Progress, FindExact, Probe,
       GetOrCreate, Acquire, Diagnose, Reconcile, ReconcileOver, FindTerminalOrRetry,
       CompleteObserved, AuthFind, AuthProbe, BeginFence, RenewFence, BarrierFence,
       ExecutionEnds, Decide

\* A page call that lands after the verdict lands on a verdict that asks an
\* operator to look.
THEOREM LateMutationsReviewed == Spec => LateMutationIsReviewed
<1>1. SInv /\ [Next]_vars =>
        [portal' # portal /\ Terminal
           => attempt.failureClass = "interaction_outcome_uncertain"]_vars
  <2> SUFFICES ASSUME SInv, [Next]_vars, portal' # portal, Terminal
               PROVE  attempt.failureClass = "interaction_outcome_uncertain"
    OBVIOUS
  <2>1. PICK w \in Tokens : WriteField(w) \/ ClickSubmit(w)
    BY PageCalls
  <2>2. worker[w].pc \in {"write", "click"} /\ Session(w)
    BY <2>1 DEF WriteField, ClickSubmit, At, SInv
  <2> QED
    BY <2>2 DEF Session, SessionOf, Executing
<1> QED
  BY <1>1, SessionInvariance, PTL DEF Spec, LateMutationIsReviewed

\* The coordinator, the mint and the runner touch the row by the repository's
\* statements alone, so all that AttemptStoreProofs proves of the row, OneLogin
\* included, holds of it here.
THEOREM SessionImplementsStore == Spec => StoreSpec
<1>1. Init => StoreInit
  BY DEF Init
<1>2. SInv /\ [Next]_vars => [StoreNext]_storeVars
  <2> SUFFICES ASSUME SInv, [Next]_vars PROVE [StoreNext]_storeVars
    OBVIOUS
  <2>1. ASSUME NEW w \in Tokens, Progress(w) \/ Heartbeat(w) PROVE [StoreNext]_storeVars
    <3>1. worker[w].id \in AttemptIds
      BY DEF SInv, Invocation
    <3>2. worker[w].pc \in Holding => Handle(w) \in issued
      BY DEF SInv, Session, SessionOf, Handle, HandleOf
    <3>3. CASE \/ GetOrCreate(w) \/ Acquire(w) \/ Reconcile(w) \/ ReconcileOver(w)
      BY <3>1, <3>3 DEF GetOrCreate, Acquire, Reconcile, ReconcileOver, StoreNext
    <3>4. CASE \/ CompleteObserved(w) \/ BeginFence(w) \/ RenewFence(w)
               \/ BarrierFence(w) \/ Heartbeat(w)
      <4>1. worker[w].pc \in Holding
        BY <3>4 DEF CompleteObserved, BeginFence, RenewFence, BarrierFence, Heartbeat, At,
                    Executing, Holding
      <4> QED
        BY <3>2, <3>4, <4>1 DEF CompleteObserved, BeginFence, RenewFence, BarrierFence,
                                Heartbeat, StoreNext, OwnerStep
    <3>5. CASE Decide(w)
      <4>1. worker[w].pc \in Holding
        BY <3>5 DEF Decide, At, Executing, Holding
      <4>2. FailureOf(w) \in FailureClasses
        BY DEF FailureOf, FailureClasses
      <4> QED
        BY <3>2, <3>5, <4>1, <4>2 DEF Decide, StoreNext, OwnerStep
    <3> QED
      BY <2>1, <3>3, <3>4, <3>5
         DEF Progress, FindExact, Probe, Diagnose, FindTerminalOrRetry, AuthFind, AuthProbe,
             WriteField, ClickSubmit, ExecutionEnds
  <2> QED
    BY <2>1 DEF Next, Deliver, Crash, Clock, StoreNext, vars, storeVars
<1> QED
  BY <1>1, <1>2, SessionInvariance, PTL DEF Spec, StoreSpec

-----------------------------------------------------------------------------
(* The implementation of AttemptPolicy.                                    *)

\* A failed row says why; with Verdicts and OwnerShape, every row can be parsed.
SaysWhy == attempt.status = "failed" => attempt.failureClass # "none"

LEMMA RowSaysWhy == StoreSpec => []SaysWhy
<1>1. StoreInit => SaysWhy
  BY DEF StoreInit, SaysWhy
<1>2. IInv /\ SaysWhy /\ [StoreNext]_storeVars => SaysWhy'
  <2> SUFFICES ASSUME IInv, SaysWhy, [StoreNext]_storeVars PROVE SaysWhy'
    OBVIOUS
  <2>t. attempt \in Attempts /\ "none" \notin FailureClasses
    BY DEF IInv, StoreTypeOK, FailureClasses
  <2>1. ASSUME NEW class \in FailureClasses, attempt' = Failed(attempt, class) PROVE SaysWhy'
    BY <2>1, <2>t, LetGoColumns DEF SaysWhy
  <2>2. ASSUME NEW id \in AttemptIds,
               \/ Create(id) \/ ReconcileRetry(id) \/ ReconcileTerminal(id)
               \/ \E token \in Tokens : AcquireLease(id, token)
        PROVE  SaysWhy'
    <3>1. CASE Create(id) \/ \E token \in Tokens : AcquireLease(id, token)
      BY <3>1, <2>t DEF Create, AcquireLease, Attempts, SaysWhy
    <3>2. CASE ReconcileRetry(id)
      BY <3>2, <2>t, LetGoColumns DEF ReconcileRetry, SaysWhy
    <3>3. CASE ReconcileTerminal(id)
      <4>1. \E class \in FailureClasses : attempt' = Failed(attempt, class)
        BY <3>3 DEF ReconcileTerminal, FailureClasses
      <4> QED
        BY <2>1, <4>1
    <3> QED
      BY <2>2, <3>1, <3>2, <3>3
  <2>3. ASSUME NEW h \in issued, OwnerStep(h) PROVE SaysWhy'
    <3>1. CASE RenewLease(h) \/ BeginCredentialInteraction(h) \/ RecordSubmitBarrier(h)
      BY <3>1, <2>t DEF RenewLease, BeginCredentialInteraction, RecordSubmitBarrier, Attempts,
         SaysWhy
    <3>2. CASE ClaimRetry(h)
      BY <3>2, <2>t, LetGoColumns DEF ClaimRetry, SaysWhy
    <3>3. CASE ExhaustRetry(h) \/ \E class \in FailureClasses : CompleteFailed(h, class)
      <4>1. \E class \in FailureClasses : attempt' = Failed(attempt, class)
        BY <3>3 DEF ExhaustRetry, CompleteFailed, FailureClasses
      <4> QED
        BY <2>1, <4>1
    <3>4. CASE CompleteAuthenticated(h)
      BY <3>4, <2>t DEF CompleteAuthenticated, Released, Attempts, SaysWhy
    <3> QED
      BY <2>3, <3>1, <3>2, <3>3, <3>4 DEF OwnerStep
  <2>4. CASE Tick \/ UNCHANGED storeVars
    BY <2>4, <2>t DEF Tick, storeVars, Attempts, SaysWhy
  <2> QED
    BY <2>2, <2>3, <2>4 DEF StoreNext
<1> QED
  BY <1>1, <1>2, Invariance, PTL DEF StoreSpec

\* What the policy sees of a row that can be parsed.
LEMMA ParsedRow ==
  SInv /\ SaysWhy => Parsed = [status |-> attempt.status, phase |-> attempt.phase,
                              failureClass |-> attempt.failureClass]
<1> SUFFICES ASSUME SInv, SaysWhy
             PROVE  Parsed = [status |-> attempt.status, phase |-> attempt.phase,
                              failureClass |-> attempt.failureClass]
  OBVIOUS
<1>1. attempt.retryCount <= MaxRetries
  BY StoreAssumption DEF SInv, IInv, StoreTypeOK, Attempts
<1>2. Terminal => attempt.owner = NoOwner
  BY DEF Terminal, SInv, IInv, OwnerShape
<1>3. attempt.status = "failed" <=> attempt.failureClass # "none"
  BY DEF SaysWhy, SInv, Verdicts
<1> QED
  BY <1>1, <1>2, <1>3 DEF Parsed

LEMMA ParsedNext ==
  SInv' /\ SaysWhy' => Parsed' = [status |-> attempt'.status, phase |-> attempt'.phase,
                                 failureClass |-> attempt'.failureClass]
<1> SUFFICES ASSUME SInv', SaysWhy'
             PROVE  Parsed' = [status |-> attempt'.status, phase |-> attempt'.phase,
                               failureClass |-> attempt'.failureClass]
  OBVIOUS
<1>1. attempt'.retryCount <= MaxRetries
  BY StoreAssumption DEF SInv, IInv, StoreTypeOK, Attempts
<1>2. Terminal' => attempt'.owner = NoOwner
  BY DEF Terminal, SInv, IInv, OwnerShape
<1>3. attempt'.status = "failed" <=> attempt'.failureClass # "none"
  BY DEF SaysWhy, SInv, Verdicts
<1> QED
  BY <1>1, <1>2, <1>3 DEF Parsed

\* What the policy sees of one update of the row.
Views == [status : {"missing", "active", "authenticated", "failed"}, phase : Phases,
          failureClass : FailureClasses \cup {"none"}]

LEMMA ViewUpdates ==
  ASSUME NEW v \in Views
  PROVE  /\ [v EXCEPT !.status = "authenticated"]
              = [status |-> "authenticated", phase |-> v.phase,
                 failureClass |-> v.failureClass]
         /\ \A p \in Phases :
              [v EXCEPT !.phase = p]
                = [status |-> v.status, phase |-> p, failureClass |-> v.failureClass]
BY DEF Views

\* Both rows of a step, as the policy sees them.
LEMMA ViewStep ==
  ASSUME SInv, SaysWhy, SInv', SaysWhy'
  PROVE  /\ Parsed \in Views
         /\ Parsed.status = attempt.status /\ Parsed.phase = attempt.phase
         /\ Parsed.failureClass = attempt.failureClass
         /\ Parsed' = [status |-> attempt'.status, phase |-> attempt'.phase,
                       failureClass |-> attempt'.failureClass]
<1>1. Parsed = [status |-> attempt.status, phase |-> attempt.phase,
                failureClass |-> attempt.failureClass]
  BY ParsedRow
<1>2. attempt \in Attempts
  BY DEF SInv, IInv, StoreTypeOK
<1> QED
  BY <1>1, <1>2, ParsedNext DEF Attempts, Views

\* A verdict the policy gives for some cause.
LEMMA FailStep ==
  ASSUME SInv, SaysWhy, SInv', SaysWhy', NEW cause \in Policy!Causes,
         attempt.status = "active", ~Policy!RetryAutomatically(cause),
         attempt' = Failed(attempt, Policy!FailureClass(attempt.phase, cause))
  PROVE  Policy!PolicyNext
<1> DEFINE class == Policy!FailureClass(attempt.phase, cause)
<1>1. class \in FailureClasses
  BY DEF Policy!FailureClass, FailureClasses
<1>2. attempt \in Attempts
  BY DEF SInv, IInv, StoreTypeOK
<1>3. /\ attempt'.status = "failed" /\ attempt'.phase = attempt.phase
      /\ attempt'.failureClass = class /\ attempt'.retryCount = attempt.retryCount
  <2> HIDE DEF class
  <2> QED
    BY <1>1, <1>2 DEF Failed, Released, Attempts, class
<1>4. class = Policy!FailureClass(Parsed.phase, cause)
  BY ViewStep
<1> HIDE DEF class
<1>5. Parsed' = [status |-> "failed", phase |-> Parsed.phase, failureClass |-> class]
  BY <1>1, <1>3, ViewStep
<1>6. Policy!Fail(cause)
  BY <1>3, <1>4, <1>5, ViewStep DEF Policy!Fail, Policy!Active
<1> QED
  BY <1>6 DEF Policy!PolicyNext
\* A retry uses up a slot; the policy sees nothing else of it.
LEMMA RetryStep ==
  ASSUME SInv, SaysWhy, SInv', SaysWhy', attempt.status = "active", Untouched,
         attempt.retryCount < MaxRetries,
         attempt' = [Released(attempt) EXCEPT !.retryCount = @ + 1]
  PROVE  Policy!PolicyNext
<1>1. attempt \in Attempts
  BY DEF SInv, IInv, StoreTypeOK
<1>2. /\ attempt'.status = attempt.status /\ attempt'.phase = attempt.phase
      /\ attempt'.failureClass = attempt.failureClass
      /\ attempt'.retryCount = attempt.retryCount + 1
  BY <1>1 DEF Released, Attempts
<1>3. Parsed' = Parsed
  BY <1>2, ParsedRow, ParsedNext
<1>4. Policy!RetryAutomatically("transient_infrastructure")
  BY ViewStep DEF Untouched, Policy!RetryAutomatically, Policy!FailureClass
<1>5. Policy!Fail("transient_infrastructure")
  BY <1>2, <1>3, <1>4, ViewStep DEF Policy!Fail, Policy!Active
<1> QED
  BY <1>5 DEF Policy!PolicyNext, Policy!Causes

\* The last slot is gone, or the form was touched: the transient failure is final.
LEMMA LastTransientStep ==
  ASSUME SInv, SaysWhy, SInv', SaysWhy', attempt.status = "active",
         Untouched => attempt.retryCount = MaxRetries,
         attempt' = Failed(attempt, IF Untouched THEN "transient_pre_interaction"
                                                 ELSE "interaction_outcome_uncertain")
  PROVE  Policy!PolicyNext
<1>1. "transient_infrastructure" \in Policy!Causes
  BY DEF Policy!Causes
<1>2. ~Policy!RetryAutomatically("transient_infrastructure")
  BY ViewStep, StoreAssumption DEF Untouched, Policy!RetryAutomatically
<1>3. Policy!FailureClass(attempt.phase, "transient_infrastructure")
        = IF Untouched THEN "transient_pre_interaction" ELSE "interaction_outcome_uncertain"
  BY DEF Policy!FailureClass, Untouched
<1> QED
  BY <1>1, <1>2, <1>3, FailStep

\* The runner's verdict on an execution that did not log in.
LEMMA VerdictIsAllowed ==
  ASSUME SInv, SaysWhy, SInv', SaysWhy', NEW w \in Tokens, At(w, "decide"),
         ~MayRetry(w), CompleteFailed(Handle(w), FailureOf(w))
  PROVE  Policy!PolicyNext
<1>1. worker[w].pc \in Holding /\ Holds(Handle(w))
  BY DEF At, Executing, Holding, CompleteFailed
<1>2. attempt.status = "active" /\ (worker[w].phase = "leased" <=> begun = {})
  BY <1>1, HolderBegun
<1>3. begun # {} => ~Untouched
  BY DEF SInv, IInv, PhaseTellsAll
<1>4. attempt' = Failed(attempt, FailureOf(w))
  BY DEF CompleteFailed
<1>5. \A cause \in Policy!Causes \ {"transient_infrastructure"} :
        ~Policy!RetryAutomatically(cause)
  BY DEF Policy!Causes, Policy!RetryAutomatically, Policy!FailureClass
<1>6. CASE FailureOf(w) = "interaction_outcome_uncertain"
  <2>1. ~Untouched
    BY <1>2, <1>3, <1>6 DEF FailureOf
  <2> QED
    BY <1>2, <1>4, <1>6, <2>1, LastTransientStep
<1>7. CASE FailureOf(w) # "interaction_outcome_uncertain"
  <2>1. PICK cause \in Policy!Causes \ {"transient_infrastructure"} :
          FailureOf(w) = Policy!FailureClass(attempt.phase, cause)
    <3>1. FailureOf(w) \in {"protected_or_mfa", "incompatible_flow",
                            "structural_configuration", "unclassified_failure"}
      BY <1>7 DEF FailureOf
    <3> QED
      BY <3>1 DEF Policy!Causes, Policy!FailureClass
  <2> QED
    BY <1>2, <1>4, <1>5, <2>1, FailStep
<1> QED
  BY <1>6, <1>7
\* What a step of the system may do to the row.
Lets(id) ==
  \/ Create(id) \/ ReconcileRetry(id) \/ ReconcileTerminal(id)
  \/ \E token \in Tokens : AcquireLease(id, token)

Works(w) ==
  \/ RenewLease(Handle(w)) \/ BeginCredentialInteraction(Handle(w))
  \/ RecordSubmitBarrier(Handle(w)) \/ ClaimRetry(Handle(w)) \/ ExhaustRetry(Handle(w))
  \/ CompleteAuthenticated(Handle(w))
  \/ At(w, "decide") /\ ~MayRetry(w) /\ CompleteFailed(Handle(w), FailureOf(w))

LEMMA RowMoves ==
  ASSUME SInv, [Next]_vars
  PROVE  \/ UNCHANGED storeVars \/ Tick
         \/ \E id \in AttemptIds : Lets(id)
         \/ \E w \in Tokens : Works(w)
<1>1. ASSUME NEW w \in Tokens, Progress(w) \/ Heartbeat(w)
      PROVE  UNCHANGED storeVars \/ (\E id \in AttemptIds : Lets(id)) \/ Works(w)
  <2>1. worker[w].id \in AttemptIds
    BY DEF SInv, Invocation
  <2>2. CASE \/ GetOrCreate(w) \/ Acquire(w) \/ Reconcile(w) \/ ReconcileOver(w)
    BY <2>1, <2>2 DEF GetOrCreate, Acquire, Reconcile, ReconcileOver, Lets
  <2>3. CASE \/ CompleteObserved(w) \/ BeginFence(w) \/ RenewFence(w)
             \/ BarrierFence(w) \/ Heartbeat(w) \/ Decide(w)
    BY <2>3 DEF CompleteObserved, BeginFence, RenewFence, BarrierFence, Heartbeat, Decide, Works
  <2>4. CASE \/ FindExact(w) \/ Probe(w) \/ Diagnose(w) \/ FindTerminalOrRetry(w)
             \/ AuthFind(w) \/ AuthProbe(w) \/ WriteField(w) \/ ClickSubmit(w)
             \/ ExecutionEnds(w)
    BY <2>4 DEF FindExact, Probe, Diagnose, FindTerminalOrRetry, AuthFind, AuthProbe,
                WriteField, ClickSubmit, ExecutionEnds
  <2> QED
    BY <1>1, <2>2, <2>3, <2>4 DEF Progress
<1>2. CASE \/ Clock \/ UNCHANGED vars \/ \E w \in Tokens : Deliver(w) \/ Crash(w)
  BY <1>2 DEF Clock, vars, storeVars, Deliver, Crash
<1> QED
  BY <1>1, <1>2 DEF Next

\* One step of the system is one step of the policy, or the policy sees nothing.
LEMMA PolicyStep ==
  ASSUME SInv, SaysWhy, SInv', SaysWhy', [Next]_vars
  PROVE  [Policy!PolicyNext]_(Policy!policyVars)
<1> USE DEF Policy!policyVars
<1>1. attempt \in Attempts
  BY DEF SInv, IInv, StoreTypeOK
<1>2. ASSUME /\ attempt'.status = attempt.status /\ attempt'.phase = attempt.phase
             /\ attempt'.failureClass = attempt.failureClass
             /\ attempt'.retryCount = attempt.retryCount
      PROVE  [Policy!PolicyNext]_(Policy!policyVars)
  BY <1>2, ParsedRow, ParsedNext
<1>3. CASE UNCHANGED storeVars \/ Tick
  BY <1>1, <1>2, <1>3 DEF storeVars, Tick, Attempts
<1>4. ASSUME NEW id \in AttemptIds, Lets(id) PROVE [Policy!PolicyNext]_(Policy!policyVars)
  <2>1. CASE Create(id)
    <3>1. /\ attempt.status = "missing" /\ attempt'.status = "active"
          /\ attempt'.phase = attempt.phase
          /\ attempt'.failureClass = attempt.failureClass
          /\ attempt'.retryCount = attempt.retryCount
      BY <1>1, <2>1 DEF Create, Attempts
    <3>2. attempt.phase = "no_credential_interaction" /\ attempt.failureClass = "none"
      BY <1>1, <3>1 DEF SInv, IInv, PhaseTellsAll, Untouched, Verdicts, Attempts
    <3>3. Policy!Create
      BY <3>1, <3>2, ViewStep DEF Policy!Create
    <3> QED
      BY <3>3 DEF Policy!PolicyNext
  <2>2. CASE \E token \in Tokens : AcquireLease(id, token)
    BY <1>1, <1>2, <2>2 DEF AcquireLease, Attempts
  <2>3. CASE ReconcileRetry(id)
    BY <2>3, RetryStep DEF ReconcileRetry, Expired
  <2>4. CASE ReconcileTerminal(id)
    BY <2>4, LastTransientStep DEF ReconcileTerminal, Expired
  <2> QED
    BY <1>4, <2>1, <2>2, <2>3, <2>4 DEF Lets
<1>5. ASSUME NEW w \in Tokens, Works(w) PROVE [Policy!PolicyNext]_(Policy!policyVars)
  <2> DEFINE h == Handle(w)
  <2>1. CASE RenewLease(h)
    BY <1>1, <1>2, <2>1 DEF RenewLease, Attempts
  <2>2. CASE BeginCredentialInteraction(h) \/ RecordSubmitBarrier(h)
    <3>1. /\ attempt.status = "active" /\ attempt'.status = attempt.status
          /\ attempt'.failureClass = attempt.failureClass
          /\ attempt'.retryCount = attempt.retryCount
          /\ attempt'.phase \in Phases
          /\ \/ /\ attempt.phase = "no_credential_interaction"
                /\ attempt'.phase = "credentials_may_have_reached_portal"
             \/ /\ attempt.phase = "credentials_may_have_reached_portal"
                /\ attempt'.phase = "submit_may_have_been_dispatched"
      BY <1>1, <2>2 DEF BeginCredentialInteraction, RecordSubmitBarrier, Holds, Untouched,
                        Attempts, Phases
    <3>2. Parsed' = [Parsed EXCEPT !.phase = attempt'.phase]
      <4>1. Parsed' = [status |-> Parsed.status, phase |-> attempt'.phase,
                       failureClass |-> Parsed.failureClass]
        BY <3>1, ViewStep
      <4> QED
        BY <3>1, <4>1, ViewStep, ViewUpdates
    <3>3. Policy!BeginCredentialInteraction \/ Policy!RecordSubmitBarrier
      BY <3>1, <3>2, ViewStep DEF Policy!BeginCredentialInteraction,
         Policy!RecordSubmitBarrier, Policy!Active
    <3> QED
      BY <3>3 DEF Policy!PolicyNext
  <2>3. CASE ClaimRetry(h)
    BY <2>3, RetryStep DEF ClaimRetry, Holds
  <2>4. CASE ExhaustRetry(h)
    BY <2>4, LastTransientStep DEF ExhaustRetry, Holds
  <2>5. CASE CompleteAuthenticated(h)
    <3>1. /\ attempt.status = "active" /\ attempt'.status = "authenticated"
          /\ attempt'.phase = attempt.phase
          /\ attempt'.failureClass = attempt.failureClass
          /\ attempt'.retryCount = attempt.retryCount
      BY <1>1, <2>5 DEF CompleteAuthenticated, Holds, Released, Attempts
    <3>2. Parsed' = [Parsed EXCEPT !.status = "authenticated"]
      <4>1. Parsed' = [status |-> "authenticated", phase |-> Parsed.phase,
                       failureClass |-> Parsed.failureClass]
        BY <3>1, ViewStep
      <4> QED
        BY <4>1, ViewStep, ViewUpdates
    <3>3. Policy!ConfirmAuthenticated
      BY <3>1, <3>2, ViewStep DEF Policy!ConfirmAuthenticated, Policy!Active
    <3> QED
      BY <3>3 DEF Policy!PolicyNext
  <2>6. CASE At(w, "decide") /\ ~MayRetry(w) /\ CompleteFailed(h, FailureOf(w))
    BY <2>6, VerdictIsAllowed
  <2> QED
    BY <1>5, <2>1, <2>2, <2>3, <2>4, <2>5, <2>6 DEF Works
<1> QED
  BY <1>3, <1>4, <1>5, RowMoves

\* Whoever holds, loses, reconciles or completes the attempt, its row can be
\* read and goes through what session-authentication-attempt.ts allows one
\* attempt: the class of a failure fits how far the login got, and no failure
\* that may be retried is the last word while a slot is left.
THEOREM PolicyIsKept == Spec => ImplementsPolicy
<1>1. Init /\ SInv /\ SaysWhy => Policy!PolicyInit
  <2> SUFFICES ASSUME Init, SInv, SaysWhy PROVE Policy!PolicyInit
    OBVIOUS
  <2>1. /\ attempt.status = "missing" /\ attempt.phase = "no_credential_interaction"
        /\ attempt.failureClass = "none" /\ attempt.retryCount = 0
    BY DEF Init, StoreInit
  <2> QED
    BY <2>1, ParsedRow DEF Policy!PolicyInit
<1>2. SInv /\ SaysWhy /\ SInv' /\ SaysWhy' /\ [Next]_vars
        => [Policy!PolicyNext]_(Policy!policyVars)
  BY PolicyStep
<1>3. Spec => []SaysWhy
  BY SessionImplementsStore, RowSaysWhy, PTL
<1> QED
  BY <1>1, <1>2, <1>3, SessionInvariance, PTL DEF Spec, ImplementsPolicy, Policy!PolicySpec
=============================================================================
