---------------------------- MODULE AttemptPolicy ----------------------------
(***************************************************************************)
(* What an authentication attempt may go through, as                       *)
(* src/modules/bank-sessions/session-authentication-attempt.ts says it:    *)
(* pure functions over one attempt, with no rows, leases or callers.  No   *)
(* production code calls them; the repository and the runner are meant to  *)
(* keep to them.                                                           *)
(***************************************************************************)
EXTENDS Naturals

CONSTANT MaxAdditionalRetries    \* MAX_SESSION_AUTHENTICATION_RETRIES

VARIABLES attempt,    \* [status, phase, failureClass]; "missing" until it is created
          retries     \* retriesConsumed

policyVars == <<attempt, retries>>

Causes == {"transient_infrastructure", "protected_or_mfa_detected",
           "incompatible_flow_detected", "structural_configuration_error",
           "ownership_lost", "unknown_failure"}

Active == attempt.status = "active"

\* classifySessionAuthenticationFailure; the operator's reason follows from the class.
FailureClass(phase, cause) ==
  CASE cause = "transient_infrastructure" ->
         IF phase = "no_credential_interaction" THEN "transient_pre_interaction"
                                                ELSE "interaction_outcome_uncertain"
    [] cause = "protected_or_mfa_detected" -> "protected_or_mfa"
    [] cause = "incompatible_flow_detected" -> "incompatible_flow"
    [] cause = "structural_configuration_error" -> "structural_configuration"
    [] cause = "ownership_lost" -> "ownership_lost"
    [] OTHER -> "unclassified_failure"

\* deriveSessionAuthenticationRetryDisposition of the attempt, failed for that cause.
RetryAutomatically(cause) ==
  /\ attempt.phase = "no_credential_interaction"
  /\ FailureClass(attempt.phase, cause) = "transient_pre_interaction"
  /\ retries < MaxAdditionalRetries

-----------------------------------------------------------------------------
Create ==
  /\ attempt.status = "missing"
  /\ attempt' = [status |-> "active", phase |-> "no_credential_interaction",
                 failureClass |-> "none"]
  /\ UNCHANGED retries

BeginCredentialInteraction ==
  /\ Active /\ attempt.phase = "no_credential_interaction"
  /\ attempt' = [attempt EXCEPT !.phase = "credentials_may_have_reached_portal"]
  /\ UNCHANGED retries

RecordSubmitBarrier ==
  /\ Active /\ attempt.phase = "credentials_may_have_reached_portal"
  /\ attempt' = [attempt EXCEPT !.phase = "submit_may_have_been_dispatched"]
  /\ UNCHANGED retries

ConfirmAuthenticated ==
  /\ Active
  /\ attempt' = [attempt EXCEPT !.status = "authenticated"]
  /\ UNCHANGED retries

\* A failure that may be tried again costs a slot; any other is the last word.
Fail(cause) ==
  /\ Active
  /\ IF RetryAutomatically(cause)
     THEN retries' = retries + 1 /\ UNCHANGED attempt
     ELSE /\ attempt' = [status |-> "failed", phase |-> attempt.phase,
                         failureClass |-> FailureClass(attempt.phase, cause)]
          /\ UNCHANGED retries

PolicyInit ==
  /\ attempt = [status |-> "missing", phase |-> "no_credential_interaction",
                failureClass |-> "none"]
  /\ retries = 0

PolicyNext ==
  \/ Create \/ BeginCredentialInteraction \/ RecordSubmitBarrier \/ ConfirmAuthenticated
  \/ \E cause \in Causes : Fail(cause)

PolicySpec == PolicyInit /\ [][PolicyNext]_policyVars
=============================================================================
