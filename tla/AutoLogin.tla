----------------------------- MODULE AutoLogin -----------------------------
(***************************************************************************)
(* Runs of the auto-login for one expired event of one bank                *)
(* (src/worker/scraper/auto-login.ts): each resolves its configuration,    *)
(* takes the lock of the event, opens a page of its own on the trusted     *)
(* login URL, and lets the strategy write the credentials, with a guard    *)
(* (login-mutation-guard.ts) before every one of its three mutations.      *)
(*                                                                         *)
(* The portal moves at any time: it covers the page (an MFA prompt, an     *)
(* incompatible flow), uncovers it, navigates.  A guard is three steps,    *)
(* the required controls, the detection window and the URL, so the portal  *)
(* moves inside it.  Page calls, the cleanup and the lock's commands may   *)
(* fail before or after they took effect.                                  *)
(***************************************************************************)
EXTENDS AutoLoginLock

CONSTANTS Runs,        \* runs of the auto-login, in any process
          MaxStarts,   \* bound: runs that ask for the lock
          MaxMoves,    \* bound: moves of the portal
          MaxFaults    \* bound: calls that fail, processes that stop

ASSUME AutoLoginAssumption == MaxStarts \in Nat /\ MaxMoves \in Nat /\ MaxFaults \in Nat

VARIABLES run,         \* per run, where it is
          page,        \* per run, its page in the bank's browser
          failures,    \* failures handed to the circuit breaker
          starts, moves, faults

counts == <<starts, moves, faults>>

vars == <<lockVars, run, page, failures, counts>>

Mutations == <<"username", "password", "submit">>

PCs == {"idle", "acquire", "browser", "controls", "window", "url", "mutate",
        "postWindow", "postUrl", "finalWindow", "scrubPassword", "scrubUsername",
        "close", "release", "record"}

Outcomes == {"none", "succeeded", "unknown_post_submit_state", "needs_admin_action",
             "manual_required", "skipped", "throttled"}

RunStates ==
  [pc      : PCs,
   step    : 1..3,          \* the mutation its guard stands before
   seen    : BOOLEAN,       \* the detection window has met a cover
   lease   : Nat,           \* acquired.leaseToken
   outcome : Outcomes]

Places == {"login", "dashboard", "elsewhere"}

Pages ==
  [open      : BOOLEAN,
   at        : Places,
   covered   : BOOLEAN,     \* an MFA prompt or an incompatible flow is visible
   username  : BOOLEAN,     \* what its inputs hold
   password  : BOOLEAN,
   submitted : BOOLEAN,     \* the submit control was pressed
   under     : Nat,         \* history: mutations since it is covered
   astray    : Nat]         \* history: mutations since it left the login page

TypeOK ==
  /\ LockTypeOK
  /\ run \in [Runs -> RunStates]
  /\ page \in [Runs -> Pages]
  /\ failures \subseteq Runs
  /\ starts \in 0..MaxStarts /\ moves \in 0..MaxMoves /\ faults \in 0..MaxFaults

Idle == [pc |-> "idle", step |-> 1, seen |-> FALSE, lease |-> 0, outcome |-> "none"]

NoPage == [open |-> FALSE, at |-> "login", covered |-> FALSE, username |-> FALSE,
           password |-> FALSE, submitted |-> FALSE, under |-> 0, astray |-> 0]

At(r, pc)   == run[r].pc = pc
Goto(r, pc) == run' = [run EXCEPT ![r].pc = pc]
Fault       == faults < MaxFaults /\ faults' = faults + 1

\* A run that has no lock to give back.
Refuse(r, outcome) == run' = [run EXCEPT ![r] = [Idle EXCEPT !.outcome = outcome]]

\* The strategy is over; the page is closed next.
Conclude(r, outcome) == run' = [run EXCEPT ![r].pc = "close", ![r].outcome = outcome]

\* The inputs are left as they are.
Abort_Bug(r) ==
  run' = [run EXCEPT ![r].pc = "close", ![r].outcome = "needs_admin_action"]

\* The strategy stops before the mutation its guard stood before; what is in
\* the inputs by then is cleared.
Abort(r) ==
  run' = [run EXCEPT ![r].pc = IF run[r].step = 1 THEN "close" ELSE "scrubPassword",
                     ![r].outcome = "needs_admin_action"]

\* A window opens on what is visible now.
Watch(r, pc) == run' = [run EXCEPT ![r].pc = pc, ![r].seen = page[r].covered]

-----------------------------------------------------------------------------
(* Before the page.                                                        *)

\* resolveScrapeTimeAutoLoginOutcome: adapter, configuration, lock, CDP URL and
\* credential, each of which may turn the run away before it holds anything.
\* A page that a stopped process left open is not followed further.
Resolve(r) ==
  /\ At(r, "idle")
  /\ \/ /\ starts < MaxStarts /\ starts' = starts + 1
        /\ run' = [run EXCEPT ![r] = [Idle EXCEPT !.pc = "acquire"]]
        /\ page' = [page EXCEPT ![r] = NoPage]
     \/ /\ \E outcome \in {"needs_admin_action", "skipped", "manual_required"} :
             Refuse(r, outcome)
        /\ UNCHANGED <<page, starts>>
  /\ UNCHANGED <<lockVars, failures, moves, faults>>

\* A command that timed out may have stored a key nobody knows the token of.
Acquire(r) ==
  /\ At(r, "acquire")
  /\ \/ /\ AcquireSlot
        /\ run' = [run EXCEPT ![r].pc = "browser", ![r].lease = fence + 1]
        /\ UNCHANGED faults
     \/ /\ key # 0
        /\ Refuse(r, "manual_required")
        /\ UNCHANGED <<lockVars, faults>>
     \/ /\ Fault
        /\ Refuse(r, "manual_required")
        /\ UNCHANGED lockVars \/ AcquireSlot
  /\ UNCHANGED <<page, failures, starts, moves>>

\* ensureBrowser: a page is opened on the trusted login URL, wherever that leads.
EnsureBrowser(r) ==
  /\ At(r, "browser")
  /\ \/ \E at \in Places \ {"dashboard"}, covered \in BOOLEAN :
          /\ page' = [page EXCEPT ![r] = [NoPage EXCEPT !.open = TRUE, !.at = at,
                                                        !.covered = covered]]
          /\ Goto(r, "controls")
     \/ \E outcome \in {"throttled", "needs_admin_action"} :
          /\ run' = [run EXCEPT ![r].pc = "release", ![r].outcome = outcome]
          /\ UNCHANGED page
  /\ UNCHANGED <<lockVars, failures, counts>>

-----------------------------------------------------------------------------
(* The guard: assertMutationAuthorized.                                    *)

\* assertRequiredControls: a page that is not the login page may show them too.
GuardControls(r) ==
  /\ At(r, "controls")
  /\ Watch(r, "window") \/ Abort(r)
  /\ UNCHANGED <<lockVars, page, failures, counts>>

\* assertNoProtectedOrIncompatibleState, once its window has closed.
GuardWindow(r) ==
  /\ At(r, "window")
  /\ \/ ~run[r].seen /\ Goto(r, "url") /\ UNCHANGED faults
     \/ run[r].seen /\ Abort(r) /\ UNCHANGED faults
     \/ Fault /\ Abort(r)
  /\ UNCHANGED <<lockVars, page, failures, starts, moves>>

\* The URL is not read again.
GuardUrl_Bug(r) ==
  /\ At(r, "url")
  /\ Goto(r, "mutate")
  /\ UNCHANGED <<lockVars, page, failures, counts>>

\* assertAuthorizedLoginUrl is read last; it may throw.
GuardUrl(r) ==
  /\ At(r, "url")
  /\ \/ page[r].at = "login" /\ Goto(r, "mutate") /\ UNCHANGED faults
     \/ page[r].at # "login" /\ Abort(r) /\ UNCHANGED faults
     \/ Fault /\ Abort(r)
  /\ UNCHANGED <<lockVars, page, failures, starts, moves>>

-----------------------------------------------------------------------------
(* The mutations: two fills and a click.                                   *)

\* The page once the mutation has reached it.
Mutated(p, what) ==
  LET row == IF what = "submit"   THEN [p EXCEPT !.submitted = TRUE]
             ELSE IF what = "username" THEN [p EXCEPT !.username = TRUE]
                                       ELSE [p EXCEPT !.password = TRUE]
  IN [row EXCEPT !.under = IF p.covered THEN @ + 1 ELSE 0,
                 !.astray = IF p.at # "login" THEN @ + 1 ELSE 0]

\* On to the guard of the next mutation, or to the observation of the outcome.
AfterMutation(r) ==
  IF run[r].step = 3 THEN Watch(r, "postWindow")
  ELSE run' = [run EXCEPT ![r].pc = "controls", ![r].step = @ + 1]

\* withAutoLoginMutationHook: before the first fill the recovery reserves its
\* attempt; a reservation that is refused stops the run, the page untouched.
Unauthorized(r) == run[r].step = 1 /\ Abort(r)

\* page.fill or page.click; a call that throws may have reached the page.  A
\* failed username is not scrubbed.
Mutate(r) ==
  /\ At(r, "mutate")
  /\ LET done == Mutated(page[r], Mutations[run[r].step])
     IN \/ /\ page' = [page EXCEPT ![r] = done]
           /\ AfterMutation(r)
           /\ UNCHANGED faults
        \/ /\ Fault
           /\ Abort(r)
           /\ page' = [page EXCEPT ![r] = done] \/ UNCHANGED page
        \/ Unauthorized(r) /\ UNCHANGED <<page, faults>>
  /\ UNCHANGED <<lockVars, failures, starts, moves>>

\* scrubCredentialFields: each clear is bounded and its failure swallowed.
Scrub(r) ==
  /\ At(r, "scrubPassword") \/ At(r, "scrubUsername")
  /\ LET field == At(r, "scrubPassword")
     IN /\ \/ /\ page' = [page EXCEPT ![r].password = @ /\ ~field,
                                      ![r].username = @ /\ field]
              /\ UNCHANGED faults
           \/ Fault /\ UNCHANGED page
        /\ Goto(r, IF field THEN "scrubUsername" ELSE "close")
  /\ UNCHANGED <<lockVars, failures, starts, moves>>

-----------------------------------------------------------------------------
(* After the submit: detectPostSubmitOutcome.                              *)

PostWindow(r) ==
  /\ At(r, "postWindow")
  /\ \/ ~run[r].seen /\ Goto(r, "postUrl") /\ UNCHANGED faults
     \/ run[r].seen /\ Conclude(r, "needs_admin_action") /\ UNCHANGED faults
     \/ Fault /\ Conclude(r, "needs_admin_action")
  /\ UNCHANGED <<lockVars, page, failures, starts, moves>>

\* The dashboard is believed without a second look.
PostUrl_Bug(r) ==
  /\ At(r, "postUrl")
  /\ \/ page[r].at = "dashboard" /\ Conclude(r, "succeeded")
     \/ page[r].at # "dashboard" /\ Conclude(r, "unknown_post_submit_state")
  /\ UNCHANGED <<lockVars, page, failures, counts>>

\* Anything but the dashboard, once submitted, is a state nobody can explain.
PostUrl(r) ==
  /\ At(r, "postUrl")
  /\ \/ page[r].at = "dashboard" /\ Watch(r, "finalWindow") /\ UNCHANGED faults
     \/ page[r].at # "dashboard" /\ Conclude(r, "unknown_post_submit_state") /\ UNCHANGED faults
     \/ Fault /\ Conclude(r, "needs_admin_action")
  /\ UNCHANGED <<lockVars, page, failures, starts, moves>>

FinalWindow(r) ==
  /\ At(r, "finalWindow")
  /\ \/ ~run[r].seen /\ Conclude(r, "succeeded") /\ UNCHANGED faults
     \/ run[r].seen /\ Conclude(r, "needs_admin_action") /\ UNCHANGED faults
     \/ Fault /\ Conclude(r, "needs_admin_action")
  /\ UNCHANGED <<lockVars, page, failures, starts, moves>>

-----------------------------------------------------------------------------
(* The end of a run.                                                       *)

\* browser.close: bounded, its failure swallowed.
CloseBrowser(r) ==
  /\ At(r, "close")
  /\ \/ /\ page' = [page EXCEPT ![r].open = FALSE, ![r].username = FALSE,
                                ![r].password = FALSE]
        /\ UNCHANGED faults
     \/ Fault /\ UNCHANGED page
  /\ Goto(r, "release")
  /\ UNCHANGED <<lockVars, failures, starts, moves>>

\* Only a submit nobody can explain is a failure to the circuit breaker.
Counts(r) == run[r].outcome = "unknown_post_submit_state"

\* The run ends only once its lock is released.
Release_Bug(r) ==
  /\ At(r, "release")
  /\ \/ ReleaseIfOwner(run[r].lease) /\ Refuse(r, run[r].outcome)
     \/ key # run[r].lease /\ UNCHANGED <<lockVars, run>>
  /\ UNCHANGED <<page, failures, counts>>

\* releaseOwnedLock: a lease that is gone, or a command that failed, is reported.
Release(r) ==
  /\ At(r, "release")
  /\ \/ ReleaseIfOwner(run[r].lease) /\ UNCHANGED faults
     \/ key # run[r].lease /\ UNCHANGED <<lockVars, faults>>
     \/ Fault /\ (UNCHANGED lockVars \/ ReleaseIfOwner(run[r].lease))
  /\ IF Counts(r) THEN run' = [run EXCEPT ![r].pc = "record", ![r].lease = 0]
                  ELSE Refuse(r, run[r].outcome)
  /\ UNCHANGED <<page, failures, starts, moves>>

\* recordFailure: that it failed is swallowed.
RecordFailure(r) ==
  /\ At(r, "record")
  /\ \/ failures' = failures \cup {r} /\ UNCHANGED faults
     \/ Fault /\ UNCHANGED failures
  /\ Refuse(r, run[r].outcome)
  /\ UNCHANGED <<lockVars, page, starts, moves>>

\* The process stops: the lock and the page stay behind.
Crash(r) ==
  /\ ~At(r, "idle")
  /\ Fault
  /\ Refuse(r, "none")
  /\ UNCHANGED <<lockVars, page, failures, starts, moves>>

-----------------------------------------------------------------------------
(* The portal and the clock of Redis.                                      *)

\* Something covers the page, or goes away.
Cover(r) ==
  /\ page' = [page EXCEPT ![r].covered = ~@, ![r].under = 0]
  /\ run' = [run EXCEPT ![r].seen = @ \/ ~page[r].covered]

\* The page goes elsewhere, or comes back; a new document has empty inputs.
Navigate(r) ==
  /\ \E at \in Places \ {page[r].at} :
       /\ at = "dashboard" => page[r].submitted
       /\ page' = [page EXCEPT ![r].at = at, ![r].username = FALSE, ![r].password = FALSE,
                               ![r].astray = IF page[r].at = "login" THEN 0 ELSE @]
  /\ UNCHANGED run

PortalMoves(r) ==
  /\ page[r].open
  /\ moves < MaxMoves /\ moves' = moves + 1
  /\ Cover(r) \/ Navigate(r)
  /\ UNCHANGED <<lockVars, failures, starts, faults>>

Clock == KeyTick /\ UNCHANGED <<run, page, failures, counts>>

\* What a live run is bound to do next.
Progress(r) ==
  \/ Acquire(r) \/ EnsureBrowser(r)
  \/ GuardControls(r) \/ GuardWindow(r) \/ GuardUrl(r) \/ Mutate(r)
  \/ PostWindow(r) \/ PostUrl(r) \/ FinalWindow(r)
  \/ Scrub(r) \/ CloseBrowser(r) \/ Release(r) \/ RecordFailure(r)

Init ==
  /\ LockInit
  /\ run = [r \in Runs |-> Idle]
  /\ page = [r \in Runs |-> NoPage]
  /\ failures = {} /\ starts = 0 /\ moves = 0 /\ faults = 0

Next ==
  \/ \E r \in Runs : Resolve(r) \/ Progress(r) \/ Crash(r) \/ PortalMoves(r)
  \/ Clock

Spec == Init /\ [][Next]_vars

\* Page calls, cleanup and the lock's commands are bounded by timeouts, and
\* Redis ends a key when its time is up.
FairSpec == Spec /\ WF_vars(Clock) /\ \A r \in Runs : WF_vars(Progress(r))

-----------------------------------------------------------------------------
(* Properties.                                                             *)

InSection(r) == run[r].lease # 0

\* Two runs of the same event are at work at once only when Redis has ended the
\* lease of one of them: no failed command, stopped process or stale release lets
\* another run in beside one whose lease is good.
OneRunAtATime ==
  \A q, r \in Runs : q # r /\ InSection(q) /\ InSection(r) =>
    run[q].lease \in expired \/ run[r].lease \in expired

\* A lease that Redis or its own run has ended never comes back to the key.
StaleLeaseStaysOut ==
  [][\A r \in Runs : InSection(r) /\ run[r].lease # key => key' # run[r].lease]_vars

\* A cover or a redirect that the guard before one mutation could not see is
\* caught by the next boundary: no second mutation follows.
NextBoundaryCatches == \A r \in Runs : page[r].under <= 1 /\ page[r].astray <= 1

\* Success is only concluded about a form that was submitted, while nothing
\* covers what it led to: a prompt that came up after the first look at the
\* outcome is seen by the second (detectPostSubmitOutcome).
SuccessIsClear ==
  [][\A r \in Runs : run'[r].outcome = "succeeded" /\ run[r].outcome = "none"
       => page[r].submitted /\ ~page[r].covered]_vars

\* The breaker hears of a run only if it pressed submit.
FailuresWereSubmitted == \A r \in Runs : At(r, "record") => page[r].submitted

\* When a run has come to its answer, no password it filled but did not submit
\* is left in an open page, short of two cleanups failing in the same run.
PasswordsDoNotStay ==
  \A r \in Runs : At(r, "release") /\ page[r].open /\ page[r].password
    => page[r].submitted \/ faults >= 2

\* Every run comes to its answer, and every key goes, whoever died with it.
RunsAnswer == \A r \in Runs : ~At(r, "idle") ~> At(r, "idle")
KeysEnd == \A lease \in 1..MaxStarts : key = lease ~> key # lease
=============================================================================
