--------------------------- MODULE AutoLoginProofs ---------------------------
(***************************************************************************)
(* AutoLogin, for any number of runs, moves of the portal and faults, by   *)
(* three arguments: the lock's, that a run's lease is under the key until  *)
(* Redis ends it (LeaseInv), the page's, that a cover or a redirect can be *)
(* hidden from one guard only (RunInv), and the cleanup's, that what one   *)
(* step of it leaves behind has cost a fault (CleanupInv).                 *)
(***************************************************************************)
EXTENDS AutoLogin, TLAPS

\* A key in force has time left; the leases of runs are distinct, none newer than
\* the counter, and each is under the key unless Redis has ended it.
LeaseInv ==
  /\ ttl > 0 => key # 0
  /\ key \notin expired
  /\ \A r \in Runs : run[r].lease <= fence
  /\ \A r \in Runs : InSection(r) => run[r].lease = key \/ run[r].lease \in expired
  /\ \A q, r \in Runs : q # r /\ InSection(q) => run[q].lease # run[r].lease

Windows == {"window", "postWindow", "finalWindow"}
Submitted == {"postWindow", "postUrl", "finalWindow"}
Running == {"acquire", "browser", "controls", "window", "url", "mutate"} \cup Submitted

\* What one run knows of its page.
RunInv(r) ==
  /\ page[r].under <= 1 /\ page[r].astray <= 1
  /\ page[r].under = 1 => page[r].covered
  /\ run[r].pc \in Windows /\ page[r].covered => run[r].seen
  /\ run[r].pc \in {"url", "mutate"} => page[r].under = 0
  /\ run[r].pc = "mutate" /\ page[r].astray = 1 => page[r].at = "login"
  /\ run[r].pc \in Submitted => page[r].submitted
  /\ run[r].pc \in Running => run[r].outcome = "none"
  /\ run[r].pc # "idle" /\ run[r].outcome = "unknown_post_submit_state" => page[r].submitted
  /\ run[r].pc = "record" => run[r].outcome = "unknown_post_submit_state"

\* Where the password may be before it is submitted: written by the second
\* mutation, it outlives its clearing and the closing of its page by one fault each.
CleanupInv(r) ==
  /\ run[r].pc \in {"acquire", "browser"} => ~page[r].open
  /\ run[r].pc \in {"controls", "window", "url", "mutate"} /\ page[r].password
     => run[r].step = 3
  /\ run[r].pc \in {"scrubUsername", "close"} /\ page[r].password
     => page[r].submitted \/ faults >= 1
  /\ run[r].pc = "release" /\ page[r].open /\ page[r].password
     => page[r].submitted \/ faults >= 2

IInv == TypeOK /\ LeaseInv /\ \A r \in Runs : RunInv(r) /\ CleanupInv(r)

-----------------------------------------------------------------------------
(* Types.                                                                  *)

RunTypes  == run \in [Runs -> RunStates]
PageTypes == page \in [Runs -> Pages]
CountTypes ==
  /\ failures \subseteq Runs
  /\ starts \in 0..MaxStarts /\ moves \in 0..MaxMoves /\ faults \in 0..MaxFaults

LEMMA InitTypes == Init => TypeOK
BY LockAssumption, AutoLoginAssumption
DEF Init, TypeOK, LockInit, LockTypeOK, Idle, NoPage, RunStates, Pages, PCs, Outcomes, Places

\* What the helpers leave in the run's variable.
LEMMA GotoTypes ==
  ASSUME NEW r \in Runs, NEW pc \in PCs, RunTypes, Goto(r, pc) PROVE RunTypes'
<1>1. [run[r] EXCEPT !.pc = pc] \in RunStates
  BY DEF RunTypes, RunStates
<1> QED
  BY <1>1 DEF RunTypes, Goto

LEMMA RefuseTypes ==
  ASSUME NEW r \in Runs, NEW outcome \in Outcomes, RunTypes, Refuse(r, outcome) PROVE RunTypes'
<1>1. Idle \in RunStates
  BY DEF Idle, RunStates, PCs, Outcomes
<1>2. [Idle EXCEPT !.outcome = outcome] \in RunStates
  BY <1>1 DEF RunStates
<1> QED
  BY <1>2 DEF RunTypes, Refuse

LEMMA ConcludeTypes ==
  ASSUME NEW r \in Runs, NEW outcome \in Outcomes, RunTypes, Conclude(r, outcome) PROVE RunTypes'
<1>1. [run[r] EXCEPT !.pc = "close", !.outcome = outcome] \in RunStates
  BY DEF RunTypes, RunStates, PCs
<1> QED
  BY <1>1 DEF RunTypes, Conclude

LEMMA AbortTypes ==
  ASSUME NEW r \in Runs, RunTypes, Abort(r) PROVE RunTypes'
<1> DEFINE next == IF run[r].step = 1 THEN "close" ELSE "scrubPassword"
<1>1. next \in PCs /\ "needs_admin_action" \in Outcomes
  BY DEF PCs, Outcomes
<1>2. run' = [run EXCEPT ![r] = [run[r] EXCEPT !.pc = next, !.outcome = "needs_admin_action"]]
  BY DEF Abort
<1> HIDE DEF next
<1>3. [run[r] EXCEPT !.pc = next, !.outcome = "needs_admin_action"] \in RunStates
  BY <1>1 DEF RunTypes, RunStates
<1> QED
  BY <1>2, <1>3 DEF RunTypes

LEMMA WatchTypes ==
  ASSUME NEW r \in Runs, NEW pc \in PCs, RunTypes, PageTypes, Watch(r, pc) PROVE RunTypes'
<1>1. page[r].covered \in BOOLEAN
  BY DEF PageTypes, Pages
<1>2. [run[r] EXCEPT !.pc = pc, !.seen = page[r].covered] \in RunStates
  BY <1>1 DEF RunTypes, RunStates
<1> QED
  BY <1>2 DEF RunTypes, Watch

LEMMA AfterMutationTypes ==
  ASSUME NEW r \in Runs, RunTypes, PageTypes, AfterMutation(r) PROVE RunTypes'
<1>1. CASE run[r].step = 3
  BY <1>1, WatchTypes DEF AfterMutation, PCs
<1>2. CASE run[r].step # 3
  <2>1. run[r].step + 1 \in 1..3
    BY <1>2 DEF RunTypes, RunStates
  <2>2. [run[r] EXCEPT !.pc = "controls", !.step = run[r].step + 1] \in RunStates
    BY <2>1 DEF RunTypes, RunStates, PCs
  <2> QED
    BY <1>2, <2>2 DEF RunTypes, AfterMutation
<1> QED
  BY <1>1, <1>2

\* The scripts of the lock, and Redis itself.
LEMMA LockTypes ==
  ASSUME LockTypeOK, NEW lease, AcquireSlot \/ ReleaseIfOwner(lease) \/ KeyTick \/ UNCHANGED lockVars,
         ttl > 0 => key # 0
  PROVE LockTypeOK'
<1> USE LockAssumption DEF LockTypeOK
<1>1. CASE AcquireSlot
  BY <1>1 DEF AcquireSlot
<1>2. CASE ReleaseIfOwner(lease)
  BY <1>2 DEF ReleaseIfOwner
<1>3. CASE KeyTick
  <2>1. ttl' \in 0..LockTicks /\ fence' = fence /\ key' \in 0..fence
    BY <1>3 DEF KeyTick
  <2>2. key \in 1..fence
    BY <1>3 DEF KeyTick
  <2>3. expired' = expired \/ expired' = expired \cup {key}
    BY <1>3 DEF KeyTick
  <2>4. \A e \in expired' : e \in 1..fence
    BY <2>2, <2>3
  <2> QED
    BY <2>1, <2>4
<1>4. CASE UNCHANGED lockVars
  BY <1>4 DEF lockVars
<1> QED
  BY <1>1, <1>2, <1>3, <1>4

LEMMA StepTypes ==
  ASSUME TypeOK, ttl > 0 => key # 0, [Next]_vars PROVE TypeOK'
<1>0. RunTypes /\ PageTypes /\ CountTypes /\ LockTypeOK
  BY DEF TypeOK, RunTypes, PageTypes, CountTypes
<1> SUFFICES RunTypes' /\ PageTypes' /\ CountTypes' /\ LockTypeOK'
  BY DEF TypeOK, RunTypes, PageTypes, CountTypes
<1> USE AutoLoginAssumption
<1>a. NoPage \in Pages
  BY DEF NoPage, Pages, Places
<1>b. UNCHANGED run => RunTypes'
  BY <1>0 DEF RunTypes
<1>c. UNCHANGED page => PageTypes'
  BY <1>0 DEF PageTypes
<1>1. ASSUME NEW r \in Runs, Resolve(r) PROVE RunTypes' /\ PageTypes' /\ CountTypes' /\ LockTypeOK'
  <2>1. RunTypes'
    <3>1. CASE run' = [run EXCEPT ![r] = [Idle EXCEPT !.pc = "acquire"]]
      <4>1. Idle \in RunStates
        BY DEF Idle, RunStates, PCs, Outcomes
      <4>2. [Idle EXCEPT !.pc = "acquire"] \in RunStates
        BY <4>1 DEF RunStates, PCs
      <4> QED
        BY <1>0, <3>1, <4>2 DEF RunTypes
    <3>2. CASE \E outcome \in {"needs_admin_action", "skipped", "manual_required"} : Refuse(r, outcome)
      BY <1>0, <3>2, RefuseTypes DEF Outcomes
    <3> QED
      BY <1>1, <3>1, <3>2 DEF Resolve
  <2>2. PageTypes'
    BY <1>0, <1>1, <1>a DEF Resolve, PageTypes
  <2>3. CountTypes'
    BY <1>0, <1>1 DEF Resolve, CountTypes
  <2> QED
    BY <1>0, <1>1, <2>1, <2>2, <2>3, LockTypes DEF Resolve
<1>2. ASSUME NEW r \in Runs, Acquire(r) PROVE RunTypes' /\ PageTypes' /\ CountTypes' /\ LockTypeOK'
  <2>1. RunTypes'
    <3>1. CASE run' = [run EXCEPT ![r].pc = "browser", ![r].lease = fence + 1]
      <4>1. fence + 1 \in Nat /\ "browser" \in PCs
        BY <1>0 DEF LockTypeOK, PCs
      <4>2. [run[r] EXCEPT !.pc = "browser", !.lease = fence + 1] \in RunStates
        BY <1>0, <4>1 DEF RunTypes, RunStates
      <4> QED
        BY <1>0, <3>1, <4>2 DEF RunTypes
    <3>2. CASE Refuse(r, "manual_required")
      BY <1>0, <3>2, RefuseTypes DEF Outcomes
    <3> QED
      BY <1>2, <3>1, <3>2 DEF Acquire
  <2>2. CountTypes'
    BY <1>0, <1>2 DEF Acquire, Fault, CountTypes
  <2> QED
    BY <1>0, <1>2, <1>c, <2>1, <2>2, LockTypes DEF Acquire
<1>3. ASSUME NEW r \in Runs, EnsureBrowser(r) PROVE RunTypes' /\ PageTypes' /\ CountTypes' /\ LockTypeOK'
  <2>1. RunTypes'
    <3>1. CASE Goto(r, "controls")
      BY <1>0, <3>1, GotoTypes DEF PCs
    <3>2. CASE \E outcome \in {"throttled", "needs_admin_action"} :
                 run' = [run EXCEPT ![r].pc = "release", ![r].outcome = outcome]
      <4>1. PICK outcome \in {"throttled", "needs_admin_action"} :
              run' = [run EXCEPT ![r].pc = "release", ![r].outcome = outcome]
        BY <3>2
      <4>2. outcome \in Outcomes /\ "release" \in PCs
        BY DEF Outcomes, PCs
      <4>3. [run[r] EXCEPT !.pc = "release", !.outcome = outcome] \in RunStates
        BY <1>0, <4>2 DEF RunTypes, RunStates
      <4> QED
        BY <1>0, <4>1, <4>3 DEF RunTypes
    <3> QED
      BY <1>3, <3>1, <3>2 DEF EnsureBrowser
  <2>2. PageTypes'
    <3>1. \A at \in Places, covered \in BOOLEAN :
            [NoPage EXCEPT !.open = TRUE, !.at = at, !.covered = covered] \in Pages
      BY <1>a DEF Pages
    <3> QED
      BY <1>0, <1>3, <3>1 DEF EnsureBrowser, PageTypes
  <2>3. CountTypes' /\ UNCHANGED lockVars
    BY <1>0, <1>3 DEF EnsureBrowser, counts, CountTypes
  <2> QED
    BY <1>0, <2>1, <2>2, <2>3, LockTypes
<1>4. ASSUME NEW r \in Runs, GuardControls(r) \/ GuardWindow(r) \/ GuardUrl(r)
      PROVE  RunTypes' /\ PageTypes' /\ CountTypes' /\ LockTypeOK'
  <2>1. Watch(r, "window") \/ Abort(r) \/ Goto(r, "url") \/ Goto(r, "mutate")
    BY <1>4 DEF GuardControls, GuardWindow, GuardUrl
  <2>2. RunTypes'
    BY <1>0, <2>1, WatchTypes, AbortTypes, GotoTypes DEF PCs
  <2>3. CountTypes' /\ UNCHANGED <<page, lockVars>>
    BY <1>0, <1>4 DEF GuardControls, GuardWindow, GuardUrl, Fault, counts, CountTypes
  <2> QED
    BY <1>0, <1>c, <2>2, <2>3, LockTypes
<1>5. ASSUME NEW r \in Runs, Mutate(r) PROVE RunTypes' /\ PageTypes' /\ CountTypes' /\ LockTypeOK'
  <2> DEFINE done == Mutated(page[r], Mutations[run[r].step])
  <2>1. done \in Pages
    <3> DEFINE p == page[r]
               row == IF Mutations[run[r].step] = "submit" THEN [p EXCEPT !.submitted = TRUE]
                      ELSE IF Mutations[run[r].step] = "username" THEN [p EXCEPT !.username = TRUE]
                           ELSE [p EXCEPT !.password = TRUE]
               under == IF p.covered THEN row.under + 1 ELSE 0
               astray == IF p.at # "login" THEN row.astray + 1 ELSE 0
    <3>1. p \in Pages
      BY <1>0 DEF PageTypes
    <3>2. row \in Pages
      BY <3>1 DEF Pages
    <3>3. under \in Nat /\ astray \in Nat
      BY <3>2 DEF Pages
    <3>4. done = [row EXCEPT !.under = under, !.astray = astray]
      BY DEF Mutated
    <3> HIDE DEF row, under, astray, p
    <3>5. [row EXCEPT !.under = under, !.astray = astray] \in Pages
      BY <3>2, <3>3 DEF Pages
    <3> QED
      BY <3>4, <3>5
  <2> HIDE DEF done
  <2>2. RunTypes'
    <3>1. AfterMutation(r) \/ Abort(r)
      BY <1>5 DEF Mutate, Unauthorized
    <3> QED
      BY <1>0, <3>1, AfterMutationTypes, AbortTypes
  <2>3. PageTypes'
    <3>1. page' = [page EXCEPT ![r] = done] \/ UNCHANGED page
      BY <1>5 DEF Mutate, Unauthorized, done
    <3> QED
      BY <1>0, <1>c, <2>1, <3>1 DEF PageTypes
  <2>4. CountTypes' /\ UNCHANGED lockVars
    BY <1>0, <1>5 DEF Mutate, Unauthorized, Fault, CountTypes
  <2> QED
    BY <1>0, <2>2, <2>3, <2>4, LockTypes
<1>6. ASSUME NEW r \in Runs, PostWindow(r) \/ PostUrl(r) \/ FinalWindow(r)
      PROVE  RunTypes' /\ PageTypes' /\ CountTypes' /\ LockTypeOK'
  <2>1. \/ Watch(r, "finalWindow") \/ Goto(r, "postUrl")
        \/ \E outcome \in Outcomes : Conclude(r, outcome)
    BY <1>6 DEF PostWindow, PostUrl, FinalWindow, Outcomes
  <2>2. RunTypes'
    BY <1>0, <2>1, WatchTypes, ConcludeTypes, GotoTypes DEF PCs
  <2>3. CountTypes' /\ UNCHANGED <<page, lockVars>>
    BY <1>0, <1>6 DEF PostWindow, PostUrl, FinalWindow, Fault, counts, CountTypes
  <2> QED
    BY <1>0, <1>c, <2>2, <2>3, LockTypes
<1>7. ASSUME NEW r \in Runs, Scrub(r) PROVE RunTypes' /\ PageTypes' /\ CountTypes' /\ LockTypeOK'
  <2>1. Goto(r, "scrubUsername") \/ Goto(r, "close")
    BY <1>7 DEF Scrub
  <2>2. RunTypes'
    BY <1>0, <2>1, GotoTypes DEF PCs
  <2>3. PageTypes'
    <3> DEFINE field == At(r, "scrubPassword")
               password == page[r].password /\ ~field
               username == page[r].username /\ field
    <3>1. CASE page' = [page EXCEPT ![r].password = @ /\ ~field, ![r].username = @ /\ field]
      <4>1. password \in BOOLEAN /\ username \in BOOLEAN
        OBVIOUS
      <4>2. page' = [page EXCEPT ![r] = [page[r] EXCEPT !.password = password, !.username = username]]
        BY <3>1
      <4> HIDE DEF password, username
      <4>3. [page[r] EXCEPT !.password = password, !.username = username] \in Pages
        BY <1>0, <4>1 DEF PageTypes, Pages
      <4> QED
        BY <1>0, <4>2, <4>3 DEF PageTypes
    <3> QED
      BY <1>7, <1>c, <3>1 DEF Scrub
  <2>4. CountTypes' /\ UNCHANGED lockVars
    BY <1>0, <1>7 DEF Scrub, Fault, CountTypes
  <2> QED
    BY <1>0, <2>2, <2>3, <2>4, LockTypes
<1>8. ASSUME NEW r \in Runs, CloseBrowser(r) PROVE RunTypes' /\ PageTypes' /\ CountTypes' /\ LockTypeOK'
  <2>1. RunTypes'
    BY <1>0, <1>8, GotoTypes DEF CloseBrowser, PCs
  <2>2. PageTypes'
    <3>1. [page[r] EXCEPT !.open = FALSE, !.username = FALSE, !.password = FALSE] \in Pages
      BY <1>0 DEF PageTypes, Pages
    <3> QED
      BY <1>0, <1>8, <1>c, <3>1 DEF CloseBrowser, PageTypes
  <2>3. CountTypes' /\ UNCHANGED lockVars
    BY <1>0, <1>8 DEF CloseBrowser, Fault, CountTypes
  <2> QED
    BY <1>0, <2>1, <2>2, <2>3, LockTypes
<1>9. ASSUME NEW r \in Runs, Release(r) PROVE RunTypes' /\ PageTypes' /\ CountTypes' /\ LockTypeOK'
  <2>1. RunTypes'
    <3>1. run[r].outcome \in Outcomes
      BY <1>0 DEF RunTypes, RunStates
    <3>2. [run[r] EXCEPT !.pc = "record", !.lease = 0] \in RunStates
      BY <1>0 DEF RunTypes, RunStates, PCs
    <3> QED
      BY <1>0, <1>9, <3>1, <3>2, RefuseTypes DEF Release, RunTypes
  <2>2. CountTypes' /\ UNCHANGED page
    BY <1>0, <1>9 DEF Release, Fault, CountTypes
  <2>3. ReleaseIfOwner(run[r].lease) \/ UNCHANGED lockVars
    BY <1>9 DEF Release
  <2> QED
    BY <1>0, <1>c, <2>1, <2>2, <2>3, LockTypes
<1>10. ASSUME NEW r \in Runs, RecordFailure(r) \/ Crash(r)
       PROVE  RunTypes' /\ PageTypes' /\ CountTypes' /\ LockTypeOK'
  <2>1. RunTypes'
    <3>1. run[r].outcome \in Outcomes /\ "none" \in Outcomes
      BY <1>0 DEF RunTypes, RunStates, Outcomes
    <3> QED
      BY <1>0, <1>10, <3>1, RefuseTypes DEF RecordFailure, Crash
  <2>2. CountTypes' /\ UNCHANGED <<page, lockVars>>
    BY <1>0, <1>10 DEF RecordFailure, Crash, Fault, CountTypes
  <2> QED
    BY <1>0, <1>c, <2>1, <2>2, LockTypes
<1>11. ASSUME NEW r \in Runs, PortalMoves(r) PROVE RunTypes' /\ PageTypes' /\ CountTypes' /\ LockTypeOK'
  <2>1. CASE Cover(r)
    <3> DEFINE seen == run[r].seen \/ ~page[r].covered
               covered == ~page[r].covered
    <3>1. seen \in BOOLEAN /\ covered \in BOOLEAN
      OBVIOUS
    <3>2. /\ run' = [run EXCEPT ![r] = [run[r] EXCEPT !.seen = seen]]
          /\ page' = [page EXCEPT ![r] = [page[r] EXCEPT !.covered = covered, !.under = 0]]
      BY <2>1 DEF Cover
    <3> HIDE DEF seen, covered
    <3>3. [run[r] EXCEPT !.seen = seen] \in RunStates
      BY <1>0, <3>1 DEF RunTypes, RunStates
    <3>4. [page[r] EXCEPT !.covered = covered, !.under = 0] \in Pages
      BY <1>0, <3>1 DEF PageTypes, Pages
    <3>5. RunTypes' /\ PageTypes'
      <4>1. run' = [run EXCEPT ![r] = [run[r] EXCEPT !.seen = seen]] => RunTypes'
        BY <1>0, <3>3 DEF RunTypes
      <4>2. page' = [page EXCEPT ![r] = [page[r] EXCEPT !.covered = covered, !.under = 0]] => PageTypes'
        BY <1>0, <3>4 DEF PageTypes
      <4> QED
        BY <3>2, <4>1, <4>2
    <3>6. CountTypes' /\ UNCHANGED lockVars
      BY <1>0, <1>11 DEF PortalMoves, CountTypes
    <3> QED
      BY <1>0, <3>5, <3>6, LockTypes
  <2>2. CASE Navigate(r)
    <3>1. PICK at \in Places :
            page' = [page EXCEPT ![r].at = at, ![r].username = FALSE, ![r].password = FALSE,
                                 ![r].astray = IF page[r].at = "login" THEN 0 ELSE @]
      BY <2>2 DEF Navigate
    <3> DEFINE astray == IF page[r].at = "login" THEN 0 ELSE page[r].astray
    <3>2. astray \in Nat
      BY <1>0 DEF PageTypes, Pages
    <3>3. page' = [page EXCEPT ![r] = [page[r] EXCEPT !.at = at, !.username = FALSE,
                                                      !.password = FALSE, !.astray = astray]]
      BY <3>1
    <3> HIDE DEF astray
    <3>4. [page[r] EXCEPT !.at = at, !.username = FALSE, !.password = FALSE, !.astray = astray] \in Pages
      BY <1>0, <3>2 DEF PageTypes, Pages
    <3>5. PageTypes'
      BY <1>0, <3>3, <3>4 DEF PageTypes
    <3>6. UNCHANGED run
      BY <2>2 DEF Navigate
    <3>7. CountTypes' /\ UNCHANGED lockVars
      BY <1>0, <1>11 DEF PortalMoves, CountTypes
    <3> QED
      BY <1>0, <1>b, <3>5, <3>6, <3>7, LockTypes
  <2> QED
    BY <1>11, <2>1, <2>2 DEF PortalMoves
<1>12. CASE Clock
  BY <1>0, <1>12, <1>b, <1>c, LockTypes DEF Clock, counts, CountTypes
<1>13. CASE UNCHANGED vars
  BY <1>0, <1>13, <1>b, <1>c, LockTypes DEF vars, counts, CountTypes
<1> QED
  BY <1>1, <1>2, <1>3, <1>4, <1>5, <1>6, <1>7, <1>8, <1>9, <1>10, <1>11, <1>12, <1>13
  DEF Next, Progress

-----------------------------------------------------------------------------
(* The lock's argument.                                                    *)

\* A run whose lease a step leaves alone, gives back or takes anew.
Keeps(r) == run'[r].lease = run[r].lease
Drops(r) == run'[r].lease = 0
Others(r) == \A q \in Runs : q # r => run'[q] = run[q]

\* What the steps of a run do to its lease and to the lock.
LEMMA LeaseSteps ==
  ASSUME TypeOK, NEW r \in Runs, Resolve(r) \/ Progress(r) \/ Crash(r) \/ PortalMoves(r)
  PROVE  /\ Others(r)
         /\ \/ Keeps(r) /\ UNCHANGED lockVars
            \/ Drops(r) /\ UNCHANGED lockVars
            \/ Drops(r) /\ AcquireSlot
            \/ Drops(r) /\ ReleaseIfOwner(run[r].lease)
            \/ run'[r].lease = fence + 1 /\ AcquireSlot
<1> DEFINE G == /\ Others(r)
                /\ \/ Keeps(r) /\ UNCHANGED lockVars
                   \/ Drops(r) /\ UNCHANGED lockVars
                   \/ Drops(r) /\ AcquireSlot
                   \/ Drops(r) /\ ReleaseIfOwner(run[r].lease)
                   \/ run'[r].lease = fence + 1 /\ AcquireSlot
<1> SUFFICES G
  OBVIOUS
<1>0. run \in [Runs -> RunStates] /\ run[r] \in RunStates
  BY DEF TypeOK
<1>1. ASSUME NEW pc, Goto(r, pc) PROVE Others(r) /\ Keeps(r)
  BY <1>0, <1>1 DEF Goto, Others, Keeps, RunStates
<1>2. ASSUME NEW outcome, Refuse(r, outcome) PROVE Others(r) /\ Drops(r)
  BY <1>0, <1>2 DEF Refuse, Idle, Others, Drops
<1>3. ASSUME NEW outcome, Conclude(r, outcome) PROVE Others(r) /\ Keeps(r)
  BY <1>0, <1>3 DEF Conclude, Others, Keeps, RunStates
<1>4. ASSUME Abort(r) PROVE Others(r) /\ Keeps(r)
  BY <1>0, <1>4 DEF Abort, Others, Keeps, RunStates
<1>5. ASSUME NEW pc, Watch(r, pc) PROVE Others(r) /\ Keeps(r)
  BY <1>0, <1>5 DEF Watch, Others, Keeps, RunStates
<1>6. ASSUME AfterMutation(r) PROVE Others(r) /\ Keeps(r)
  <2>1. Watch(r, "postWindow") \/ run' = [run EXCEPT ![r].pc = "controls", ![r].step = @ + 1]
    BY <1>6 DEF AfterMutation
  <2> QED
    BY <1>0, <1>5, <2>1 DEF Others, Keeps, RunStates
<1>7. CASE Resolve(r)
  <2>1. UNCHANGED lockVars
    BY <1>7 DEF Resolve
  <2>2. CASE run' = [run EXCEPT ![r] = [Idle EXCEPT !.pc = "acquire"]]
    BY <1>0, <2>1, <2>2 DEF Idle, Others, Drops
  <2>3. CASE \E outcome \in {"needs_admin_action", "skipped", "manual_required"} : Refuse(r, outcome)
    BY <1>2, <2>1, <2>3
  <2> QED
    BY <1>7, <2>2, <2>3 DEF Resolve
<1>8. CASE Acquire(r)
  <2>1. CASE AcquireSlot /\ run' = [run EXCEPT ![r].pc = "browser", ![r].lease = fence + 1]
    BY <1>0, <2>1 DEF Others, RunStates
  <2>2. CASE Refuse(r, "manual_required") /\ (AcquireSlot \/ UNCHANGED lockVars)
    BY <1>2, <2>2
  <2> QED
    BY <1>8, <2>1, <2>2 DEF Acquire, lockVars
<1>9. CASE EnsureBrowser(r)
  <2>1. UNCHANGED lockVars
    BY <1>9 DEF EnsureBrowser
  <2>2. CASE Goto(r, "controls")
    BY <1>1, <2>1, <2>2
  <2>3. CASE \E outcome \in {"throttled", "needs_admin_action"} :
               run' = [run EXCEPT ![r].pc = "release", ![r].outcome = outcome]
    BY <1>0, <2>1, <2>3 DEF Others, Keeps, RunStates
  <2> QED
    BY <1>9, <2>2, <2>3 DEF EnsureBrowser
<1>10. CASE GuardControls(r) \/ GuardWindow(r) \/ GuardUrl(r)
  BY <1>1, <1>4, <1>5, <1>10 DEF GuardControls, GuardWindow, GuardUrl
<1>11. CASE Mutate(r)
  BY <1>4, <1>6, <1>11 DEF Mutate, Unauthorized
<1>12. CASE PostWindow(r) \/ PostUrl(r) \/ FinalWindow(r)
  BY <1>1, <1>3, <1>5, <1>12 DEF PostWindow, PostUrl, FinalWindow
<1>13. CASE Scrub(r) \/ CloseBrowser(r)
  BY <1>1, <1>13 DEF Scrub, CloseBrowser
<1>14. CASE Release(r)
  <2>1. UNCHANGED lockVars \/ ReleaseIfOwner(run[r].lease)
    BY <1>14 DEF Release
  <2>2. Others(r) /\ Drops(r)
    <3>1. CASE run' = [run EXCEPT ![r].pc = "record", ![r].lease = 0]
      BY <1>0, <3>1 DEF Others, Drops, RunStates
    <3> QED
      BY <1>2, <1>14, <3>1 DEF Release
  <2> QED
    BY <2>1, <2>2
<1>15. CASE RecordFailure(r) \/ Crash(r)
  BY <1>2, <1>15 DEF RecordFailure, Crash
<1>16. CASE PortalMoves(r)
  <2>1. UNCHANGED lockVars
    BY <1>16 DEF PortalMoves
  <2>2. CASE Cover(r)
    BY <1>0, <2>1, <2>2 DEF Cover, Others, Keeps, RunStates
  <2>3. CASE Navigate(r)
    BY <2>1, <2>3 DEF Navigate, Others, Keeps
  <2> QED
    BY <1>16, <2>2, <2>3 DEF PortalMoves
<1> QED
  BY <1>7, <1>8, <1>9, <1>10, <1>11, <1>12, <1>13, <1>14, <1>15, <1>16 DEF Progress

LEMMA StepLeases ==
  ASSUME TypeOK, LeaseInv, [Next]_vars PROVE LeaseInv'
<1>0. /\ LockTypeOK /\ LockTypeOK'
      /\ \A r \in Runs : run[r].lease \in Nat
  BY StepTypes DEF TypeOK, LeaseInv, RunStates
<1>1. ASSUME NEW r \in Runs, Resolve(r) \/ Progress(r) \/ Crash(r) \/ PortalMoves(r)
      PROVE  LeaseInv'
  <2>1. Others(r)
    BY <1>1, LeaseSteps
  <2>2. CASE (Keeps(r) \/ Drops(r)) /\ UNCHANGED lockVars
    <3>1. \A q \in Runs : run'[q].lease = run[q].lease \/ run'[q].lease = 0
      BY <2>1, <2>2 DEF Others, Keeps, Drops
    <3>2. key' = key /\ ttl' = ttl /\ fence' = fence /\ expired' = expired
      BY <2>2 DEF lockVars
    <3> QED
      BY <1>0, <3>1, <3>2 DEF LeaseInv, InSection, LockTypeOK
  <2>3. CASE Drops(r) /\ AcquireSlot
    BY <1>0, <2>1, <2>3 DEF LeaseInv, InSection, Others, Drops, AcquireSlot, LockTypeOK
  <2>4. CASE Drops(r) /\ ReleaseIfOwner(run[r].lease)
    BY <1>0, <2>1, <2>4 DEF LeaseInv, InSection, Others, Drops, ReleaseIfOwner, LockTypeOK
  <2>5. CASE run'[r].lease = fence + 1 /\ AcquireSlot
    BY <1>0, <2>1, <2>5 DEF LeaseInv, InSection, Others, AcquireSlot, LockTypeOK
  <2> QED
    BY <1>1, <2>2, <2>3, <2>4, <2>5, LeaseSteps
<1>2. CASE Clock
  <2>1. UNCHANGED <<run, fence>> /\ ttl > 0 /\ ttl' = ttl - 1
    BY <1>2 DEF Clock, KeyTick
  <2>2. CASE key' = 0 /\ expired' = expired \cup {key} /\ ttl = 1
    BY <1>0, <2>1, <2>2 DEF LeaseInv, InSection, LockTypeOK
  <2>3. CASE UNCHANGED <<key, expired>>
    BY <1>0, <2>1, <2>3 DEF LeaseInv, InSection, LockTypeOK
  <2> QED
    BY <1>2, <2>2, <2>3 DEF Clock, KeyTick
<1>3. CASE UNCHANGED vars
  BY <1>3 DEF vars, lockVars, LeaseInv, InSection
<1> QED
  BY <1>1, <1>2, <1>3 DEF Next

-----------------------------------------------------------------------------
(* The page's argument.                                                    *)

\* What the steps of a run do to its own page.
LEMMA StepRun ==
  ASSUME TypeOK, NEW r \in Runs, RunInv(r),
         Resolve(r) \/ Progress(r) \/ Crash(r) \/ PortalMoves(r)
  PROVE  RunInv(r)'
<1>0. /\ run \in [Runs -> RunStates] /\ run[r] \in RunStates
      /\ page \in [Runs -> Pages] /\ page[r] \in Pages
  BY DEF TypeOK
<1> USE <1>0 DEF RunInv, Windows, Submitted, Running, At, RunStates, Pages
<1>1. CASE Resolve(r)
  BY <1>1 DEF Resolve, Idle, NoPage, Refuse
<1>2. CASE Acquire(r)
  BY <1>2 DEF Acquire, Idle, Refuse
<1>3. CASE EnsureBrowser(r)
  <2>1. ASSUME NEW at \in Places, NEW covered \in BOOLEAN, Goto(r, "controls"),
               page' = [page EXCEPT ![r] = [NoPage EXCEPT !.open = TRUE, !.at = at, !.covered = covered]]
        PROVE  RunInv(r)'
    <3>1. page'[r] = [NoPage EXCEPT !.open = TRUE, !.at = at, !.covered = covered]
      BY <2>1
    <3>2. page'[r].under = 0 /\ page'[r].astray = 0
      BY <3>1 DEF NoPage
    <3>3. run'[r].pc = "controls" /\ run'[r].outcome = "none"
      BY <1>3, <2>1 DEF EnsureBrowser, Goto
    <3> QED
      BY <3>2, <3>3
  <2>2. ASSUME NEW outcome \in {"throttled", "needs_admin_action"}, UNCHANGED page,
               run' = [run EXCEPT ![r].pc = "release", ![r].outcome = outcome]
        PROVE  RunInv(r)'
    BY <2>2
  <2> QED
    BY <1>3, <2>1, <2>2 DEF EnsureBrowser
<1>4. CASE GuardControls(r)
  BY <1>4 DEF GuardControls, Watch, Abort
<1>5. CASE GuardWindow(r)
  <2>1. CASE ~run[r].seen /\ Goto(r, "url")
    <3>1. run[r].pc = "window" /\ UNCHANGED page
      BY <1>5 DEF GuardWindow
    <3>2. page[r].under = 0
      <4>1. page[r].covered => run[r].seen
        BY <3>1
      <4>2. page[r].under = 1 => page[r].covered
        OBVIOUS
      <4>3. page[r].under # 1
        BY <2>1, <4>1, <4>2, Zenon
      <4>4. page[r].under \in Nat /\ page[r].under <= 1
        OBVIOUS
      <4> QED
        BY ONLY <4>3, <4>4
    <3>3. run'[r].pc = "url" /\ run'[r].outcome = run[r].outcome
      BY <2>1 DEF Goto
    <3> QED
      BY <1>5, <3>1, <3>2, <3>3 DEF GuardWindow
  <2>2. CASE Abort(r)
    BY <1>5, <2>2 DEF GuardWindow, Abort
  <2> QED
    BY <1>5, <2>1, <2>2 DEF GuardWindow
<1>6. CASE GuardUrl(r)
  BY <1>6 DEF GuardUrl, Goto, Abort
<1>7. CASE Mutate(r)
  <2> DEFINE what == Mutations[run[r].step]
             done == Mutated(page[r], what)
  <2>1. /\ done.under = (IF page[r].covered THEN 1 ELSE 0)
        /\ done.astray = (IF page[r].at # "login" THEN page[r].astray + 1 ELSE 0)
        /\ done.covered = page[r].covered /\ done.at = page[r].at
        /\ what = "submit" => done.submitted
        /\ page[r].submitted => done.submitted
    <3>1. page[r].under = 0
      BY <1>7 DEF Mutate, Unauthorized
    <3> HIDE DEF what
    <3> QED
      BY <3>1 DEF Mutated
  <2>2. done.astray <= 1
    BY <1>7, <2>1 DEF Mutate, Unauthorized
  <2>3. run[r].step = 3 => what = "submit"
    BY DEF Mutations
  <2> HIDE DEF done, what
  <2>4. page'[r] = done \/ page'[r] = page[r]
    BY <1>7 DEF Mutate, Unauthorized, done, what
  <2>5. CASE Abort(r)
    BY <1>7, <2>1, <2>2, <2>4, <2>5 DEF Abort
  <2>6. CASE AfterMutation(r) /\ page' = [page EXCEPT ![r] = done]
    <3>1. page'[r] = done
      BY <2>6
    <3>2. CASE run[r].step = 3
      <4>1. /\ run'[r].pc = "postWindow" /\ run'[r].seen = page[r].covered
            /\ run'[r].outcome = run[r].outcome
        BY <2>6, <3>2 DEF AfterMutation, Watch
      <4> QED
        BY <1>7, <2>1, <2>2, <2>3, <3>1, <3>2, <4>1 DEF Mutate, Unauthorized
    <3>3. CASE run[r].step # 3
      <4>1. run'[r].pc = "controls" /\ run'[r].outcome = run[r].outcome
        BY <2>6, <3>3 DEF AfterMutation
      <4> QED
        BY <1>7, <2>1, <2>2, <3>1, <4>1 DEF Mutate, Unauthorized
    <3> QED
      BY <3>2, <3>3
  <2> QED
    BY <1>7, <2>5, <2>6 DEF Mutate, Unauthorized, done, what
<1>8. CASE PostWindow(r)
  BY <1>8 DEF PostWindow, Conclude, Goto
<1>9. CASE PostUrl(r)
  BY <1>9 DEF PostUrl, Conclude, Watch
<1>10. CASE FinalWindow(r)
  BY <1>10 DEF FinalWindow, Conclude
<1>11. CASE Scrub(r)
  BY <1>11 DEF Scrub, Goto
<1>12. CASE CloseBrowser(r)
  BY <1>12 DEF CloseBrowser, Goto
<1>13. CASE Release(r)
  BY <1>13 DEF Release, Counts, Refuse, Idle
<1>14. CASE RecordFailure(r) \/ Crash(r)
  BY <1>14 DEF RecordFailure, Crash, Refuse, Idle
<1>15. CASE PortalMoves(r)
  <2>1. CASE Cover(r)
    <3>1. /\ page'[r].under = 0 /\ page'[r].astray = page[r].astray
          /\ page'[r].at = page[r].at /\ page'[r].submitted = page[r].submitted
          /\ page'[r].covered = ~page[r].covered
      BY <2>1 DEF Cover
    <3>2. /\ run'[r].pc = run[r].pc /\ run'[r].outcome = run[r].outcome
          /\ run'[r].seen = (run[r].seen \/ ~page[r].covered)
      BY <2>1 DEF Cover
    <3>3. page'[r].covered => run'[r].seen
      BY <3>1, <3>2
    <3> QED
      BY <3>1, <3>2, <3>3
  <2>2. CASE Navigate(r)
    <3>1. UNCHANGED run
      BY <2>2 DEF Navigate
    <3>2. /\ page'[r].under = page[r].under /\ page'[r].covered = page[r].covered
          /\ page'[r].submitted = page[r].submitted
          /\ page'[r].astray = (IF page[r].at = "login" THEN 0 ELSE page[r].astray)
      BY <2>2 DEF Navigate
    <3> QED
      BY <3>1, <3>2
  <2> QED
    BY <1>15, <2>1, <2>2 DEF PortalMoves
<1> QED
  BY <1>1, <1>2, <1>3, <1>4, <1>5, <1>6, <1>7, <1>8, <1>9, <1>10, <1>11, <1>12, <1>13,
     <1>14, <1>15 DEF Progress

\* A run's steps leave the pages of the others alone.
LEMMA StepPages ==
  ASSUME TypeOK, NEW r \in Runs, NEW q \in Runs, q # r,
         Resolve(r) \/ Progress(r) \/ Crash(r) \/ PortalMoves(r)
  PROVE  page'[q] = page[q]
<1>1. page \in [Runs -> Pages]
  BY DEF TypeOK
<1> QED
  BY <1>1 DEF Progress, Resolve, Acquire, EnsureBrowser, GuardControls, GuardWindow, GuardUrl,
     Mutate, Unauthorized, PostWindow, PostUrl, FinalWindow, Scrub, CloseBrowser, Release, RecordFailure,
     Crash, PortalMoves, Cover, Navigate

LEMMA StepRuns ==
  ASSUME TypeOK, \A r \in Runs : RunInv(r), [Next]_vars PROVE (\A r \in Runs : RunInv(r))'
<1>1. ASSUME NEW r \in Runs, Resolve(r) \/ Progress(r) \/ Crash(r) \/ PortalMoves(r),
             NEW q \in Runs
      PROVE  RunInv(q)'
  <2>1. CASE q = r
    BY <1>1, <2>1, StepRun
  <2>2. CASE q # r
    <3>1. run'[q] = run[q] /\ page'[q] = page[q]
      BY <1>1, <2>2, LeaseSteps, StepPages DEF Others
    <3> QED
      BY <3>1 DEF RunInv
  <2> QED
    BY <2>1, <2>2
<1>2. CASE UNCHANGED <<run, page>>
  BY <1>2 DEF RunInv
<1> QED
  BY <1>1, <1>2 DEF Next, Clock, vars

-----------------------------------------------------------------------------
(* The cleanup's argument.                                                 *)

LEMMA FaultsGrow ==
  ASSUME TypeOK, [Next]_vars
  PROVE  /\ faults \in Nat
         /\ faults >= 1 => faults' >= 1
         /\ faults >= 2 => faults' >= 2
         /\ faults' = faults + 1 /\ faults >= 1 => faults' >= 2
         /\ faults' = faults + 1 => faults' >= 1
<1>1. faults \in Nat
  BY AutoLoginAssumption DEF TypeOK
<1>2. faults' = faults \/ faults' = faults + 1
  <2>1. ASSUME NEW r \in Runs, Resolve(r) \/ Progress(r) \/ Crash(r) \/ PortalMoves(r)
        PROVE  faults' = faults \/ faults' = faults + 1
    BY <2>1 DEF Progress, Resolve, Acquire, EnsureBrowser, GuardControls, GuardWindow, GuardUrl,
       Mutate, Unauthorized, PostWindow, PostUrl, FinalWindow, Scrub, CloseBrowser, Release,
       RecordFailure, Crash, PortalMoves, Fault, counts
  <2> QED
    BY <2>1 DEF Next, Clock, counts, vars
<1> QED
  BY <1>1, <1>2

LEMMA StepCleanup ==
  ASSUME TypeOK, NEW r \in Runs, RunInv(r), CleanupInv(r),
         Resolve(r) \/ Progress(r) \/ Crash(r) \/ PortalMoves(r)
  PROVE  CleanupInv(r)'
<1>0. /\ run \in [Runs -> RunStates] /\ run[r] \in RunStates
      /\ page \in [Runs -> Pages] /\ page[r] \in Pages
  BY DEF TypeOK
<1>G. /\ faults \in Nat
      /\ faults >= 1 => faults' >= 1
      /\ faults >= 2 => faults' >= 2
      /\ faults' = faults + 1 /\ faults >= 1 => faults' >= 2
      /\ faults' = faults + 1 => faults' >= 1
  <2>1. [Next]_vars
    BY DEF Next
  <2> QED
    BY <2>1, FaultsGrow
<1> USE <1>0, <1>G DEF CleanupInv, At, RunStates, Pages
<1>1. ASSUME Abort(r), page'[r].password => run[r].step # 1 PROVE CleanupInv(r)'
  BY <1>1 DEF Abort
<1>2. ASSUME NEW outcome, Conclude(r, outcome), page[r].submitted, UNCHANGED page
      PROVE  CleanupInv(r)'
  BY <1>2 DEF Conclude
<1>3. CASE Resolve(r)
  BY <1>3 DEF Resolve, Idle, NoPage, Refuse
<1>4. CASE Acquire(r)
  BY <1>4 DEF Acquire, Idle, Refuse
<1>5. CASE EnsureBrowser(r)
  <2>1. ASSUME NEW at \in Places, NEW covered \in BOOLEAN, Goto(r, "controls"),
               page' = [page EXCEPT ![r] = [NoPage EXCEPT !.open = TRUE, !.at = at, !.covered = covered]]
        PROVE  CleanupInv(r)'
    <3>1. page'[r] = [NoPage EXCEPT !.open = TRUE, !.at = at, !.covered = covered]
      BY <2>1
    <3>2. ~page'[r].password
      BY <3>1 DEF NoPage
    <3>3. run'[r].pc = "controls"
      BY <2>1 DEF Goto
    <3> QED
      BY <3>2, <3>3
  <2>2. ASSUME NEW outcome \in {"throttled", "needs_admin_action"}, UNCHANGED page,
               run' = [run EXCEPT ![r].pc = "release", ![r].outcome = outcome]
        PROVE  CleanupInv(r)'
    BY <1>5, <2>2 DEF EnsureBrowser
  <2> QED
    BY <1>5, <2>1, <2>2 DEF EnsureBrowser
<1>6. CASE GuardControls(r) \/ GuardWindow(r) \/ GuardUrl(r)
  <2>1. /\ UNCHANGED page /\ run[r].pc \in {"controls", "window", "url", "mutate"}
        /\ Watch(r, "window") \/ Goto(r, "url") \/ Goto(r, "mutate") \/ Abort(r)
    BY <1>6 DEF GuardControls, GuardWindow, GuardUrl
  <2>2. page'[r].password => run[r].step = 3
    BY <2>1
  <2> QED
    BY <1>1, <2>1, <2>2 DEF Watch, Goto
<1>7. CASE Mutate(r)
  <2> DEFINE what == Mutations[run[r].step]
             done == Mutated(page[r], what)
  <2>1. run[r].step \in {1, 2} => ~page[r].password
    BY <1>7 DEF Mutate
  <2>2. run[r].step = 1 => ~done.password
    <3> SUFFICES ASSUME run[r].step = 1 PROVE ~done.password
      OBVIOUS
    <3>1. what = "username"
      BY DEF Mutations
    <3> HIDE DEF what
    <3> QED
      BY <2>1, <3>1 DEF Mutated
  <2>3. run[r].step = 3 => done.submitted
    <3> SUFFICES ASSUME run[r].step = 3 PROVE done.submitted
      OBVIOUS
    <3>1. what = "submit"
      BY DEF Mutations
    <3> HIDE DEF what
    <3> QED
      BY <3>1 DEF Mutated
  <2> HIDE DEF done, what
  <2>4. page'[r] = done \/ page'[r] = page[r]
    BY <1>7 DEF Mutate, Unauthorized, done, what
  <2>5. CASE Abort(r)
    BY <1>1, <2>1, <2>2, <2>4, <2>5
  <2>6. CASE AfterMutation(r) /\ page' = [page EXCEPT ![r] = done]
    <3>1. page'[r] = done
      BY <2>6
    <3>2. CASE run[r].step = 3
      BY <2>6, <3>2 DEF AfterMutation, Watch
    <3>3. CASE run[r].step # 3
      <4>1. run'[r].pc = "controls" /\ run'[r].step = run[r].step + 1
        BY <2>6, <3>3 DEF AfterMutation
      <4>2. run[r].step = 1 \/ run[r].step = 2
        BY <3>3
      <4> QED
        BY <2>2, <3>1, <4>1, <4>2
    <3> QED
      BY <3>2, <3>3
  <2> QED
    BY <1>7, <2>5, <2>6 DEF Mutate, Unauthorized, done, what
<1>8. CASE PostWindow(r) \/ PostUrl(r) \/ FinalWindow(r)
  <2>1. page[r].submitted /\ UNCHANGED page
    BY <1>8 DEF PostWindow, PostUrl, FinalWindow, RunInv, Submitted
  <2>2. Watch(r, "finalWindow") \/ Goto(r, "postUrl") \/ \E outcome \in Outcomes : Conclude(r, outcome)
    BY <1>8 DEF PostWindow, PostUrl, FinalWindow, Outcomes
  <2> QED
    BY <1>2, <2>1, <2>2 DEF Watch, Goto
<1>9. CASE Scrub(r)
  <2>1. CASE At(r, "scrubPassword")
    <3>1. run'[r].pc = "scrubUsername"
      BY <1>9, <2>1 DEF Scrub, Goto
    <3>2. page'[r].password => faults' >= 1
      <4>1. CASE faults' = faults + 1
        BY <1>G, <4>1
      <4>2. CASE page' = [page EXCEPT ![r].password = @ /\ ~At(r, "scrubPassword"),
                                      ![r].username = @ /\ At(r, "scrubPassword")]
        BY <2>1, <4>2
      <4> QED
        BY <1>9, <4>1, <4>2 DEF Scrub, Fault
    <3> QED
      BY <3>1, <3>2
  <2>2. CASE At(r, "scrubUsername")
    <3>1. run'[r].pc = "close"
      BY <1>9, <2>2 DEF Scrub, Goto
    <3>2. /\ page'[r].submitted = page[r].submitted
          /\ page'[r].password => page[r].password
      <4>1. CASE UNCHANGED page
        BY <4>1
      <4>2. CASE page' = [page EXCEPT ![r].password = @ /\ ~At(r, "scrubPassword"),
                                      ![r].username = @ /\ At(r, "scrubPassword")]
        BY <4>2
      <4> QED
        BY <1>9, <4>1, <4>2 DEF Scrub
    <3> QED
      BY <1>G, <2>2, <3>1, <3>2, Zenon DEF CleanupInv, At
  <2> QED
    BY <1>9, <2>1, <2>2 DEF Scrub
<1>10. CASE CloseBrowser(r)
  <2>1. run'[r].pc = "release" /\ run[r].pc = "close"
    BY <1>10 DEF CloseBrowser, Goto
  <2>2. CASE faults' = faults + 1 /\ UNCHANGED page
    BY <1>G, <2>1, <2>2, Zenon DEF CleanupInv
  <2>3. CASE ~page'[r].open
    BY <2>1, <2>3
  <2> QED
    BY <1>10, <2>2, <2>3 DEF CloseBrowser, Fault
<1>11. CASE Release(r)
  BY <1>11 DEF Release, Refuse, Idle
<1>12. CASE RecordFailure(r) \/ Crash(r)
  BY <1>12 DEF RecordFailure, Crash, Refuse, Idle
<1>13. CASE PortalMoves(r)
  <2>1. page[r].open
    BY <1>13 DEF PortalMoves
  <2>2. /\ run'[r].pc = run[r].pc /\ run'[r].step = run[r].step
        /\ page'[r].submitted = page[r].submitted
        /\ page'[r].password => page[r].password
    <3>1. CASE Cover(r)
      BY <3>1 DEF Cover
    <3>2. CASE Navigate(r)
      BY <3>2 DEF Navigate
    <3> QED
      BY <1>13, <3>1, <3>2 DEF PortalMoves
  <2> QED
    BY <1>G, <2>1, <2>2, Zenon DEF CleanupInv
<1> QED
  BY <1>3, <1>4, <1>5, <1>6, <1>7, <1>8, <1>9, <1>10, <1>11, <1>12, <1>13 DEF Progress

LEMMA StepCleanups ==
  ASSUME TypeOK, \A r \in Runs : RunInv(r) /\ CleanupInv(r), [Next]_vars
  PROVE  (\A r \in Runs : CleanupInv(r))'
<1>0. (faults >= 1 => faults' >= 1) /\ (faults >= 2 => faults' >= 2)
  BY FaultsGrow
<1>1. ASSUME NEW r \in Runs, Resolve(r) \/ Progress(r) \/ Crash(r) \/ PortalMoves(r),
             NEW q \in Runs
      PROVE  CleanupInv(q)'
  <2>1. CASE q = r
    BY <1>1, <2>1, StepCleanup
  <2>2. CASE q # r
    <3>1. run'[q] = run[q] /\ page'[q] = page[q]
      BY <1>1, <2>2, LeaseSteps, StepPages DEF Others
    <3> QED
      BY <1>0, <3>1, Zenon DEF CleanupInv
  <2> QED
    BY <2>1, <2>2
<1>2. CASE UNCHANGED <<run, page>>
  BY <1>0, <1>2, Zenon DEF CleanupInv
<1> QED
  BY <1>1, <1>2 DEF Next, Clock, vars

LEMMA InvHolds == Spec => []IInv
<1>1. Init => IInv
  <2> SUFFICES ASSUME Init PROVE IInv
    OBVIOUS
  <2>1. TypeOK
    BY InitTypes
  <2>2. LeaseInv
    BY DEF Init, LockInit, LeaseInv, InSection, Idle
  <2>3. \A r \in Runs : RunInv(r)
    BY DEF Init, RunInv, Idle, NoPage, Windows, Submitted, Running
  <2>4. \A r \in Runs : CleanupInv(r)
    BY DEF Init, CleanupInv, Idle
  <2> QED
    BY <2>1, <2>2, <2>3, <2>4 DEF IInv
<1>2. IInv /\ [Next]_vars => IInv'
  BY StepTypes, StepLeases, StepRuns, StepCleanups DEF IInv, LeaseInv
<1> QED
  BY <1>1, <1>2, PTL DEF Spec

-----------------------------------------------------------------------------
(* The theorems.                                                           *)

\* The lock, the runs and their pages keep their types
\* (src/worker/scraper/auto-login.ts).
THEOREM TypeCorrect == Spec => []TypeOK
BY InvHolds, PTL DEF IInv

\* Two runs of one event are at work at once only after Redis ended the lease of
\* one of them, however many runs, crashes and failed commands there are
\* (src/modules/bank-auto-login-lock/redis-store.ts).
THEOREM RunsExclude == Spec => []OneRunAtATime
<1>1. IInv => OneRunAtATime
  BY DEF IInv, LeaseInv, OneRunAtATime
<1> QED
  BY <1>1, InvHolds, PTL

\* A lease that is over never owns the key again: releaseIfOwner and the
\* fencing counter tell it from every later one.
THEOREM LeasesEnd == Spec => StaleLeaseStaysOut
<1>1. ASSUME IInv, [Next]_vars
      PROVE  [\A r \in Runs : InSection(r) /\ run[r].lease # key => key' # run[r].lease]_vars
  <2> SUFFICES ASSUME NEW r \in Runs, InSection(r), run[r].lease # key PROVE key' # run[r].lease
    OBVIOUS
  <2>0. run[r].lease \in Nat /\ run[r].lease <= fence /\ fence \in Nat /\ run[r].lease # 0
    BY <1>1 DEF IInv, LeaseInv, TypeOK, LockTypeOK, RunStates, InSection
  <2>1. ASSUME NEW q \in Runs, Resolve(q) \/ Progress(q) \/ Crash(q) \/ PortalMoves(q)
        PROVE  key' # run[r].lease
    BY <1>1, <2>0, <2>1, LeaseSteps DEF IInv, AcquireSlot, ReleaseIfOwner, lockVars
  <2>2. CASE Clock
    BY <2>0, <2>2 DEF Clock, KeyTick
  <2>3. CASE UNCHANGED vars
    BY <2>3 DEF vars, lockVars
  <2> QED
    BY <1>1, <2>1, <2>2, <2>3 DEF Next
<1> QED
  BY <1>1, InvHolds, PTL DEF Spec, StaleLeaseStaysOut

\* A cover or a redirect is behind one mutation at most: the next guard, or the
\* observation after the submit, stops the run
\* (src/worker/scraper/login-mutation-guard.ts).
THEOREM BoundariesCatch == Spec => []NextBoundaryCatches
<1>1. IInv => NextBoundaryCatches
  BY DEF IInv, RunInv, NextBoundaryCatches
<1> QED
  BY <1>1, InvHolds, PTL

\* The circuit breaker counts only runs that pressed submit.
THEOREM BreakerHearsSubmits == Spec => []FailuresWereSubmitted
<1>1. IInv => FailuresWereSubmitted
  BY DEF IInv, RunInv, FailuresWereSubmitted, At
<1> QED
  BY <1>1, InvHolds, PTL

\* When a run gives its answer, a password it wrote and did not submit is left in
\* an open page only after two faults: scrubCredentialFields and browser.close each
\* take one (src/worker/scraper/auto-login.ts).
THEOREM PasswordsAreCleared == Spec => []PasswordsDoNotStay
<1>1. IInv => PasswordsDoNotStay
  BY DEF IInv, CleanupInv, PasswordsDoNotStay, At
<1> QED
  BY <1>1, InvHolds, PTL

\* A login counts as one that succeeded only with its form submitted and nothing
\* over the page: the last window it looked through is still good when it answers
\* (detectPostSubmitOutcome).
THEOREM SuccessesAreClear == Spec => SuccessIsClear
<1>1. ASSUME IInv, [Next]_vars
      PROVE  [\A r \in Runs : run'[r].outcome = "succeeded" /\ run[r].outcome = "none"
                => page[r].submitted /\ ~page[r].covered]_vars
  <2> SUFFICES ASSUME NEW r \in Runs, run'[r].outcome = "succeeded", run[r].outcome = "none"
               PROVE  page[r].submitted /\ ~page[r].covered
    OBVIOUS
  <2>0. run \in [Runs -> RunStates] /\ RunInv(r) /\ TypeOK
    BY <1>1 DEF IInv, TypeOK
  <2>1. ASSUME NEW q \in Runs, Resolve(q) \/ Progress(q) \/ Crash(q) \/ PortalMoves(q)
        PROVE  page[r].submitted /\ ~page[r].covered
    <3>1. q = r
      BY <2>0, <2>1, LeaseSteps DEF Others
    <3>3. \A pc : Goto(r, pc) \/ Watch(r, pc) => run'[r].outcome = "none"
      BY <2>0 DEF Goto, Watch, RunStates
    <3>4. Abort(r) \/ Refuse(r, run[r].outcome) => run'[r].outcome # "succeeded"
      BY <2>0 DEF Abort, Refuse, Idle, RunStates
    <3>5. \A outcome : Refuse(r, outcome) \/ Conclude(r, outcome) => run'[r].outcome = outcome
      BY <2>0 DEF Refuse, Conclude, Idle, RunStates
    <3>2. CASE FinalWindow(r)
      <4>1. run[r].pc = "finalWindow"
        BY <3>2 DEF FinalWindow, At
      <4>2. ~run[r].seen
        BY <3>2, <3>5 DEF FinalWindow
      <4> QED
        BY <2>0, <4>1, <4>2, Zenon DEF RunInv, Windows, Submitted
    <3>6. CASE Resolve(r) \/ Crash(r) \/ PortalMoves(r)
      <4>1. run'[r].outcome = "none" \/ \E outcome \in Outcomes \ {"succeeded"} : Refuse(r, outcome)
        <5>1. CASE Resolve(r)
          BY <2>0, <5>1 DEF Resolve, Idle, Outcomes
        <5>2. CASE Crash(r)
          BY <5>2 DEF Crash, Outcomes
        <5>3. CASE PortalMoves(r)
          <6>1. CASE Cover(r)
            BY <2>0, <6>1 DEF Cover, RunStates
          <6>2. CASE Navigate(r)
            BY <6>2 DEF Navigate
          <6> QED
            BY <5>3, <6>1, <6>2 DEF PortalMoves
        <5> QED
          BY <3>6, <5>1, <5>2, <5>3
      <4> QED
        BY <3>5, <4>1
    <3>7. CASE Acquire(r) \/ EnsureBrowser(r)
      <4>1. \/ run'[r].outcome \in {"none", "throttled", "needs_admin_action"}
            \/ Refuse(r, "manual_required")
        <5>1. CASE Acquire(r)
          BY <2>0, <5>1 DEF Acquire, RunStates
        <5>2. CASE EnsureBrowser(r)
          BY <2>0, <3>3, <5>2 DEF EnsureBrowser, RunStates
        <5> QED
          BY <3>7, <5>1, <5>2
      <4> QED
        BY <3>5, <4>1
    <3>8. CASE Release(r) \/ RecordFailure(r)
      BY <2>0, <3>4, <3>8 DEF Release, RecordFailure, RunStates
    <3>9. CASE GuardControls(r) \/ GuardWindow(r) \/ GuardUrl(r)
      BY <3>3, <3>4, <3>9 DEF GuardControls, GuardWindow, GuardUrl
    <3>10. CASE Mutate(r)
      <4>1. AfterMutation(r) \/ Abort(r)
        BY <3>10 DEF Mutate, Unauthorized
      <4>2. AfterMutation(r) => run'[r].outcome = "none"
        BY <2>0, <3>3 DEF AfterMutation, RunStates
      <4> QED
        BY <3>4, <4>1, <4>2
    <3>11. CASE PostWindow(r) \/ PostUrl(r)
      BY <3>3, <3>5, <3>11 DEF PostWindow, PostUrl
    <3>12. CASE Scrub(r) \/ CloseBrowser(r)
      BY <3>3, <3>12 DEF Scrub, CloseBrowser
    <3> QED
      BY <2>1, <3>1, <3>2, <3>6, <3>7, <3>8, <3>9, <3>10, <3>11, <3>12 DEF Progress
  <2>2. CASE Clock \/ UNCHANGED vars
    BY <2>2 DEF Clock, vars
  <2> QED
    BY <1>1, <2>1, <2>2 DEF Next
<1> QED
  BY <1>1, InvHolds, PTL DEF Spec, SuccessIsClear
=============================================================================
