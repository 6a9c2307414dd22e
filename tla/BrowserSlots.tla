----------------------------- MODULE BrowserSlots ----------------------------
(***************************************************************************)
(* The browser slots of one process: BrowserSemaphore of                   *)
(* src/worker/scraper/browser-runtime.ts, the capacity monitor that        *)
(* samples it (src/modules/observability/browser-capacity-monitor.ts), and *)
(* the two users of a slot, the scraper of navigation/popular-cdp.ts and   *)
(* the page opener of the auto-login (auto-login.ts), with auto-launch on. *)
(*                                                                         *)
(* The scraper lets go of its slot last, the auto-login first; a page      *)
(* whose setup timed out may still be on its way by then.  A close that    *)
(* fails or takes too long is recorded or ignored, and the page stays.  An *)
(* acquire that is throttled at once changes nothing and is left out.      *)
(***************************************************************************)
EXTENDS BankBrowser, Sequences, SequencesExt

CONSTANTS Logins,      \* the callers that are auto-logins; the others scrape
          MaxSlots,    \* RD_SYNC_BANK_BROWSER_MAX_CONCURRENCY
          QueueLimit,  \* RD_SYNC_BANK_BROWSER_QUEUE_LIMIT
          Threshold,   \* max * queueDepthMultiplier
          Sustain      \* sustainedThresholdMs, in ticks of the monitor

ASSUME SlotsAssumption ==
  /\ Logins \subseteq Callers /\ IsFiniteSet(Callers)
  /\ {MaxSlots, QueueLimit, Threshold, Sustain} \subseteq Nat

VARIABLES active,      \* activeCount
          waiting,     \* queue
          call,        \* the callers
          monitor,     \* overThresholdSinceMs and alertedForCurrentEpisode
          crowded      \* history: samples in a row that were over the threshold

slotVars == <<active, waiting>>
vars == <<browserVars, slotVars, call, monitor, crowded>>

Calls ==
  [pc   : {"idle", "waiting", "ensure", "setup", "work", "close", "closing"},
   slot : BOOLEAN,        \* it has a handle it did not release
   page : {"none", "creating", "loading", "open", "stray"},   \* stray: left open
   late : BOOLEAN]        \* setupAbandoned, and its newPage still under way
Monitors == [over : 0..Sustain + 1, alerted : BOOLEAN]   \* over = 0: null

TypeOK ==
  /\ BrowserTypeOK
  /\ active \in 0..MaxSlots /\ waiting \in Seq(Callers)
  /\ call \in [Callers -> Calls]
  /\ monitor \in Monitors /\ crowded \in 0..Sustain + 1

Idle == [pc |-> "idle", slot |-> FALSE, page |-> "none", late |-> FALSE]

Init ==
  /\ BrowserInit
  /\ active = 0 /\ waiting = <<>>
  /\ call = [c \in Callers |-> Idle]
  /\ monitor = [over |-> 0, alerted |-> FALSE] /\ crowded = 0

At(c, pc) == call[c].pc = pc
Goto(c, pc) == call' = [call EXCEPT ![c].pc = pc]
Unwatched == UNCHANGED <<monitor, crowded>>
CallOnly == UNCHANGED <<browserVars, slotVars, monitor, crowded>>

-----------------------------------------------------------------------------
(* BrowserSemaphore.                                                       *)

\* acquire: a slot, or a place in the queue.  A new call has no page.
Acquire(c) ==
  /\ At(c, "idle") /\ ~call[c].late
  /\ IF active < MaxSlots
     THEN /\ active' = active + 1
          /\ call' = [call EXCEPT ![c] = [Idle EXCEPT !.pc = "ensure", !.slot = TRUE]]
          /\ UNCHANGED waiting
     ELSE /\ MaxSlots > 0 /\ Len(waiting) < QueueLimit
          /\ waiting' = Append(waiting, c)
          /\ call' = [call EXCEPT ![c] = [Idle EXCEPT !.pc = "waiting"]]
          /\ UNCHANGED active
  /\ UNCHANGED browserVars /\ Unwatched

\* The timer of a waiter, which is spliced out of the queue: throttled.
AcquireTimeout(c) ==
  /\ At(c, "waiting")
  /\ \E i \in DOMAIN waiting : waiting[i] = c /\ waiting' = RemoveAt(waiting, i)
  /\ Goto(c, "idle")
  /\ UNCHANGED active /\ UNCHANGED browserVars /\ Unwatched

\* The slot is handed over and given back as well.
ReleaseSlot_Bug(c, row) ==
  LET rest == [call EXCEPT ![c] = row]
      next == Head(waiting)
  IN
  /\ active' = active - 1
  /\ IF waiting = <<>>
     THEN call' = rest /\ UNCHANGED waiting
     ELSE /\ call' = [rest EXCEPT ![next].pc = "ensure", ![next].slot = TRUE]
          /\ waiting' = Tail(waiting)

\* releaseSlot: the first in the queue takes the slot over, else it is free.
ReleaseSlot(c, row) ==
  LET rest == [call EXCEPT ![c] = row]
      next == Head(waiting)
  IN
  IF waiting = <<>>
  THEN active' = active - 1 /\ call' = rest /\ UNCHANGED waiting
  ELSE /\ call' = [rest EXCEPT ![next].pc = "ensure", ![next].slot = TRUE]
       /\ waiting' = Tail(waiting)
       /\ UNCHANGED active

-----------------------------------------------------------------------------
(* Between a slot and its release.                                         *)

\* ensureBrowser, ensureBrowserRuntime.
EnsureBrowser(c) ==
  /\ At(c, "ensure")
  /\ EnsureCdpBrowser(c) \/ Check(c) \/ Poll(c)
  /\ UNCHANGED <<slotVars, call>> /\ Unwatched

\* connect and newPage, of which either may throw; a failed check ends the call.
Connect(c) ==
  \/ /\ ensure[c] = "ok" /\ CdpAvailable
     /\ call' = IF c \in Logins
                THEN [call EXCEPT ![c].pc = "setup", ![c].page = "creating"]
                ELSE [call EXCEPT ![c].pc = "work", ![c].page = "open"]
  \/ Goto(c, "close")

Ensured(c) ==
  /\ At(c, "ensure") /\ ensure[c] \in Told
  /\ Connect(c)
  /\ ensure' = [ensure EXCEPT ![c] = "idle"]
  /\ UNCHANGED <<flock, launcher, browser, inflight, slotVars>> /\ Unwatched

\* page.close ends in time, or it fails or hangs and the page stays open.
Left == {"none", "stray"}

\* A late page is not closed.
PageCreated_Bug(c) ==
  /\ call[c].page = "creating"
  /\ call' = [call EXCEPT ![c].page = "loading", ![c].late = FALSE]
  /\ CallOnly

\* openTrustedLoginPage: a page nobody waits for is closed, bounded.
PageCreated(c) ==
  /\ call[c].page = "creating"
  /\ IF call[c].late
     THEN \E page \in Left : call' = [call EXCEPT ![c].page = page, ![c].late = FALSE]
     ELSE call' = [call EXCEPT ![c].page = "loading"]
  /\ CallOnly

\* goto has brought the page to the login URL; the setup owns it no more.
PageLoaded(c) ==
  /\ At(c, "setup") /\ call[c].page = "loading"
  /\ call' = [call EXCEPT ![c].pc = "work", ![c].page = "open"]
  /\ CallOnly

\* newPage or goto throws: a page that is there is closed.
PageFails(c) ==
  /\ At(c, "setup")
  /\ \E page \in Left : call' = [call EXCEPT ![c].pc = "close", ![c].page = page]
  /\ CallOnly

\* The timer starts with the page, not with its creation.
SetupTimeout_Bug(c) ==
  /\ At(c, "setup") /\ call[c].page = "loading"
  /\ \E page \in Left : call' = [call EXCEPT ![c].pc = "close", ![c].page = page]
  /\ CallOnly

\* pageSetupTimeoutMs: a page that is loading is closed, one that is still to
\* be created is left to PageCreated.
SetupTimeout(c) ==
  /\ At(c, "setup")
  /\ IF call[c].page = "creating"
     THEN call' = [call EXCEPT ![c].pc = "close", ![c].late = TRUE]
     ELSE \E page \in Left : call' = [call EXCEPT ![c].pc = "close", ![c].page = page]
  /\ CallOnly

\* The portal is read, or the credentials are written; either may throw.
Work(c) == At(c, "work") /\ Goto(c, "close") /\ CallOnly

\* What becomes of the page of a call that ends; one that is late is not its own.
Ends(c) == IF call[c].page = "open" THEN Left ELSE {call[c].page}

\* The scraper closes the page and the connection, then releases;
\* closeAutoLoginBrowserResources releases, then closes the page and the connection.
Close(c) ==
  /\ At(c, "close")
  /\ IF c \in Logins
     THEN ReleaseSlot(c, [call[c] EXCEPT !.pc = "closing", !.slot = FALSE])
     ELSE /\ \E page \in Ends(c) : call' = [call EXCEPT ![c].pc = "closing", ![c].page = page]
          /\ UNCHANGED slotVars
  /\ UNCHANGED browserVars /\ Unwatched

\* A newPage that is under way fails with the connection, its page there or not;
\* it goes on if the close of the connection fails or hangs.
Closing(c) ==
  /\ At(c, "closing")
  /\ IF c \in Logins
     THEN /\ \/ \E page \in Ends(c) : call' = [call EXCEPT ![c].pc = "idle", ![c].page = page]
             \/ /\ call[c].late
                /\ \E page \in Left : call' = [call EXCEPT ![c] = [Idle EXCEPT !.page = page]]
          /\ UNCHANGED slotVars
     ELSE ReleaseSlot(c, Idle)
  /\ UNCHANGED browserVars /\ Unwatched

-----------------------------------------------------------------------------
(* The capacity monitor.                                                   *)

Over == MaxSlots > 0 /\ Len(waiting) > Threshold
Later(n) == IF n <= Sustain THEN n + 1 ELSE n

\* A sample under the threshold does not restart the window.
Sampled_Bug == IF Over THEN Later(monitor.over) ELSE monitor.over

\* overThresholdSinceMs, as the time that has passed.
Sampled == IF Over THEN Later(monitor.over) ELSE 0

\* tick: one alert when the queue has been long for long enough, one when it no
\* longer is.
Tick ==
  /\ monitor' = [over |-> Sampled,
                 alerted |-> Over /\ (monitor.alerted \/ Sampled > Sustain)]
  /\ crowded' = IF Over THEN Later(crowded) ELSE 0
  /\ UNCHANGED <<browserVars, slotVars, call>>

-----------------------------------------------------------------------------
Host(l) ==
  /\ RunScript(l) \/ AcquireLaunchLock(l) \/ Launch(l) \/ CdpOpens(l) \/ BrowserExits(l)
  /\ UNCHANGED <<slotVars, call>> /\ Unwatched

Progress(c) ==
  \/ AcquireTimeout(c) \/ EnsureBrowser(c) \/ Ensured(c)
  \/ PageLoaded(c) \/ PageFails(c) \/ SetupTimeout(c)
  \/ PageCreated(c) \/ Work(c) \/ Close(c) \/ Closing(c)

Next ==
  \/ \E c \in Callers : Acquire(c) \/ Progress(c)
  \/ \E l \in Launchers : Host(l)
  \/ Tick

Spec == Init /\ [][Next]_vars

\* The steps that a timer enforces: the end of the wait for a slot and the polls of
\* the browser for every caller; for a login also the connect and the actions on its
\* page (30 s of Playwright), the end of its setup and each of its cleanups.  newPage
\* has no timer, and neither have evaluate and the two closes of the scraper: a
\* scraper owes nothing once its browser is up.
Bounded(c) ==
  \/ AcquireTimeout(c) \/ EnsureBrowser(c)
  \/ /\ c \in Logins
     /\ Ensured(c) \/ SetupTimeout(c) \/ Work(c) \/ Close(c) \/ Closing(c)

\* Nothing is assumed of the browser, of the scripts or of the next caller.
FairSpec == Spec /\ \A c \in Callers : WF_vars(Bounded(c))

-----------------------------------------------------------------------------
(* Properties.                                                             *)

\* However releases, hand-overs and timers of waiters meet, every slot is either
\* free or with one call that will release it, nobody waits while a slot is
\* free, and nobody waits who has stopped waiting.
SlotsAreExact ==
  /\ active = Cardinality({c \in Callers : call[c].slot}) /\ active <= MaxSlots
  /\ waiting # <<>> => active = MaxSlots
  /\ {waiting[i] : i \in DOMAIN waiting} = {c \in Callers : At(c, "waiting")}
  /\ Len(waiting) = Cardinality({c \in Callers : At(c, "waiting")})

\* A page that is loading or open belongs to a call that is still to close it,
\* whenever it comes and whatever timed out or failed before, so that a page stays
\* behind only where a close was tried and failed or the connection was gone.
PagesHaveAnOwner ==
  \A c \in Callers :
    /\ call[c].page = "loading" => At(c, "setup")
    /\ call[c].page = "open" =>
         \/ At(c, "work") \/ At(c, "close")
         \/ At(c, "closing") /\ c \in Logins
    /\ call[c].page = "creating" /\ ~At(c, "setup") => call[c].late

\* Every login comes to its end, and so gives its slot back, although the page it
\* asks for may never be created, a close may hang, a scraper may keep its slot or
\* the browser both of them wait for may not come.
LoginsComeBack == \A c \in Logins : ~At(c, "idle") ~> At(c, "idle")

\* The monitor is alerted exactly while the queue has been too long at each of
\* its last samples for the sustained time.
AlertsMatchSpells == monitor.alerted <=> crowded > Sustain
=============================================================================
