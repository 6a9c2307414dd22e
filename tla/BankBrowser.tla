----------------------------- MODULE BankBrowser -----------------------------
(***************************************************************************)
(* The browser of one bank, which nobody starts twice: ensureCdpBrowser    *)
(* (src/worker/scraper/browser-runtime.ts) in the process that scrapes,    *)
(* and scripts/launch-bank-browser.sh, run by it or by an operator.        *)
(*                                                                         *)
(* A script takes the launch lock with "exec 9>...; flock 9" and starts    *)
(* the browser as its child: the child inherits the descriptor, so the     *)
(* lock is free again when script AND browser are gone.  A browser is      *)
(* named by the script that started it.  The CDP endpoint is loopback and  *)
(* well-formed.                                                            *)
(***************************************************************************)
EXTENDS Naturals, FiniteSets

CONSTANTS Callers,     \* calls of ensureCdpBrowser that may run at the same time
          Launchers,   \* scripts that may run, and browsers that may live, at once
          None

ASSUME BrowserAssumption == None \notin Callers

VARIABLES flock,       \* the flock command is installed
          launcher,    \* the scripts
          browser,     \* the browser each of them started
          inflight,    \* inflightLaunches: the call that works for the others
          ensure       \* per call, where it is and what it was told

browserVars == <<flock, launcher, browser, inflight, ensure>>

Told == {"ok", "failed"}

BrowserTypeOK ==
  /\ flock \in BOOLEAN
  /\ launcher \in [Launchers -> {"idle", "lock", "recheck"}]
  /\ browser \in [Launchers -> {"none", "starting", "up"}]
  /\ inflight \in Callers \cup {None}
  /\ ensure \in [Callers -> {"idle", "check", "poll", "join"} \cup Told]

BrowserInit ==
  /\ flock \in BOOLEAN
  /\ launcher = [l \in Launchers |-> "idle"]
  /\ browser = [l \in Launchers |-> "none"]
  /\ inflight = None
  /\ ensure = [c \in Callers |-> "idle"]

\* isCdpAvailable, cdpAlive: somebody answers on the endpoint.
CdpAvailable == \E l \in Launchers : browser[l] = "up"

Alive == {l \in Launchers : browser[l] # "none"}

-----------------------------------------------------------------------------
(* The script.                                                             *)

\* The lock ends with the script.
LockIsHeld_Bug == \E l \in Launchers : launcher[l] = "recheck"

\* The open file description of the lock is shared by a script and its browser.
LockIsHeld == \E l \in Launchers : launcher[l] = "recheck" \/ browser[l] # "none"

Free(l) == launcher[l] = "idle" /\ browser[l] = "none"

\* A script that does not stop at its fast check, which takes no lock.
Script(l) ==
  /\ Free(l) /\ ~CdpAvailable
  /\ launcher' = [launcher EXCEPT ![l] = "lock"]

\* An operator runs the script.
RunScript(l) == Script(l) /\ UNCHANGED <<flock, browser, inflight, ensure>>

\* acquireLaunchLock: without flock the script warns and goes on.
AcquireLaunchLock(l) ==
  /\ launcher[l] = "lock"
  /\ flock => ~LockIsHeld
  /\ launcher' = [launcher EXCEPT ![l] = "recheck"]
  /\ UNCHANGED <<flock, browser, inflight, ensure>>

\* The second look at CDP, and the launch; no browser may be installed.
Launch(l) ==
  /\ launcher[l] = "recheck"
  /\ launcher' = [launcher EXCEPT ![l] = "idle"]
  /\ \/ UNCHANGED browser
     \/ ~CdpAvailable /\ browser' = [browser EXCEPT ![l] = "starting"]
  /\ UNCHANGED <<flock, inflight, ensure>>

\* The browser opens its debug port.
CdpOpens(l) ==
  /\ browser[l] = "starting"
  /\ browser' = [browser EXCEPT ![l] = "up"]
  /\ UNCHANGED <<flock, launcher, inflight, ensure>>

\* Closed by hand, or crashed.
BrowserExits(l) ==
  /\ browser[l] # "none"
  /\ browser' = [browser EXCEPT ![l] = "none"]
  /\ UNCHANGED <<flock, launcher, inflight, ensure>>

-----------------------------------------------------------------------------
(* ensureCdpBrowser.                                                       *)

\* A call joins the launch that is in flight, or makes the next one.
EnsureCdpBrowser(c) ==
  /\ ensure[c] = "idle"
  /\ ensure' = [ensure EXCEPT ![c] = IF inflight = None THEN "check" ELSE "join"]
  /\ inflight' = IF inflight = None THEN c ELSE inflight
  /\ UNCHANGED <<flock, launcher, browser>>

Joined(c) == {d \in Callers : d = c \/ ensure[d] = "join"}

\* The promise settles for everybody who waits on it, and leaves the map.
Settle(c, answer) ==
  /\ ensure' = [d \in Callers |-> IF d \in Joined(c) THEN answer ELSE ensure[d]]
  /\ inflight' = None

\* runEnsureCdpBrowser: one look, then the script, or a safe failure: no launch
\* command, or one that cannot be run.  Scripts beyond the bound are not followed.
Check(c) ==
  /\ ensure[c] = "check"
  /\ \/ CdpAvailable /\ Settle(c, "ok") /\ UNCHANGED launcher
     \/ ~CdpAvailable /\ Settle(c, "failed") /\ UNCHANGED launcher
     \/ /\ ~CdpAvailable
        /\ (\E l \in Launchers : Script(l))
           \/ (~(\E l \in Launchers : Free(l)) /\ UNCHANGED launcher)
        /\ ensure' = [ensure EXCEPT ![c] = "poll"]
        /\ UNCHANGED inflight
  /\ UNCHANGED <<flock, browser>>

\* A poll that finds the endpoint, or readyTimeoutMs.
Poll(c) ==
  /\ ensure[c] = "poll"
  /\ (CdpAvailable /\ Settle(c, "ok")) \/ Settle(c, "failed")
  /\ UNCHANGED <<flock, launcher, browser>>

-----------------------------------------------------------------------------
(* Properties.                                                             *)

\* However many calls, operators and slow starts meet, the profile of a bank
\* never has two browsers at once, as long as flock is installed: the lock has
\* to last until the endpoint answers, not until the script ends.
OneBrowser == flock => Cardinality(Alive) <= 1
=============================================================================
