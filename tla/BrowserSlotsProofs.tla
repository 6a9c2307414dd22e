-------------------------- MODULE BrowserSlotsProofs --------------------------
(***************************************************************************)
(* BrowserSlots, for any number of callers, slots and places in the queue, *)
(* and BankBrowser under it, for any number of scripts.  Three arguments:  *)
(* the lock's, that script and browser share one description of it         *)
(* (LockInv), the semaphore's, that a slot is with whoever is on the way   *)
(* from an acquire to its release (SlotInv), and the monitor's.            *)
(***************************************************************************)
EXTENDS BrowserSlots, TLAPS, FiniteSetTheorems, SequenceTheorems

\* The scripts and browsers that keep the launch lock.
Holds(l) == launcher[l] = "recheck" \/ browser[l] # "none"

LockInv == flock => \A k, l \in Launchers : Holds(k) /\ Holds(l) => k = l

\* Where a call has a slot: the auto-login gives it back before its page is
\* closed, the scraper after.
Keeps(c, pc) ==
  \/ pc \in {"ensure", "setup", "work", "close"}
  \/ pc = "closing" /\ c \notin Logins

Slotted == {c \in Callers : call[c].slot}
Waiters == {c \in Callers : At(c, "waiting")}

SlotInv ==
  /\ \A c \in Callers : call[c].slot <=> Keeps(c, call[c].pc)
  /\ active = Cardinality(Slotted)
  /\ waiting # <<>> => active = MaxSlots
  /\ IsInjective(waiting) /\ Range(waiting) = Waiters

MonitorInv == monitor.over = crowded /\ (monitor.alerted <=> crowded > Sustain)

IInv == TypeOK /\ LockInv /\ SlotInv /\ MonitorInv
-----------------------------------------------------------------------------
(* The browser of the bank.                                                *)

\* What the environment and a call do to the variables of BankBrowser.
BrowserStep ==
  \/ \E l \in Launchers :
       RunScript(l) \/ AcquireLaunchLock(l) \/ Launch(l) \/ CdpOpens(l) \/ BrowserExits(l)
  \/ \E c \in Callers : EnsureCdpBrowser(c) \/ Check(c) \/ Poll(c)
  \/ /\ UNCHANGED <<flock, launcher, browser, inflight>>
     /\ \E c \in Callers : ensure' = [ensure EXCEPT ![c] = "idle"]
  \/ UNCHANGED browserVars

LEMMA BrowserInitTypes == BrowserInit => BrowserTypeOK
BY DEF BrowserInit, BrowserTypeOK

LEMMA SettleTypes ==
  ASSUME BrowserTypeOK, NEW c \in Callers, NEW answer \in Told, Settle(c, answer)
  PROVE  /\ ensure' \in [Callers -> {"idle", "check", "poll", "join"} \cup Told]
         /\ inflight' \in Callers \cup {None}
BY DEF BrowserTypeOK, Settle, Told

LEMMA CheckTypes ==
  ASSUME BrowserTypeOK, NEW c \in Callers, Check(c) \/ Poll(c) PROVE BrowserTypeOK'
<1>0. "ok" \in Told /\ "failed" \in Told
  BY DEF Told
<1>1. CASE Poll(c)
  <2>1. Settle(c, "ok") \/ Settle(c, "failed")
    BY <1>1 DEF Poll
  <2>2. UNCHANGED <<flock, launcher, browser>>
    BY <1>1 DEF Poll
  <2> QED
    BY <1>0, <2>1, <2>2, SettleTypes DEF BrowserTypeOK
<1>2. CASE Check(c)
  <2>0. UNCHANGED <<flock, browser>>
    BY <1>2 DEF Check
  <2>1. CASE (Settle(c, "ok") \/ Settle(c, "failed")) /\ UNCHANGED launcher
    BY <1>0, <2>0, <2>1, SettleTypes DEF BrowserTypeOK
  <2>2. CASE /\ (\E l \in Launchers : Script(l)) \/ UNCHANGED launcher
             /\ ensure' = [ensure EXCEPT ![c] = "poll"]
             /\ UNCHANGED inflight
    <3>1. launcher' \in [Launchers -> {"idle", "lock", "recheck"}]
      BY <2>2 DEF BrowserTypeOK, Script
    <3> QED
      BY <2>0, <2>2, <3>1 DEF BrowserTypeOK
  <2> QED
    BY <1>2, <2>1, <2>2 DEF Check
<1> QED
  BY <1>1, <1>2

LEMMA BrowserTypes ==
  ASSUME BrowserTypeOK, BrowserStep PROVE BrowserTypeOK'
<1>1. ASSUME NEW l \in Launchers,
             RunScript(l) \/ AcquireLaunchLock(l) \/ Launch(l) \/ CdpOpens(l) \/ BrowserExits(l)
      PROVE  BrowserTypeOK'
  BY <1>1 DEF BrowserTypeOK, RunScript, Script, AcquireLaunchLock, Launch, CdpOpens, BrowserExits
<1>2. ASSUME NEW c \in Callers, EnsureCdpBrowser(c) PROVE BrowserTypeOK'
  BY <1>2 DEF BrowserTypeOK, EnsureCdpBrowser
<1>3. ASSUME UNCHANGED <<flock, launcher, browser, inflight>>, NEW c \in Callers,
             ensure' = [ensure EXCEPT ![c] = "idle"]
      PROVE  BrowserTypeOK'
  BY <1>3 DEF BrowserTypeOK
<1>4. ASSUME UNCHANGED browserVars PROVE BrowserTypeOK'
  BY <1>4 DEF BrowserTypeOK, browserVars
<1> QED
  BY <1>1, <1>2, <1>3, <1>4, CheckTypes DEF BrowserStep

\* A script comes to hold the lock only when nobody does; a browser holds it
\* only in the place of the script that started it.
LEMMA LockKept ==
  ASSUME BrowserTypeOK, LockInv, BrowserStep PROVE LockInv'
<1> USE DEF BrowserTypeOK
<1>0. ASSUME \A l \in Launchers : Holds(l)' => Holds(l), UNCHANGED flock PROVE LockInv'
  BY <1>0 DEF LockInv
<1>1. ASSUME NEW l \in Launchers, AcquireLaunchLock(l) PROVE LockInv'
  <2>1. flock => \A k \in Launchers : ~Holds(k)
    BY <1>1 DEF AcquireLaunchLock, LockIsHeld, Holds
  <2>2. \A k \in Launchers : Holds(k)' => Holds(k) \/ k = l
    BY <1>1 DEF AcquireLaunchLock, Holds
  <2>3. UNCHANGED flock
    BY <1>1 DEF AcquireLaunchLock
  <2> QED
    BY <2>1, <2>2, <2>3 DEF LockInv
<1>2. ASSUME NEW l \in Launchers, Script(l), UNCHANGED <<flock, browser>> PROVE LockInv'
  BY <1>0, <1>2 DEF Script, Holds
<1>3. ASSUME NEW l \in Launchers, RunScript(l) PROVE LockInv'
  BY <1>2, <1>3 DEF RunScript
<1>4. ASSUME NEW l \in Launchers, Launch(l) \/ CdpOpens(l) \/ BrowserExits(l) PROVE LockInv'
  <2>1. \A k \in Launchers : Holds(k)' => Holds(k)
    BY <1>4 DEF Launch, CdpOpens, BrowserExits, Holds
  <2>2. UNCHANGED flock
    BY <1>4 DEF Launch, CdpOpens, BrowserExits
  <2> QED
    BY <1>0, <2>1, <2>2
<1>5. ASSUME UNCHANGED <<flock, launcher, browser>> PROVE LockInv'
  BY <1>0, <1>5 DEF Holds
<1>6. ASSUME NEW c \in Callers, Check(c) PROVE LockInv'
  BY <1>2, <1>5, <1>6 DEF Check
<1>7. ASSUME NEW c \in Callers, EnsureCdpBrowser(c) \/ Poll(c) PROVE LockInv'
  BY <1>5, <1>7 DEF EnsureCdpBrowser, Poll
<1>8. ASSUME UNCHANGED browserVars PROVE LockInv'
  BY <1>5, <1>8 DEF browserVars
<1> QED
  BY <1>1, <1>3, <1>4, <1>5, <1>6, <1>7, <1>8 DEF BrowserStep

\* Two browsers are two holders.
LEMMA LockMeansOneBrowser == LockInv => OneBrowser
<1> SUFFICES ASSUME LockInv, flock PROVE Cardinality(Alive) <= 1
  BY DEF OneBrowser
<1>1. \A k, l \in Alive : k = l
  BY DEF LockInv, Alive, Holds
<1>2. CASE Alive = {}
  BY <1>2, FS_EmptySet
<1>3. CASE Alive # {}
  <2>1. PICK l : l \in Alive
    BY <1>3
  <2>2. Alive = {l}
    BY <1>1, <2>1
  <2> QED
    BY <2>2, FS_Singleton
<1> QED
  BY <1>2, <1>3
-----------------------------------------------------------------------------
(* Queues: sequences without repetitions.                                  *)

LEMMA AppendToQueue ==
  ASSUME NEW S, NEW q \in Seq(S), NEW x \in S, IsInjective(q), x \notin Range(q)
  PROVE  /\ Append(q, x) \in Seq(S) /\ IsInjective(Append(q, x))
         /\ Range(Append(q, x)) = Range(q) \cup {x}
<1> DEFINE r == Append(q, x)
<1>1. /\ r \in Seq(S) /\ Len(r) = Len(q) + 1 /\ r[Len(q) + 1] = x
      /\ \A i \in 1..Len(q) : r[i] = q[i]
  BY AppendProperties
<1>2. DOMAIN r = 1..Len(r) /\ DOMAIN q = 1..Len(q) /\ Len(q) \in Nat
  BY <1>1, LenProperties
<1> HIDE DEF r
<1>3. IsInjective(r)
  BY <1>1, <1>2 DEF IsInjective, Range
<1>4. Range(r) = Range(q) \cup {x}
  BY <1>1, <1>2 DEF Range
<1> QED
  BY <1>1, <1>3, <1>4 DEF r

LEMMA TailOfQueue ==
  ASSUME NEW S, NEW q \in Seq(S), q # <<>>, IsInjective(q)
  PROVE  /\ Head(q) \in Range(q)
         /\ Tail(q) \in Seq(S) /\ IsInjective(Tail(q))
         /\ Range(Tail(q)) = Range(q) \ {Head(q)}
<1> DEFINE r == Tail(q)
<1>1. /\ r \in Seq(S) /\ Len(r) = Len(q) - 1
      /\ \A i \in 1..Len(r) : r[i] = q[i + 1]
  BY HeadTailProperties
<1>2. Head(q) = q[1] /\ Len(q) \in Nat \ {0}
  BY EmptySeq
<1>3. DOMAIN r = 1..Len(r) /\ DOMAIN q = 1..Len(q)
  BY <1>1, LenProperties
<1> HIDE DEF r
<1>4. IsInjective(r)
  BY <1>1, <1>2, <1>3 DEF IsInjective
<1>5. Range(r) \subseteq Range(q) \ {q[1]}
  <2>1. ASSUME NEW i \in DOMAIN r PROVE r[i] \in Range(q) /\ r[i] # q[1]
    <3>1. i + 1 \in DOMAIN q /\ 1 \in DOMAIN q /\ i + 1 # 1 /\ r[i] = q[i + 1]
      BY <1>1, <1>2, <1>3, <2>1
    <3>2. q[i + 1] # q[1]
      BY <3>1 DEF IsInjective
    <3> QED
      BY <3>1, <3>2 DEF Range
  <2> QED
    BY <2>1 DEF Range
<1>6. ASSUME NEW i \in DOMAIN q, q[i] # q[1] PROVE q[i] \in Range(r)
  <2>1. i - 1 \in 1..Len(r) /\ r[i - 1] = q[i]
    BY <1>1, <1>2, <1>3, <1>6
  <2> QED
    BY <1>3, <2>1 DEF Range
<1>7. Head(q) \in Range(q)
  BY <1>2, <1>3 DEF Range
<1>8. Range(r) = Range(q) \ {Head(q)}
  BY <1>2, <1>5, <1>6 DEF Range
<1> QED
  BY <1>1, <1>4, <1>7, <1>8 DEF r

LEMMA RemoveFromQueue ==
  ASSUME NEW S, NEW q \in Seq(S), NEW k \in DOMAIN q, IsInjective(q)
  PROVE  /\ RemoveAt(q, k) \in Seq(S) /\ IsInjective(RemoveAt(q, k))
         /\ Range(RemoveAt(q, k)) = Range(q) \ {q[k]}
<1> DEFINE left  == SubSeq(q, 1, k - 1)
           right == SubSeq(q, k + 1, Len(q))
           r     == left \o right
<1>1. /\ Len(q) \in Nat /\ DOMAIN q = 1..Len(q) /\ k \in 1..Len(q)
      /\ \A i \in 1..Len(q) : q[i] \in S
  BY LenProperties
<1>2. /\ left \in Seq(S) /\ Len(left) = k - 1
      /\ \A i \in 1..(k - 1) : left[i] = q[i]
  BY <1>1, SubSeqProperties
<1>3. /\ right \in Seq(S) /\ Len(right) = Len(q) - k
      /\ \A i \in 1..(Len(q) - k) : right[i] = q[k + i]
  BY <1>1, SubSeqProperties
<1> HIDE DEF left, right
<1>4. r \in Seq(S) /\ Len(r) = Len(q) - 1
  <2>1. r \in Seq(S) /\ Len(r) = Len(left) + Len(right)
    BY <1>2, <1>3, ConcatProperties
  <2> HIDE DEF r
  <2> QED
    BY <1>1, <1>2, <1>3, <2>1
<1>5. \A i \in 1..(Len(q) - 1) : r[i] = IF i < k THEN q[i] ELSE q[i + 1]
  <2> SUFFICES ASSUME NEW i \in 1..(Len(q) - 1) PROVE r[i] = IF i < k THEN q[i] ELSE q[i + 1]
    OBVIOUS
  <2>1. r[i] = IF i <= Len(left) THEN left[i] ELSE right[i - Len(left)]
    BY <1>1, <1>2, <1>3, ConcatProperties
  <2> HIDE DEF r
  <2>2. CASE i < k
    BY <1>1, <1>2, <2>1, <2>2
  <2>3. CASE ~(i < k)
    <3>1. i - (k - 1) \in 1..(Len(q) - k) /\ k + (i - (k - 1)) = i + 1
      BY <1>1, <2>3
    <3>2. r[i] = right[i - (k - 1)]
      BY <1>1, <1>2, <2>1, <2>3
    <3>3. right[i - (k - 1)] = q[k + (i - (k - 1))]
      BY <1>3, <3>1
    <3> QED
      BY <2>3, <3>1, <3>2, <3>3
  <2> QED
    BY <2>2, <2>3
<1>6. DOMAIN r = 1..(Len(q) - 1)
  BY <1>1, <1>4, LenProperties
<1> HIDE DEF r
<1>7. IsInjective(r)
  BY <1>1, <1>5, <1>6 DEF IsInjective
<1>8. Range(r) \subseteq Range(q) \ {q[k]}
  BY <1>1, <1>5, <1>6 DEF IsInjective, Range
<1>9. ASSUME NEW i \in DOMAIN q, q[i] # q[k] PROVE q[i] \in Range(r)
  <2> DEFINE j == IF i < k THEN i ELSE i - 1
  <2>1. j \in 1..(Len(q) - 1) /\ r[j] = q[i]
    BY <1>1, <1>5, <1>9
  <2> QED
    BY <1>6, <2>1 DEF Range
<1>10. Range(r) = Range(q) \ {q[k]}
  BY <1>8, <1>9 DEF Range
<1> QED
  BY <1>4, <1>7, <1>10 DEF r, left, right, RemoveAt

LEMMA LengthOfQueue ==
  ASSUME NEW S, NEW q \in Seq(S), IsInjective(q)
  PROVE  Len(q) = Cardinality(Range(q))
<1>1. /\ Len(q) \in Nat /\ DOMAIN q = 1..Len(q) /\ q \in [1..Len(q) -> S]
  BY LenProperties
<1>2. q \in Bijection(1..Len(q), Range(q))
  BY <1>1 DEF IsInjective, Range, Bijection, Injection, Surjection
<1>3. IsFiniteSet(1..Len(q)) /\ Cardinality(1..Len(q)) = Len(q)
  <2> DEFINE n == Len(q)
  <2>1. n \in Nat
    BY <1>1
  <2> HIDE DEF n
  <2>2. IsFiniteSet(1..n) /\ Cardinality(1..n) = IF 1 > n THEN 0 ELSE n - 1 + 1
    BY ONLY <2>1, FS_Interval
  <2>3. IsFiniteSet(1..n) /\ Cardinality(1..n) = n
    BY ONLY <2>1, <2>2
  <2> QED
    BY <2>3 DEF n
<1> QED
  BY <1>2, <1>3, FS_Bijection DEF ExistsBijection
-----------------------------------------------------------------------------
(* The semaphore.                                                          *)

CallTypes  == call \in [Callers -> Calls]
QueueTypes == active \in 0..MaxSlots /\ waiting \in Seq(Callers)

LEMMA SlottedIsFinite == IsFiniteSet(Slotted)
BY SlotsAssumption, FS_Subset DEF Slotted

\* A call that goes on, with its slot or without, and whoever waits.
LEMMA CallGoesOn ==
  ASSUME CallTypes, SlotInv, NEW c \in Callers, NEW row \in Calls,
         call' = [call EXCEPT ![c] = row], UNCHANGED slotVars,
         row.slot = call[c].slot, row.slot <=> Keeps(c, row.pc),
         row.pc = "waiting" <=> At(c, "waiting")
  PROVE  CallTypes' /\ SlotInv'
<1>1. call' \in [Callers -> Calls] /\ call'[c] = row /\ \A d \in Callers \ {c} : call'[d] = call[d]
  BY DEF CallTypes
<1>2. Slotted' = Slotted /\ Waiters' = Waiters
  BY <1>1 DEF Slotted, Waiters, At
<1>3. \A d \in Callers : call'[d].slot <=> Keeps(d, call'[d].pc)
  BY <1>1 DEF SlotInv
<1>4. UNCHANGED <<active, waiting>>
  BY DEF slotVars
<1> QED
  BY <1>1, <1>2, <1>3, <1>4 DEF SlotInv, CallTypes

\* acquire: the slot is counted with the call that has it.
LEMMA AcquireKeeps ==
  ASSUME CallTypes, QueueTypes, SlotInv, NEW c \in Callers, Acquire(c)
  PROVE  CallTypes' /\ QueueTypes' /\ SlotInv'
<1>0. MaxSlots \in Nat
  BY SlotsAssumption
<1>1. CASE active < MaxSlots
  <2> DEFINE row == [Idle EXCEPT !.pc = "ensure", !.slot = TRUE]
  <2>1. row \in Calls /\ row.pc = "ensure" /\ row.slot
    BY DEF Idle, Calls
  <2>2. call' = [call EXCEPT ![c] = row] /\ active' = active + 1 /\ UNCHANGED waiting
    BY <1>1 DEF Acquire
  <2>3. ~call[c].slot /\ c \notin Waiters
    BY DEF Acquire, At, SlotInv, Keeps, Waiters
  <2> HIDE DEF row
  <2>4. call' \in [Callers -> Calls] /\ call'[c] = row /\ \A d \in Callers \ {c} : call'[d] = call[d]
    BY <2>1, <2>2 DEF CallTypes
  <2>5. Slotted' = Slotted \cup {c} /\ c \notin Slotted
    BY <2>1, <2>3, <2>4 DEF Slotted
  <2>6. Cardinality(Slotted') = Cardinality(Slotted) + 1
    <3>1. Cardinality(Slotted \cup {c}) = Cardinality(Slotted) + 1
      BY <2>5, SlottedIsFinite, FS_AddElement
    <3> QED
      BY <2>5, <3>1
  <2>7. Waiters' = Waiters
    BY <2>1, <2>3, <2>4 DEF Waiters, At
  <2>8. waiting = <<>>
    BY <1>0, <1>1 DEF SlotInv, QueueTypes
  <2>9. \A d \in Callers : call'[d].slot <=> Keeps(d, call'[d].pc)
    BY <2>1, <2>4 DEF SlotInv, Keeps
  <2>10. QueueTypes'
    BY <1>0, <1>1, <2>2 DEF QueueTypes
  <2> QED
    BY <2>2, <2>4, <2>6, <2>7, <2>8, <2>9, <2>10 DEF SlotInv, CallTypes
<1>2. CASE ~(active < MaxSlots)
  <2> DEFINE row == [Idle EXCEPT !.pc = "waiting"]
  <2>1. row \in Calls /\ row.pc = "waiting" /\ ~row.slot
    BY DEF Idle, Calls
  <2>2. call' = [call EXCEPT ![c] = row] /\ waiting' = Append(waiting, c) /\ UNCHANGED active
    BY <1>2 DEF Acquire
  <2>3. ~call[c].slot /\ c \notin Range(waiting)
    BY DEF Acquire, At, SlotInv, Keeps, Waiters
  <2> HIDE DEF row
  <2>4. call' \in [Callers -> Calls] /\ call'[c] = row /\ \A d \in Callers \ {c} : call'[d] = call[d]
    BY <2>1, <2>2 DEF CallTypes
  <2>5. Slotted' = Slotted /\ Waiters' = Waiters \cup {c}
    BY <2>1, <2>3, <2>4 DEF Slotted, Waiters, At
  <2>6. /\ waiting' \in Seq(Callers) /\ IsInjective(waiting')
        /\ Range(waiting') = Range(waiting) \cup {c}
    BY <2>2, <2>3, AppendToQueue DEF QueueTypes, SlotInv
  <2>7. active' = MaxSlots
    BY <1>0, <1>2, <2>2 DEF QueueTypes
  <2>8. \A d \in Callers : call'[d].slot <=> Keeps(d, call'[d].pc)
    BY <2>1, <2>3, <2>4 DEF SlotInv, Keeps
  <2> QED
    BY <2>2, <2>4, <2>5, <2>6, <2>7, <2>8 DEF SlotInv, CallTypes, QueueTypes
<1> QED
  BY <1>1, <1>2

\* A timer takes its own waiter out of the queue and no other.
LEMMA TimeoutKeeps ==
  ASSUME CallTypes, QueueTypes, SlotInv, NEW c \in Callers, AcquireTimeout(c)
  PROVE  CallTypes' /\ QueueTypes' /\ SlotInv'
<1> DEFINE row == [call[c] EXCEPT !.pc = "idle"]
<1>1. row \in Calls /\ row.pc = "idle" /\ row.slot = call[c].slot
  BY DEF CallTypes, Calls
<1>2. PICK i \in DOMAIN waiting : waiting[i] = c /\ waiting' = RemoveAt(waiting, i)
  BY DEF AcquireTimeout
<1>3. call' = [call EXCEPT ![c] = row] /\ UNCHANGED active /\ At(c, "waiting")
  BY DEF AcquireTimeout, Goto
<1>4. ~call[c].slot
  BY <1>3 DEF At, SlotInv, Keeps
<1> HIDE DEF row
<1>5. call' \in [Callers -> Calls] /\ call'[c] = row /\ \A d \in Callers \ {c} : call'[d] = call[d]
  BY <1>1, <1>3 DEF CallTypes
<1>6. Slotted' = Slotted /\ Waiters' = Waiters \ {c}
  BY <1>1, <1>5 DEF Slotted, Waiters, At
<1>7. /\ waiting' \in Seq(Callers) /\ IsInjective(waiting')
      /\ Range(waiting') = Range(waiting) \ {c}
  BY <1>2, RemoveFromQueue DEF QueueTypes, SlotInv
<1>8. waiting # <<>>
  BY <1>2, EmptySeq, LenProperties DEF QueueTypes
<1>9. \A d \in Callers : call'[d].slot <=> Keeps(d, call'[d].pc)
  BY <1>1, <1>4, <1>5 DEF SlotInv, Keeps
<1> QED
  BY <1>3, <1>5, <1>6, <1>7, <1>8, <1>9 DEF SlotInv, CallTypes, QueueTypes

\* releaseSlot: the count falls by one, or the slot changes hands.
LEMMA ReleaseKeeps ==
  ASSUME CallTypes, QueueTypes, SlotInv, NEW c \in Callers, NEW row \in Calls,
         call[c].slot, ~row.slot, ~Keeps(c, row.pc), row.pc # "waiting", ReleaseSlot(c, row)
  PROVE  CallTypes' /\ QueueTypes' /\ SlotInv'
<1>0. MaxSlots \in Nat
  BY SlotsAssumption
<1>1. c \in Slotted /\ c \notin Waiters
  BY DEF Slotted, SlotInv, Keeps, Waiters, At
<1>2. IsFiniteSet(Slotted \ {c}) /\ Cardinality(Slotted \ {c}) = Cardinality(Slotted) - 1
  BY <1>1, SlottedIsFinite, FS_RemoveElement
<1>3. Cardinality(Slotted \ {c}) \in Nat
  BY <1>2, FS_CardinalityType
<1>4. CASE waiting = <<>>
  <2>1. active' = active - 1 /\ call' = [call EXCEPT ![c] = row] /\ UNCHANGED waiting
    BY <1>4 DEF ReleaseSlot
  <2>2. call' \in [Callers -> Calls] /\ call'[c] = row /\ \A d \in Callers \ {c} : call'[d] = call[d]
    BY <2>1 DEF CallTypes
  <2>3. Slotted' = Slotted \ {c} /\ Waiters' = Waiters
    BY <1>1, <2>2 DEF Slotted, Waiters, At
  <2>4. active' = Cardinality(Slotted')
    BY <1>2, <2>1, <2>3 DEF SlotInv
  <2>5. active' \in 0..MaxSlots
    BY <1>0, <1>3, <2>1, <2>3, <2>4 DEF QueueTypes
  <2>6. \A d \in Callers : call'[d].slot <=> Keeps(d, call'[d].pc)
    BY <2>2 DEF SlotInv
  <2> QED
    BY <1>4, <2>1, <2>2, <2>3, <2>4, <2>5, <2>6 DEF SlotInv, CallTypes, QueueTypes
<1>5. CASE waiting # <<>>
  <2> DEFINE next == Head(waiting)
             took == [call[next] EXCEPT !.pc = "ensure", !.slot = TRUE]
  <2>1. /\ next \in Range(waiting) /\ waiting' = Tail(waiting)
        /\ waiting' \in Seq(Callers) /\ IsInjective(waiting')
        /\ Range(waiting') = Range(waiting) \ {next}
    BY <1>5, TailOfQueue DEF QueueTypes, SlotInv, ReleaseSlot
  <2>2. next \in Callers /\ next \in Waiters /\ next # c
    BY <1>1, <2>1 DEF SlotInv, Waiters
  <2>3. call' = [[call EXCEPT ![c] = row] EXCEPT ![next].pc = "ensure", ![next].slot = TRUE]
    BY <1>5 DEF ReleaseSlot
  <2>4. UNCHANGED active
    BY <1>5 DEF ReleaseSlot
  <2>5. took \in Calls /\ took.pc = "ensure" /\ took.slot
    BY <2>2 DEF CallTypes, Calls
  <2> HIDE DEF next
  <2>6. call' = [[call EXCEPT ![c] = row] EXCEPT ![next] = took]
    BY <2>2, <2>3 DEF CallTypes
  <2> HIDE DEF took
  <2>7. /\ call' \in [Callers -> Calls] /\ call'[c] = row /\ call'[next] = took
        /\ \A d \in Callers \ {c, next} : call'[d] = call[d]
    BY <2>2, <2>5, <2>6 DEF CallTypes
  <2>8. next \notin Slotted
    BY <2>2 DEF Slotted, Waiters, At, SlotInv, Keeps
  <2>9. Slotted' = (Slotted \ {c}) \cup {next} /\ Waiters' = Waiters \ {next}
    BY <1>1, <2>2, <2>5, <2>7 DEF Slotted, Waiters, At
  <2>10. Cardinality(Slotted') = Cardinality(Slotted \ {c}) + 1
    <3>1. Cardinality((Slotted \ {c}) \cup {next}) = Cardinality(Slotted \ {c}) + 1
      BY <1>2, <2>8, FS_AddElement
    <3> QED
      BY <2>9, <3>1
  <2>11. \A d \in Callers : call'[d].slot <=> Keeps(d, call'[d].pc)
    BY <2>2, <2>5, <2>7 DEF SlotInv, Keeps
  <2>12. active' = Cardinality(Slotted') /\ active' = MaxSlots
    BY <1>0, <1>2, <1>3, <1>5, <2>4, <2>10 DEF SlotInv, QueueTypes
  <2> QED
    BY <1>0, <2>1, <2>4, <2>7, <2>9, <2>11, <2>12 DEF SlotInv, CallTypes, QueueTypes
<1> QED
  BY <1>4, <1>5

-----------------------------------------------------------------------------
(* The calls.                                                              *)

LEMMA EnsuredKeeps ==
  ASSUME CallTypes, SlotInv, NEW c \in Callers, Ensured(c)
  PROVE  CallTypes' /\ SlotInv'
<1>0. UNCHANGED slotVars /\ At(c, "ensure") /\ call[c].slot
  BY DEF Ensured, slotVars, At, SlotInv, Keeps
<1>1. CASE Goto(c, "close")
  <2> DEFINE row == [call[c] EXCEPT !.pc = "close"]
  <2>1. row \in Calls /\ row.slot = call[c].slot /\ row.pc = "close"
    BY DEF CallTypes, Calls
  <2>2. call' = [call EXCEPT ![c] = row]
    BY <1>1 DEF Goto
  <2> QED
    BY <1>0, <2>1, <2>2, CallGoesOn DEF At, Keeps
<1>2. CASE call' = [call EXCEPT ![c].pc = "setup", ![c].page = "creating"]
  <2> DEFINE row == [call[c] EXCEPT !.pc = "setup", !.page = "creating"]
  <2>1. row \in Calls /\ row.slot = call[c].slot /\ row.pc = "setup"
    BY DEF CallTypes, Calls
  <2>2. call' = [call EXCEPT ![c] = row]
    BY <1>2
  <2> QED
    BY <1>0, <2>1, <2>2, CallGoesOn DEF At, Keeps
<1>3. CASE call' = [call EXCEPT ![c].pc = "work", ![c].page = "open"]
  <2> DEFINE row == [call[c] EXCEPT !.pc = "work", !.page = "open"]
  <2>1. row \in Calls /\ row.slot = call[c].slot /\ row.pc = "work"
    BY DEF CallTypes, Calls
  <2>2. call' = [call EXCEPT ![c] = row]
    BY <1>3
  <2> QED
    BY <1>0, <2>1, <2>2, CallGoesOn DEF At, Keeps
<1> QED
  BY <1>1, <1>2, <1>3 DEF Ensured, Connect

\* The page, and the timer of its setup.
LEMMA PageKeeps ==
  ASSUME CallTypes, SlotInv, NEW c \in Callers,
         PageCreated(c) \/ PageLoaded(c) \/ PageFails(c) \/ SetupTimeout(c) \/ Work(c)
  PROVE  CallTypes' /\ SlotInv'
<1>0. UNCHANGED slotVars
  BY DEF PageCreated, PageLoaded, PageFails, SetupTimeout, Work, CallOnly, slotVars
<1>a. ASSUME NEW pc \in {"work", "close"}, NEW page \in Left \cup {"open"}, At(c, "setup"),
             call' = [call EXCEPT ![c].pc = pc, ![c].page = page]
      PROVE  CallTypes' /\ SlotInv'
  <2> DEFINE row == [call[c] EXCEPT !.pc = pc, !.page = page]
  <2>1. row \in Calls /\ row.slot = call[c].slot /\ row.pc = pc
    BY DEF CallTypes, Calls, Left
  <2>2. call' = [call EXCEPT ![c] = row]
    BY <1>a
  <2> HIDE DEF row
  <2>3. /\ call[c].slot /\ Keeps(c, pc) /\ ~At(c, "waiting")
        /\ row.pc # "waiting"
    BY <1>a, <2>1 DEF At, SlotInv, Keeps
  <2> QED
    BY <1>0, <2>1, <2>2, <2>3, CallGoesOn
<1>1. CASE PageCreated(c)
  <2>1. CASE call[c].late
    <3>1. PICK page \in Left : call' = [call EXCEPT ![c].page = page, ![c].late = FALSE]
      BY <1>1, <2>1 DEF PageCreated
    <3> DEFINE row == [call[c] EXCEPT !.page = page, !.late = FALSE]
    <3>2. row \in Calls /\ row.slot = call[c].slot /\ row.pc = call[c].pc
      BY DEF CallTypes, Calls, Left
    <3>3. call' = [call EXCEPT ![c] = row]
      BY <3>1
    <3> QED
      BY <1>0, <3>2, <3>3, CallGoesOn DEF At, SlotInv
  <2>2. CASE ~call[c].late
    <3> DEFINE row == [call[c] EXCEPT !.page = "loading"]
    <3>1. row \in Calls /\ row.slot = call[c].slot /\ row.pc = call[c].pc
      BY DEF CallTypes, Calls
    <3>2. call' = [call EXCEPT ![c] = row]
      BY <1>1, <2>2 DEF PageCreated
    <3> QED
      BY <1>0, <3>1, <3>2, CallGoesOn DEF At, SlotInv
  <2> QED
    BY <2>1, <2>2
<1>2. CASE PageLoaded(c)
  BY <1>2, <1>a DEF PageLoaded
<1>3. CASE PageFails(c)
  BY <1>3, <1>a DEF PageFails
<1>4. CASE SetupTimeout(c)
  <2>1. CASE call[c].page = "creating"
    <3> DEFINE row == [call[c] EXCEPT !.pc = "close", !.late = TRUE]
    <3>1. row \in Calls /\ row.slot = call[c].slot /\ row.pc = "close"
      BY DEF CallTypes, Calls
    <3>2. call' = [call EXCEPT ![c] = row] /\ At(c, "setup")
      BY <1>4, <2>1 DEF SetupTimeout
    <3> QED
      BY <1>0, <3>1, <3>2, CallGoesOn DEF At, SlotInv, Keeps
  <2>2. CASE call[c].page # "creating"
    BY <1>4, <1>a, <2>2 DEF SetupTimeout
  <2> QED
    BY <2>1, <2>2
<1>5. CASE Work(c)
  <2> DEFINE row == [call[c] EXCEPT !.pc = "close"]
  <2>1. row \in Calls /\ row.slot = call[c].slot /\ row.pc = "close"
    BY DEF CallTypes, Calls
  <2>2. call' = [call EXCEPT ![c] = row] /\ At(c, "work")
    BY <1>5 DEF Work, Goto
  <2> QED
    BY <1>0, <2>1, <2>2, CallGoesOn DEF At, SlotInv, Keeps
<1> QED
  BY <1>1, <1>2, <1>3, <1>4, <1>5

LEMMA EndsTypes ==
  ASSUME CallTypes, NEW c \in Callers, NEW page \in Ends(c), NEW pc \in {"closing", "idle"}
  PROVE  /\ [call[c] EXCEPT !.pc = pc, !.page = page] \in Calls
         /\ [call[c] EXCEPT !.pc = pc, !.page = page].slot = call[c].slot
         /\ [call[c] EXCEPT !.pc = pc, !.page = page].pc = pc
<1>1. call[c] \in Calls
  BY DEF CallTypes
<1>2. page \in {"none", "creating", "loading", "open", "stray"}
  BY <1>1 DEF Ends, Left, Calls
<1> QED
  BY <1>1, <1>2 DEF Calls

LEMMA CloseKeeps ==
  ASSUME CallTypes, QueueTypes, SlotInv, NEW c \in Callers, Close(c) \/ Closing(c)
  PROVE  CallTypes' /\ QueueTypes' /\ SlotInv'
<1>0. call[c] \in Calls
  BY DEF CallTypes
<1>1. CASE Close(c) /\ c \in Logins
  <2> DEFINE row == [call[c] EXCEPT !.pc = "closing", !.slot = FALSE]
  <2>1. row \in Calls /\ ~row.slot /\ row.pc = "closing"
    BY <1>0 DEF Calls
  <2>2. ReleaseSlot(c, row) /\ call[c].slot
    BY <1>1 DEF Close, At, SlotInv, Keeps
  <2> HIDE DEF row
  <2> QED
    BY <1>1, <2>1, <2>2, ReleaseKeeps DEF Keeps
<1>2. CASE Close(c) /\ c \notin Logins
  <2>1. PICK page \in Ends(c) : call' = [call EXCEPT ![c].pc = "closing", ![c].page = page]
    BY <1>2 DEF Close
  <2> DEFINE row == [call[c] EXCEPT !.pc = "closing", !.page = page]
  <2>2. row \in Calls /\ row.slot = call[c].slot /\ row.pc = "closing"
    BY EndsTypes
  <2>3. call' = [call EXCEPT ![c] = row] /\ UNCHANGED slotVars /\ At(c, "close")
    BY <1>2, <2>1 DEF Close
  <2> HIDE DEF row
  <2>4. CallTypes' /\ SlotInv'
    BY <1>2, <2>2, <2>3, CallGoesOn DEF At, SlotInv, Keeps
  <2> QED
    BY <2>3, <2>4 DEF QueueTypes, slotVars
<1>3. CASE Closing(c) /\ c \in Logins
  <2>1. UNCHANGED slotVars /\ At(c, "closing") /\ ~call[c].slot
    BY <1>3 DEF Closing, At, SlotInv, Keeps
  <2>2. PICK row \in Calls : /\ call' = [call EXCEPT ![c] = row]
                             /\ row.pc = "idle" /\ row.slot = call[c].slot
    <3>1. CASE \E page \in Ends(c) : call' = [call EXCEPT ![c].pc = "idle", ![c].page = page]
      <4>1. PICK page \in Ends(c) : call' = [call EXCEPT ![c].pc = "idle", ![c].page = page]
        BY <3>1
      <4> DEFINE new == [call[c] EXCEPT !.pc = "idle", !.page = page]
      <4>2. new \in Calls /\ new.pc = "idle" /\ new.slot = call[c].slot
        BY EndsTypes
      <4>3. call' = [call EXCEPT ![c] = new]
        BY <4>1
      <4> HIDE DEF new
      <4> QED
        BY <4>2, <4>3
    <3>2. CASE \E page \in Left : call' = [call EXCEPT ![c] = [Idle EXCEPT !.page = page]]
      <4>1. PICK page \in Left : call' = [call EXCEPT ![c] = [Idle EXCEPT !.page = page]]
        BY <3>2
      <4> DEFINE new == [Idle EXCEPT !.page = page]
      <4>2. new \in Calls /\ new.pc = "idle" /\ ~new.slot
        BY DEF Idle, Calls, Left
      <4>3. call' = [call EXCEPT ![c] = new]
        BY <4>1
      <4>4. call[c].slot \in BOOLEAN /\ new.slot \in BOOLEAN
        BY <1>0, <4>2 DEF Calls
      <4> HIDE DEF new
      <4> QED
        BY <2>1, <4>2, <4>3, <4>4
    <3> QED
      BY <1>3, <3>1, <3>2 DEF Closing
  <2>3. CallTypes' /\ SlotInv'
    BY <1>3, <2>1, <2>2, CallGoesOn DEF At, SlotInv, Keeps
  <2> QED
    BY <2>1, <2>3 DEF QueueTypes, slotVars
<1>4. CASE Closing(c) /\ c \notin Logins
  <2>1. Idle \in Calls /\ ~Idle.slot /\ Idle.pc = "idle"
    BY DEF Idle, Calls
  <2>2. ReleaseSlot(c, Idle) /\ call[c].slot
    BY <1>4 DEF Closing, At, SlotInv, Keeps
  <2> QED
    BY <2>1, <2>2, ReleaseKeeps DEF Keeps
<1> QED
  BY <1>1, <1>2, <1>3, <1>4
-----------------------------------------------------------------------------
(* The monitor.                                                            *)

WatchTypes == monitor \in Monitors /\ crowded \in 0..Sustain + 1

LEMMA TickKeeps ==
  ASSUME WatchTypes, MonitorInv, Tick PROVE WatchTypes' /\ MonitorInv'
<1>0. Sustain \in Nat /\ crowded \in 0..Sustain + 1 /\ monitor.over = crowded
  BY SlotsAssumption DEF WatchTypes, MonitorInv
<1>1. monitor' = [over |-> Sampled, alerted |-> Over /\ (monitor.alerted \/ Sampled > Sustain)]
  BY DEF Tick
<1>2. Over \in BOOLEAN
  BY DEF Over
<1>3. CASE Over
  <2>1. Sampled = Later(crowded) /\ crowded' = Later(crowded)
    BY <1>0, <1>3 DEF Sampled, Tick
  <2>2. Later(crowded) \in 0..Sustain + 1 /\ (crowded > Sustain => Later(crowded) > Sustain)
    BY <1>0 DEF Later
  <2>3. monitor.alerted <=> crowded > Sustain
    BY DEF MonitorInv
  <2>4. monitor' = [over |-> Later(crowded), alerted |-> Later(crowded) > Sustain]
    <3>1. (monitor.alerted \/ Sampled > Sustain) <=> Later(crowded) > Sustain
      BY <2>1, <2>2, <2>3
    <3> QED
      BY <1>1, <1>3, <2>1, <3>1
  <2> HIDE DEF Later
  <2>5. (Later(crowded) > Sustain) \in BOOLEAN
    OBVIOUS
  <2>6. monitor' \in Monitors
    BY <2>2, <2>4, <2>5 DEF Monitors
  <2>7. monitor'.over = crowded' /\ (monitor'.alerted <=> crowded' > Sustain)
    BY <2>1, <2>4
  <2> QED
    BY <2>1, <2>2, <2>6, <2>7 DEF WatchTypes, MonitorInv
<1>4. CASE ~Over
  <2>1. monitor' = [over |-> 0, alerted |-> FALSE] /\ crowded' = 0
    BY <1>1, <1>4 DEF Sampled, Tick
  <2> QED
    BY <1>0, <2>1 DEF WatchTypes, Monitors, MonitorInv
<1> QED
  BY <1>3, <1>4

-----------------------------------------------------------------------------
(* Every step.                                                             *)

\* The parts that a step of the calls or of the host leaves alone.
LEMMA UntouchedCalls ==
  ASSUME CallTypes, QueueTypes, SlotInv, UNCHANGED <<slotVars, call>>
  PROVE  CallTypes' /\ QueueTypes' /\ SlotInv'
BY DEF CallTypes, QueueTypes, SlotInv, slotVars, Slotted, Waiters, At

LEMMA UntouchedWatch ==
  ASSUME WatchTypes, MonitorInv, Unwatched PROVE WatchTypes' /\ MonitorInv'
BY DEF WatchTypes, MonitorInv, Unwatched

LEMMA ProgressKeeps ==
  ASSUME IInv, NEW c \in Callers, Acquire(c) \/ Progress(c)
  PROVE  /\ BrowserStep /\ Unwatched
         /\ CallTypes' /\ QueueTypes' /\ SlotInv'
<1>0. CallTypes /\ QueueTypes /\ SlotInv
  BY DEF IInv, TypeOK, CallTypes, QueueTypes
<1>1. CASE Acquire(c)
  BY <1>0, <1>1, AcquireKeeps DEF Acquire, BrowserStep
<1>2. CASE AcquireTimeout(c)
  BY <1>0, <1>2, TimeoutKeeps DEF AcquireTimeout, BrowserStep
<1>3. CASE EnsureBrowser(c)
  BY <1>0, <1>3, UntouchedCalls DEF EnsureBrowser, BrowserStep
<1>4. CASE Ensured(c)
  <2>1. BrowserStep /\ Unwatched /\ UNCHANGED slotVars
    BY <1>4 DEF Ensured, BrowserStep
  <2> QED
    BY <1>0, <1>4, <2>1, EnsuredKeeps DEF QueueTypes, slotVars
<1>5. CASE PageCreated(c) \/ PageLoaded(c) \/ PageFails(c) \/ SetupTimeout(c) \/ Work(c)
  <2>1. CallOnly
    BY <1>5 DEF PageCreated, PageLoaded, PageFails, SetupTimeout, Work
  <2>2. BrowserStep /\ Unwatched /\ UNCHANGED slotVars
    BY <2>1 DEF CallOnly, BrowserStep, Unwatched
  <2> QED
    BY <1>0, <1>5, <2>2, PageKeeps DEF QueueTypes, slotVars
<1>6. CASE Close(c) \/ Closing(c)
  BY <1>0, <1>6, CloseKeeps DEF Close, Closing, BrowserStep
<1> QED
  BY <1>1, <1>2, <1>3, <1>4, <1>5, <1>6 DEF Progress

LEMMA Initially == Init => IInv
<1> SUFFICES ASSUME Init PROVE IInv
  OBVIOUS
<1>0. {MaxSlots, Sustain} \subseteq Nat
  BY SlotsAssumption
<1>1. BrowserTypeOK
  BY BrowserInitTypes DEF Init
<1>2. Idle \in Calls
  BY DEF Idle, Calls
<1>3. TypeOK
  BY <1>0, <1>1, <1>2, EmptySeq DEF Init, TypeOK, Monitors
<1>4. LockInv
  BY DEF Init, BrowserInit, LockInv, Holds
<1>5. Slotted = {} /\ Waiters = {} /\ IsInjective(waiting) /\ Range(waiting) = {}
  BY DEF Init, Slotted, Waiters, At, Idle, IsInjective, Range
<1>6. SlotInv
  BY <1>5, FS_EmptySet DEF Init, SlotInv, Idle, Keeps
<1>7. MonitorInv
  BY <1>0 DEF Init, MonitorInv
<1> QED
  BY <1>3, <1>4, <1>6, <1>7 DEF IInv

LEMMA Inductive == IInv /\ [Next]_vars => IInv'
<1> SUFFICES ASSUME IInv, [Next]_vars PROVE IInv'
  OBVIOUS
<1>0. /\ BrowserTypeOK /\ LockInv /\ CallTypes /\ QueueTypes /\ SlotInv
      /\ WatchTypes /\ MonitorInv
  BY DEF IInv, TypeOK, CallTypes, QueueTypes, WatchTypes
<1>1. /\ BrowserStep
      /\ CallTypes' /\ QueueTypes' /\ SlotInv'
      /\ WatchTypes' /\ MonitorInv'
  <2>1. ASSUME NEW c \in Callers, Acquire(c) \/ Progress(c)
        PROVE  /\ BrowserStep
               /\ CallTypes' /\ QueueTypes' /\ SlotInv'
               /\ WatchTypes' /\ MonitorInv'
    BY <1>0, <2>1, ProgressKeeps, UntouchedWatch
  <2>2. ASSUME NEW l \in Launchers, Host(l)
        PROVE  /\ BrowserStep
               /\ CallTypes' /\ QueueTypes' /\ SlotInv'
               /\ WatchTypes' /\ MonitorInv'
    <3>1. BrowserStep
      BY <2>2 DEF Host, BrowserStep
    <3> QED
      BY <1>0, <2>2, <3>1, UntouchedCalls, UntouchedWatch DEF Host
  <2>3. CASE Tick
    <3>1. BrowserStep /\ UNCHANGED <<slotVars, call>>
      BY <2>3 DEF Tick, BrowserStep
    <3> QED
      BY <1>0, <2>3, <3>1, UntouchedCalls, TickKeeps
  <2>4. CASE UNCHANGED vars
    <3>1. BrowserStep /\ UNCHANGED <<slotVars, call>> /\ Unwatched
      BY <2>4 DEF vars, BrowserStep, Unwatched
    <3> QED
      BY <1>0, <3>1, UntouchedCalls, UntouchedWatch
  <2> QED
    BY <2>1, <2>2, <2>3, <2>4 DEF Next
<1>2. BrowserTypeOK' /\ LockInv'
  BY <1>0, <1>1, BrowserTypes, LockKept
<1> QED
  BY <1>1, <1>2 DEF IInv, TypeOK, CallTypes, QueueTypes, WatchTypes

LEMMA Invariance == Spec => []IInv
BY Initially, Inductive, PTL DEF Spec

-----------------------------------------------------------------------------
\* The variables of the browser, the slots, the calls and the monitor keep their
\* types for every number of callers, scripts and slots.
THEOREM TypeCorrect == Spec => []TypeOK
<1>1. IInv => TypeOK
  BY DEF IInv
<1> QED
  BY <1>1, Invariance, PTL

\* However many calls and operators start the bank's browser, flock leaves room
\* for one.
THEOREM OneBrowserPerProfile == Spec => []OneBrowser
<1>1. IInv => OneBrowser
  BY LockMeansOneBrowser DEF IInv
<1> QED
  BY <1>1, Invariance, PTL

\* No slot is lost and none is given twice, nobody waits beside a free slot, and
\* the queue holds exactly those who still wait, for every limit and any number
\* of callers whose timers, releases and hand-overs interleave.
THEOREM SlotsStayExact == Spec => []SlotsAreExact
<1>1. ASSUME IInv PROVE SlotsAreExact
  <2>0. QueueTypes /\ SlotInv /\ MaxSlots \in Nat
    BY <1>1, SlotsAssumption DEF IInv, TypeOK, QueueTypes
  <2>1. Len(waiting) = Cardinality(Range(waiting))
    BY <2>0, LengthOfQueue DEF QueueTypes, SlotInv
  <2>2. active <= MaxSlots
    BY <2>0 DEF QueueTypes
  <2> QED
    BY <2>0, <2>1, <2>2 DEF SlotsAreExact, SlotInv, Slotted, Waiters, Range
<1> QED
  BY <1>1, Invariance, PTL

\* The alert is on exactly when the queue was too long at each of the samples of
\* the sustained time, for every threshold and every time.
THEOREM AlertsAreExact == Spec => []AlertsMatchSpells
<1>1. IInv => AlertsMatchSpells
  BY DEF IInv, MonitorInv, AlertsMatchSpells
<1> QED
  BY <1>1, Invariance, PTL
-----------------------------------------------------------------------------
(* The pages.                                                              *)

Owned(c, row) ==
  /\ row.page = "loading" => row.pc = "setup"
  /\ row.page = "open" =>
       \/ row.pc = "work" \/ row.pc = "close"
       \/ row.pc = "closing" /\ c \in Logins
  /\ row.page = "creating" /\ row.pc # "setup" => row.late

LEMMA PagesAreOwned == PagesHaveAnOwner <=> \A c \in Callers : Owned(c, call[c])
BY DEF PagesHaveAnOwner, Owned, At

\* Whoever takes a slot over from another has no page yet.
LEMMA ReleaseOwned ==
  ASSUME call \in [Callers -> Calls], waiting \in Seq(Callers), Range(waiting) = Waiters,
         \A d \in Callers : Owned(d, call[d]),
         NEW c \in Callers, NEW row, Owned(c, row), c \notin Waiters, ReleaseSlot(c, row)
  PROVE  \A d \in Callers : Owned(d, call'[d])
<1> DEFINE rest == [call EXCEPT ![c] = row]
<1>1. rest[c] = row /\ \A d \in Callers \ {c} : rest[d] = call[d]
  OBVIOUS
<1>2. CASE waiting = <<>>
  BY <1>1, <1>2 DEF ReleaseSlot
<1>3. CASE waiting # <<>>
  <2> DEFINE next == Head(waiting)
  <2>1. next \in Waiters
    <3>1. Len(waiting) \in Nat /\ Len(waiting) > 0 /\ DOMAIN waiting = 1..Len(waiting)
      BY <1>3, EmptySeq, LenProperties
    <3>2. next = waiting[1] /\ 1 \in DOMAIN waiting
      BY <1>3, <3>1, HeadTailProperties
    <3> QED
      BY <3>2 DEF Range
  <2>2. call' = [rest EXCEPT ![next].pc = "ensure", ![next].slot = TRUE]
    BY <1>3 DEF ReleaseSlot
  <2>3. next \in Callers /\ next # c /\ call[next].pc = "waiting"
    BY <2>1 DEF Waiters, At
  <2>4. DOMAIN rest = Callers /\ rest[next] = call[next]
    BY <1>1, <2>3
  <2> HIDE DEF next, rest
  <2>5. \A d \in Callers : d # next => call'[d] = rest[d]
    BY <2>2, <2>4
  <2>6. /\ call'[next].pc = "ensure" /\ call'[next].page = call[next].page
        /\ call'[next].late = call[next].late
    BY <2>2, <2>3, <2>4 DEF Calls
  <2>7. Owned(next, call'[next])
    BY <2>3, <2>6 DEF Owned
  <2> QED
    BY <1>1, <2>5, <2>7
<1> QED
  BY <1>2, <1>3

LEMMA CallsOwn ==
  ASSUME IInv, \A d \in Callers : Owned(d, call[d]), NEW c \in Callers, Acquire(c) \/ Progress(c)
  PROVE  \A d \in Callers : Owned(d, call'[d])
<1>0. /\ call \in [Callers -> Calls] /\ waiting \in Seq(Callers) /\ Range(waiting) = Waiters
      /\ Owned(c, call[c])
  BY DEF IInv, TypeOK, SlotInv
<1>a. ASSUME NEW row, Owned(c, row), call' = [call EXCEPT ![c] = row]
      PROVE  \A d \in Callers : Owned(d, call'[d])
  BY <1>0, <1>a
<1>b. ASSUME NEW pc, NEW page, call' = [call EXCEPT ![c].pc = pc, ![c].page = page],
             Owned(c, [call[c] EXCEPT !.pc = pc, !.page = page])
      PROVE  \A d \in Callers : Owned(d, call'[d])
  BY <1>a, <1>b
<1>1. CASE Acquire(c)
  <2>1. \/ call' = [call EXCEPT ![c] = [Idle EXCEPT !.pc = "ensure", !.slot = TRUE]]
        \/ call' = [call EXCEPT ![c] = [Idle EXCEPT !.pc = "waiting"]]
    BY <1>1 DEF Acquire
  <2>2. /\ Owned(c, [Idle EXCEPT !.pc = "ensure", !.slot = TRUE])
        /\ Owned(c, [Idle EXCEPT !.pc = "waiting"])
    BY DEF Owned, Idle
  <2> QED
    BY <1>a, <2>1, <2>2
<1>2. CASE AcquireTimeout(c)
  <2>1. call' = [call EXCEPT ![c] = [call[c] EXCEPT !.pc = "idle"]] /\ At(c, "waiting")
    BY <1>2 DEF AcquireTimeout, Goto
  <2>2. Owned(c, [call[c] EXCEPT !.pc = "idle"])
    BY <1>0, <2>1 DEF Owned, At, Calls
  <2> QED
    BY <1>a, <2>1, <2>2
<1>3. CASE EnsureBrowser(c)
  BY <1>3 DEF EnsureBrowser
<1>4. CASE Ensured(c)
  <2>1. CASE call' = [call EXCEPT ![c].pc = "setup", ![c].page = "creating"]
    BY <1>0, <1>b, <2>1 DEF Owned, Calls
  <2>2. CASE call' = [call EXCEPT ![c].pc = "work", ![c].page = "open"]
    BY <1>0, <1>b, <2>2 DEF Owned, Calls
  <2>3. CASE call' = [call EXCEPT ![c].pc = "close"]
    <3>1. Owned(c, [call[c] EXCEPT !.pc = "close"])
      BY <1>0, <1>4 DEF Owned, Calls, Ensured, At
    <3> QED
      BY <1>a, <2>3, <3>1
  <2> QED
    BY <1>4, <2>1, <2>2, <2>3 DEF Ensured, Connect, Goto
<1>5. CASE PageCreated(c)
  <2>1. CASE call[c].late
    <3>1. PICK page \in Left :
            call' = [call EXCEPT ![c] = [call[c] EXCEPT !.page = page, !.late = FALSE]]
      BY <1>5, <2>1 DEF PageCreated
    <3>2. Owned(c, [call[c] EXCEPT !.page = page, !.late = FALSE])
      BY <1>0 DEF Owned, Left, Calls
    <3> QED
      BY <1>a, <3>1, <3>2
  <2>2. CASE ~call[c].late
    <3>1. call' = [call EXCEPT ![c] = [call[c] EXCEPT !.page = "loading"]]
      BY <1>5, <2>2 DEF PageCreated
    <3>2. Owned(c, [call[c] EXCEPT !.page = "loading"])
      BY <1>0, <1>5, <2>2 DEF PageCreated, Owned, Calls
    <3> QED
      BY <1>a, <3>1, <3>2
  <2> QED
    BY <2>1, <2>2
<1>6. CASE PageLoaded(c)
  BY <1>0, <1>6, <1>b DEF PageLoaded, Owned, Calls
<1>7. ASSUME NEW page \in Left, call' = [call EXCEPT ![c].pc = "close", ![c].page = page]
      PROVE  \A d \in Callers : Owned(d, call'[d])
  <2>1. Owned(c, [call[c] EXCEPT !.pc = "close", !.page = page])
    BY <1>0 DEF Owned, Left, Calls
  <2> QED
    BY <1>7, <1>b, <2>1
<1>8. CASE PageFails(c)
  BY <1>7, <1>8 DEF PageFails
<1>9. CASE SetupTimeout(c)
  <2>1. CASE call[c].page = "creating"
    <3>1. call' = [call EXCEPT ![c] = [call[c] EXCEPT !.pc = "close", !.late = TRUE]]
      BY <1>9, <2>1 DEF SetupTimeout
    <3>2. Owned(c, [call[c] EXCEPT !.pc = "close", !.late = TRUE])
      BY <1>0, <2>1 DEF Owned, Calls
    <3> QED
      BY <1>a, <3>1, <3>2
  <2> QED
    BY <1>7, <1>9, <2>1 DEF SetupTimeout
<1>10. CASE Work(c)
  <2>1. call' = [call EXCEPT ![c] = [call[c] EXCEPT !.pc = "close"]] /\ At(c, "work")
    BY <1>10 DEF Work, Goto
  <2>2. Owned(c, [call[c] EXCEPT !.pc = "close"])
    BY <1>0, <2>1 DEF Owned, At, Calls
  <2> QED
    BY <1>a, <2>1, <2>2
<1>11. ASSUME NEW page \in Ends(c), NEW pc, call[c].pc \notin {"setup", "waiting"},
              call' = [call EXCEPT ![c].pc = pc, ![c].page = page]
       PROVE  \A d \in Callers : Owned(d, call'[d])
  <2>1. Owned(c, [call[c] EXCEPT !.pc = pc, !.page = page])
    <3>1. /\ [call[c] EXCEPT !.pc = pc, !.page = page].page = page
          /\ [call[c] EXCEPT !.pc = pc, !.page = page].late = call[c].late
      BY <1>0 DEF Calls
    <3>2. page \in Left \/ (page = call[c].page /\ page # "open")
      BY DEF Ends
    <3> QED
      BY <1>0, <1>11, <3>1, <3>2 DEF Owned, Left
  <2> QED
    BY <1>11, <1>b, <2>1
<1>12. CASE Close(c)
  <2>1. call[c].pc = "close" /\ c \notin Waiters
    BY <1>12 DEF Close, At, Waiters
  <2>2. CASE c \in Logins
    <3>1. Owned(c, [call[c] EXCEPT !.pc = "closing", !.slot = FALSE])
      BY <1>0, <2>1, <2>2 DEF Owned, Calls
    <3> QED
      BY <1>0, <1>12, <2>1, <2>2, <3>1, ReleaseOwned DEF Close
  <2>3. CASE c \notin Logins
    BY <1>11, <1>12, <2>1, <2>3 DEF Close
  <2> QED
    BY <2>2, <2>3
<1>13. CASE Closing(c)
  <2>1. call[c].pc = "closing" /\ c \notin Waiters
    BY <1>13 DEF Closing, At, Waiters
  <2>2. CASE c \in Logins
    <3>1. CASE \E page \in Left : call' = [call EXCEPT ![c] = [Idle EXCEPT !.page = page]]
      <4>1. \A page \in Left : Owned(c, [Idle EXCEPT !.page = page])
        BY DEF Owned, Idle, Left
      <4> QED
        BY <1>a, <3>1, <4>1
    <3> QED
      BY <1>11, <1>13, <2>1, <2>2, <3>1 DEF Closing
  <2>3. CASE c \notin Logins
    <3>1. Owned(c, Idle)
      BY DEF Owned, Idle
    <3> QED
      BY <1>0, <1>13, <2>1, <2>3, <3>1, ReleaseOwned DEF Closing
  <2> QED
    BY <2>2, <2>3
<1> QED
  BY <1>1, <1>2, <1>3, <1>4, <1>5, <1>6, <1>8, <1>9, <1>10, <1>12, <1>13 DEF Progress

\* Whatever times out, fails or comes late, for any number of calls: a page that is
\* there belongs to a call that is still to close it, and a page that is still to
\* come after its setup was given up is known to be late and closed when it comes.
THEOREM PagesStayOwned == Spec => []PagesHaveAnOwner
<1>1. Init => PagesHaveAnOwner
  BY DEF Init, Idle, PagesHaveAnOwner
<1>2. IInv /\ PagesHaveAnOwner /\ [Next]_vars => PagesHaveAnOwner'
  <2> SUFFICES ASSUME IInv, PagesHaveAnOwner, [Next]_vars PROVE PagesHaveAnOwner'
    OBVIOUS
  <2>1. \A c \in Callers : Owned(c, call[c])
    BY PagesAreOwned
  <2>2. \A c \in Callers : Owned(c, call'[c])
    <3>1. CASE UNCHANGED call
      BY <2>1, <3>1
    <3>2. CASE \E c \in Callers : Acquire(c) \/ Progress(c)
      BY <2>1, <3>2, CallsOwn
    <3> QED
      BY <3>1, <3>2 DEF Next, Host, Tick, vars
  <2> QED
    BY <2>2 DEF PagesHaveAnOwner, Owned, At
<1> QED
  BY <1>1, <1>2, Invariance, PTL DEF Spec
-----------------------------------------------------------------------------
(* The order of the queue.                                                 *)

\* Who gets a slot in this step came first: the head of the queue, or a newcomer
\* when nobody queues.
InTurn ==
  \A c \in Callers : call'[c].slot /\ ~call[c].slot =>
    \/ waiting = <<>> /\ At(c, "idle")
    \/ waiting # <<>> /\ c = Head(waiting) /\ waiting' = Tail(waiting)

SlotsGoInTurn == [][InTurn]_vars

LEMMA AcquireInTurn ==
  ASSUME IInv, NEW c \in Callers, Acquire(c) PROVE InTurn
<1>0. call \in [Callers -> Calls] /\ active \in 0..MaxSlots /\ MaxSlots \in Nat
  BY SlotsAssumption DEF IInv, TypeOK
<1>1. CASE active < MaxSlots
  <2>1. waiting = <<>>
    BY <1>0, <1>1 DEF IInv, SlotInv
  <2>2. call' = [call EXCEPT ![c] = [Idle EXCEPT !.pc = "ensure", !.slot = TRUE]]
    BY <1>1 DEF Acquire
  <2>3. \A d \in Callers : d # c => call'[d] = call[d]
    BY <1>0, <2>2
  <2> QED
    BY <2>1, <2>3 DEF InTurn, Acquire
<1>2. CASE ~(active < MaxSlots)
  <2>1. call' = [call EXCEPT ![c] = [Idle EXCEPT !.pc = "waiting"]]
    BY <1>2 DEF Acquire
  <2>2. \A d \in Callers : call'[d].slot => call[d].slot
    BY <1>0, <2>1 DEF Idle
  <2> QED
    BY <2>2 DEF InTurn
<1> QED
  BY <1>1, <1>2

LEMMA ReleaseInTurn ==
  ASSUME IInv, NEW c \in Callers, NEW row, ~row.slot, ReleaseSlot(c, row) PROVE InTurn
<1>0. call \in [Callers -> Calls] /\ waiting \in Seq(Callers)
  BY DEF IInv, TypeOK
<1> DEFINE rest == [call EXCEPT ![c] = row]
<1>1. \A d \in Callers : rest[d].slot => call[d].slot
  BY <1>0
<1>2. CASE waiting = <<>>
  BY <1>1, <1>2 DEF ReleaseSlot, InTurn
<1>3. CASE waiting # <<>>
  <2>1. /\ call' = [rest EXCEPT ![Head(waiting)].pc = "ensure", ![Head(waiting)].slot = TRUE]
        /\ waiting' = Tail(waiting)
    BY <1>3 DEF ReleaseSlot
  <2>2. DOMAIN rest = Callers
    BY <1>0
  <2> HIDE DEF rest
  <2>3. \A d \in Callers : d # Head(waiting) => call'[d] = rest[d]
    BY <2>1, <2>2
  <2> QED
    BY <1>1, <1>3, <2>1, <2>3 DEF InTurn
<1> QED
  BY <1>2, <1>3

\* No other step gives a slot.
LEMMA ProgressInTurn ==
  ASSUME IInv, NEW c \in Callers, Progress(c) PROVE InTurn
<1>0. call \in [Callers -> Calls]
  BY DEF IInv, TypeOK
<1>a. ASSUME \A d \in Callers : call'[d].slot => call[d].slot PROVE InTurn
  BY <1>a DEF InTurn
<1>1. CASE AcquireTimeout(c)
  BY <1>0, <1>a, <1>1 DEF AcquireTimeout, Goto, Calls
<1>2. CASE EnsureBrowser(c)
  BY <1>a, <1>2 DEF EnsureBrowser
<1>3. CASE Ensured(c)
  <2>1. \/ call' = [call EXCEPT ![c].pc = "setup", ![c].page = "creating"]
        \/ call' = [call EXCEPT ![c].pc = "work", ![c].page = "open"]
        \/ call' = [call EXCEPT ![c].pc = "close"]
    BY <1>3 DEF Ensured, Connect, Goto
  <2> QED
    BY <1>0, <1>a, <2>1 DEF Calls
<1>b. ASSUME NEW pc, NEW page, call' = [call EXCEPT ![c].pc = pc, ![c].page = page] PROVE InTurn
  BY <1>0, <1>a, <1>b DEF Calls
<1>4. CASE PageCreated(c)
  <2>1. \/ \E page \in Left : call' = [call EXCEPT ![c].page = page, ![c].late = FALSE]
        \/ call' = [call EXCEPT ![c].page = "loading"]
    BY <1>4 DEF PageCreated
  <2> QED
    BY <1>0, <1>a, <2>1 DEF Calls
<1>5. CASE PageLoaded(c) \/ PageFails(c)
  BY <1>5, <1>b DEF PageLoaded, PageFails
<1>6. CASE SetupTimeout(c) \/ Work(c)
  <2>1. \/ call' = [call EXCEPT ![c].pc = "close", ![c].late = TRUE]
        \/ \E page \in Left : call' = [call EXCEPT ![c].pc = "close", ![c].page = page]
        \/ call' = [call EXCEPT ![c].pc = "close"]
    BY <1>6 DEF SetupTimeout, Work, Goto
  <2> QED
    BY <1>0, <1>a, <1>b, <2>1 DEF Calls
<1>7. CASE Close(c)
  <2>1. CASE c \in Logins
    <3>1. ~[call[c] EXCEPT !.pc = "closing", !.slot = FALSE].slot
      BY <1>0 DEF Calls
    <3> QED
      BY <1>7, <2>1, <3>1, ReleaseInTurn DEF Close
  <2>2. CASE c \notin Logins
    BY <1>7, <1>b, <2>2 DEF Close
  <2> QED
    BY <2>1, <2>2
<1>8. CASE Closing(c)
  <2>1. CASE c \in Logins
    <3>1. \/ \E page \in Ends(c) : call' = [call EXCEPT ![c].pc = "idle", ![c].page = page]
          \/ \E page \in Left : call' = [call EXCEPT ![c] = [Idle EXCEPT !.page = page]]
      BY <1>8, <2>1 DEF Closing
    <3>2. \A page \in Left : ~[Idle EXCEPT !.page = page].slot
      BY DEF Idle
    <3> QED
      BY <1>0, <1>a, <1>b, <3>1, <3>2
  <2>2. CASE c \notin Logins
    <3>1. ~Idle.slot
      BY DEF Idle
    <3> QED
      BY <1>8, <2>2, <3>1, ReleaseInTurn DEF Closing
  <2> QED
    BY <2>1, <2>2
<1> QED
  BY <1>1, <1>2, <1>3, <1>4, <1>5, <1>6, <1>7, <1>8 DEF Progress

\* Slots are handed out in the order of the queue, and nobody who comes later gets
\* one past it, whatever releases, timers and new calls meet (BrowserSemaphore).
THEOREM QueueIsFair == Spec => SlotsGoInTurn
<1>1. IInv /\ [Next]_vars => [InTurn]_vars
  <2> SUFFICES ASSUME IInv, Next PROVE InTurn
    OBVIOUS
  <2>1. ASSUME UNCHANGED call PROVE InTurn
    BY <2>1 DEF InTurn
  <2>2. (\E l \in Launchers : Host(l)) \/ Tick => InTurn
    BY <2>1 DEF Host, Tick
  <2> QED
    BY <2>2, AcquireInTurn, ProgressInTurn DEF Next
<1> QED
  BY <1>1, Invariance, PTL DEF Spec, SlotsGoInTurn
=============================================================================
