------------------------ MODULE CircuitBreakerProofs ------------------------
(***************************************************************************)
(* CircuitBreaker, for any number of workers and administrators and any    *)
(* threshold.  What carries the properties is optimistic concurrency: a    *)
(* transaction that may commit has read the row as it is (Current).        *)
(***************************************************************************)
EXTENDS CircuitBreaker, SequenceTheorems, TLAPS

\* A transaction that may still commit has read the row as it is.
Current ==
  \A w \in Workers : op[w].at = "write" =>
    /\ op[w].version <= version
    /\ op[w].version = version => op[w].row = row /\ row.exists /\ row.state = "closed"

IInv == TypeOK /\ Current /\ CountIsExact /\ OpensAtThreshold /\ WindowHolds

LEMMA InitEstablishes == Init => IInv
<1> SUFFICES ASSUME Init PROVE IInv
  OBVIOUS
<1> USE BreakerAssumption DEF Init
<1>1. NoRow \in Rows
  BY DEF NoRow, Rows, Times
<1>2. NoOp \in Ops
  BY <1>1 DEF NoOp, Ops
<1>3. TypeOK
  <2>1. log \in Seq(0..MaxTime) /\ Len(log) = 0
    OBVIOUS
  <2>2. op \in [Workers -> Ops] /\ command \in [Admins -> {"none", "open", "reset"}]
    BY <1>2
  <2>3. before \in 0..Len(log)
    BY <2>1
  <2>4. row \in Rows /\ version \in Nat /\ forced \in BOOLEAN
    BY <1>1
  <2>5. clock \in 0..MaxTime /\ reports \in 0..MaxReports /\ commands \in 0..MaxCommands
    OBVIOUS
  <2> HIDE DEF Init
  <2> QED
    BY <2>1, <2>2, <2>3, <2>4, <2>5 DEF TypeOK
<1>4. Current
  BY DEF Current, NoOp
<1>5. CountIsExact /\ OpensAtThreshold /\ WindowHolds
  BY DEF CountIsExact, OpensAtThreshold, WindowHolds, NoRow
<1> QED
  BY <1>3, <1>4, <1>5 DEF IInv

\* A step that leaves the row and what was counted alone, and moves one worker.
LEMMA QuietStep ==
  ASSUME TypeOK, CountIsExact, OpensAtThreshold, WindowHolds, UNCHANGED <<row, history>>
  PROVE  CountIsExact' /\ OpensAtThreshold' /\ WindowHolds'
BY DEF CountIsExact, OpensAtThreshold, WindowHolds, history

\* A write makes every transaction that has read the row conflict.
LEMMA WriteStep ==
  ASSUME TypeOK, Current, NEW new, Write(new), UNCHANGED op
  PROVE  Current'
BY DEF TypeOK, Current, Write, Ops

LEMMA NextStateTypes ==
  ASSUME NEW r \in Rows, NEW now \in 0..MaxTime
  PROVE  /\ NextStateOnFailure(r, now) \in Rows
         /\ IF IsWindowFresh(r.start, now)
            THEN /\ NextStateOnFailure(r, now).count = r.count + 1
                 /\ NextStateOnFailure(r, now).start = r.start
            ELSE /\ NextStateOnFailure(r, now).count = 1
                 /\ NextStateOnFailure(r, now).start = now
         /\ NextStateOnFailure(r, now).state = "open" <=> NextStateOnFailure(r, now).count >= Threshold
<1> DEFINE fresh == IsWindowFresh(r.start, now)
           count == IF fresh THEN r.count + 1 ELSE 1
           open  == count >= Threshold
           start == IF fresh THEN r.start ELSE now
           state == IF open THEN "open" ELSE "closed"
           opened == IF open THEN now ELSE -1
<1>1. /\ count \in Nat /\ start \in Times
      /\ state \in {"closed", "open"} /\ opened \in Times
  BY BreakerAssumption DEF Rows, Times
<1>2. NextStateOnFailure(r, now) =
        [r EXCEPT !.count = count, !.start = start, !.state = state, !.openedAt = opened]
  BY DEF NextStateOnFailure
<1>3. [r EXCEPT !.count = count, !.start = start, !.state = state, !.openedAt = opened] \in Rows
  <2> HIDE DEF count, start, state, opened
  <2> QED
    BY <1>1 DEF Rows
<1>4. /\ NextStateOnFailure(r, now).count = count
      /\ NextStateOnFailure(r, now).start = start
      /\ NextStateOnFailure(r, now).state = state
  <2> HIDE DEF count, start, state, opened
  <2> QED
    BY <1>2 DEF Rows
<1> QED
  BY <1>2, <1>3, <1>4

-----------------------------------------------------------------------------
(* Every action preserves the invariant.                                   *)

\* The commit of a failure, the step that changes everything at once.
LEMMA CommitPreserves ==
  ASSUME IInv, NEW w \in Workers, CommitFailure(w) PROVE IInv'
<1> USE BreakerAssumption
<1> DEFINE r == op[w].row
           now == op[w].stamp
           fresh == IsWindowFresh(r.start, now)
<1>0. /\ TypeOK /\ r = row /\ row.state = "closed" /\ now \in 0..MaxTime
      /\ op[w] \in Ops /\ row \in Rows
  BY DEF IInv, Current, CommitFailure, TypeOK, Ops
<1>1. /\ row' = NextStateOnFailure(row, now) /\ version' = version + 1
      /\ log' = Append(log, now)
      /\ before' = IF IsWindowFresh(row.start, now) THEN before ELSE Len(log)
      /\ op' = [op EXCEPT ![w] = NoOp]
      /\ UNCHANGED <<command, clock, reports, commands, forced>>
  BY <1>0 DEF CommitFailure, Write
<1>2. /\ row' \in Rows
      /\ IsWindowFresh(row.start, now) => row'.count = row.count + 1 /\ row'.start = row.start
      /\ ~IsWindowFresh(row.start, now) => row'.count = 1 /\ row'.start = now
      /\ row'.state = "open" <=> row'.count >= Threshold
  BY <1>0, <1>1, NextStateTypes
<1> HIDE DEF r, now, fresh
<1>3. /\ log' \in Seq(0..MaxTime) /\ Len(log') = Len(log) + 1
      /\ \A i \in 1..Len(log) : log'[i] = log[i]
      /\ log'[Len(log) + 1] = now
      /\ Len(log) \in Nat
  BY <1>0, <1>1 DEF TypeOK
<1>4. before' \in 0..Len(log')
  BY <1>0, <1>1, <1>3 DEF TypeOK
<1>5. TypeOK'
  <2>1. op' \in [Workers -> Ops]
    <3>1. NoRow \in Rows
      BY DEF NoRow, Rows, Times
    <3>2. NoOp \in Ops
      BY <3>1 DEF NoOp, Ops
    <3> QED
      BY <1>0, <1>1, <3>2 DEF TypeOK
  <2> QED
    BY <1>0, <1>1, <1>2, <1>3, <1>4, <2>1 DEF TypeOK
<1>6. Current'
  <2>1. \A v \in Workers : v # w => op'[v] = op[v]
    BY <1>0, <1>1 DEF TypeOK
  <2>2. op'[w].at = "idle"
    BY <1>0, <1>1 DEF TypeOK, NoOp
  <2>3. \A v \in Workers : op[v].version \in Nat
    BY <1>0 DEF TypeOK, Ops
  <2>4. version \in Nat /\ version' = version + 1
    BY <1>0, <1>1 DEF TypeOK
  <2>5. ASSUME NEW v \in Workers, v # w, op[v].at = "write"
        PROVE  op[v].version <= version' /\ op[v].version # version'
    BY <2>3, <2>4, <2>5 DEF IInv, Current
  <2> QED
    BY <2>1, <2>2, <2>5 DEF Current
<1>7. CountIsExact'
  <2>1. row.count \in Nat /\ row.count = Len(log) - before /\ before \in Nat
    BY <1>0 DEF IInv, CountIsExact, Rows, TypeOK
  <2>2. before' = (IF IsWindowFresh(row.start, now) THEN before ELSE Len(log))
    BY <1>1
  <2>3. row'.count = Len(log') - before'
    <3>1. Len(log') = Len(log) + 1 /\ Len(log) \in Nat
      BY <1>3
    <3>2. CASE IsWindowFresh(row.start, now)
      <4>1. row'.count = row.count + 1 /\ before' = before
        BY <1>2, <2>2, <3>2
      <4> QED
        BY <2>1, <3>1, <4>1
    <3>3. CASE ~IsWindowFresh(row.start, now)
      <4>1. row'.count = 1 /\ before' = Len(log)
        BY <1>2, <2>2, <3>3
      <4> QED
        BY <3>1, <4>1
    <3> QED
      BY <3>2, <3>3
  <2> QED
    BY <2>3 DEF CountIsExact
<1>8. OpensAtThreshold'
  <2>1. ~forced
    BY <1>0 DEF IInv, OpensAtThreshold
  <2>2. ~forced' /\ row'.count = Len(log') - before'
    BY <1>1, <1>7, <2>1 DEF CountIsExact
  <2> QED
    BY <1>2, <2>2 DEF OpensAtThreshold
<1>9. WindowHolds'
  <2>1. \A i \in before + 1..Len(log) : log[i] - row.start < Window
    BY DEF IInv, WindowHolds
  <2>2. row.start \in Int /\ before \in Nat /\ now \in Nat /\ Window \in Nat \ {0}
    BY <1>0 DEF Rows, Times, TypeOK
  <2>3. CASE IsWindowFresh(row.start, now)
    <3>1. now - row.start < Window /\ before' = before /\ row'.start = row.start
      BY <1>1, <1>2, <2>3 DEF IsWindowFresh
    <3>2. SUFFICES ASSUME NEW i \in before + 1..Len(log) + 1
                   PROVE  log'[i] - row.start < Window
      BY <1>3, <3>1 DEF WindowHolds
    <3>3. CASE i = Len(log) + 1
      BY <1>3, <3>1, <3>3
    <3>4. CASE i # Len(log) + 1
      <4>1. i \in before + 1..Len(log) /\ i \in 1..Len(log)
        BY <1>3, <2>2, <3>4
      <4> QED
        BY <1>3, <2>1, <4>1
    <3> QED
      BY <3>3, <3>4
  <2>4. CASE ~IsWindowFresh(row.start, now)
    <3>1. before' = Len(log) /\ row'.start = now
      BY <1>1, <1>2, <2>4
    <3>2. \A i \in Len(log) + 1..Len(log) + 1 : i = Len(log) + 1
      BY <1>3
    <3> QED
      BY <1>3, <2>2, <3>1, <3>2 DEF WindowHolds
  <2> QED
    BY <2>3, <2>4
<1> QED
  BY <1>5, <1>6, <1>7, <1>8, <1>9 DEF IInv

\* What a step does that writes nothing, short of the worker it moves.
LEMMA MovePreserves ==
  ASSUME IInv, NEW w \in Workers, NEW new \in Ops,
         op' = [op EXCEPT ![w] = new], UNCHANGED <<row, version, command, clock, commands, history>>,
         reports' \in 0..MaxReports,
         new.at = "write" => /\ new.version = version /\ new.row = row
                             /\ row.exists /\ row.state = "closed"
  PROVE  IInv'
<1>0. TypeOK
  BY DEF IInv
<1>1. TypeOK'
  BY <1>0 DEF TypeOK, history
<1>2. op'[w] = new /\ \A v \in Workers : v # w => op'[v] = op[v]
  BY <1>0 DEF TypeOK
<1>3. Current'
  BY <1>0, <1>2 DEF IInv, Current, TypeOK
<1> QED
  BY <1>0, <1>1, <1>3, QuietStep DEF IInv

\* What a command does that writes the row.
LEMMA WritePreserves ==
  ASSUME IInv, NEW new \in Rows, Write(new), UNCHANGED <<op, clock, reports>>,
         command' \in [Admins -> {"none", "open", "reset"}], commands' \in 0..MaxCommands,
         \/ /\ new.count = row.count /\ new.start = row.start
            /\ UNCHANGED <<log, before>>
            /\ \/ new.state = row.state /\ UNCHANGED forced
               \/ new.state = "open" /\ forced' = TRUE
         \/ /\ new.count = 0 /\ new.state = "closed"
            /\ log' = <<>> /\ before' = 0 /\ forced' = FALSE
  PROVE  IInv'
<1> USE BreakerAssumption
<1>0. TypeOK /\ row' = new
  BY DEF IInv, Write
<1>1. Current'
  BY WriteStep DEF IInv
<1>2. CASE /\ new.count = row.count /\ new.start = row.start
           /\ UNCHANGED <<log, before>>
           /\ \/ new.state = row.state /\ UNCHANGED forced
              \/ new.state = "open" /\ forced' = TRUE
  <2>1. TypeOK'
    <3>0. forced' \in BOOLEAN
      <4>1. forced \in BOOLEAN
        BY <1>0 DEF TypeOK
      <4>2. forced' = forced \/ forced' = TRUE \/ forced' = FALSE
        BY <1>2
      <4> QED
        BY <4>1, <4>2, Zenon
    <3>1. version' \in Nat /\ row' \in Rows
      BY <1>0 DEF TypeOK, Write
    <3>2. log' = log /\ before' = before
      BY <1>2
    <3>3. log' \in Seq(0..MaxTime) /\ before' \in 0..Len(log')
      BY <1>0, <3>2 DEF TypeOK
    <3> QED
      BY <1>0, <3>0, <3>1, <3>3 DEF TypeOK
  <2>2. CountIsExact' /\ WindowHolds'
    BY <1>0, <1>2 DEF IInv, CountIsExact, WindowHolds
  <2>3. OpensAtThreshold'
    BY <1>0, <1>2 DEF IInv, OpensAtThreshold
  <2> QED
    BY <1>1, <2>1, <2>2, <2>3 DEF IInv
<1>3. CASE /\ new.count = 0 /\ new.state = "closed"
           /\ log' = <<>> /\ before' = 0 /\ forced' = FALSE
  <2>1. log' \in Seq(0..MaxTime) /\ Len(log') = 0 /\ before' \in 0..Len(log')
    BY <1>3
  <2>2. TypeOK'
    <3>0. forced' \in BOOLEAN
      <4>1. forced \in BOOLEAN
        BY <1>0 DEF TypeOK
      <4>2. forced' = forced \/ forced' = TRUE \/ forced' = FALSE
        BY <1>3
      <4> QED
        BY <4>1, <4>2, Zenon
    <3>1. version' \in Nat /\ row' \in Rows
      BY <1>0 DEF TypeOK, Write
    <3> QED
      BY <1>0, <2>1, <3>0, <3>1 DEF TypeOK
  <2>3. CountIsExact'
    BY <1>0, <1>3, <2>1 DEF CountIsExact
  <2>4. WindowHolds'
    BY <1>3, <2>1 DEF WindowHolds
  <2>5. OpensAtThreshold'
    BY <1>0, <1>3, <2>1 DEF OpensAtThreshold
  <2> QED
    BY <1>1, <2>2, <2>3, <2>4, <2>5 DEF IInv
<1> QED
  BY <1>2, <1>3

\* A step that writes nothing and moves no worker.
LEMMA IdlePreserves ==
  ASSUME IInv, UNCHANGED <<row, version, op, reports, history>>,
         command' \in [Admins -> {"none", "open", "reset"}],
         clock' \in 0..MaxTime, commands' \in 0..MaxCommands
  PROVE  IInv'
<1>1. TypeOK'
  BY DEF IInv, TypeOK, history
<1>2. Current'
  BY DEF IInv, Current
<1> QED
  BY <1>1, <1>2, QuietStep DEF IInv

LEMMA StepPreserves == IInv /\ [Next]_vars => IInv'
<1> SUFFICES ASSUME IInv, [Next]_vars PROVE IInv'
  OBVIOUS
<1> USE BreakerAssumption
<1>0. TypeOK
  BY DEF IInv
<1>a. NoRow \in Rows
  BY DEF NoRow, Rows, Times
<1>b. NoOp \in Ops /\ NoOp.at = "idle"
  BY <1>a DEF NoOp, Ops
<1>1. ASSUME NEW w \in Workers, ReportFailure(w) PROVE IInv'
  <2> DEFINE new == [NoOp EXCEPT !.at = "read", !.stamp = clock]
  <2>1. new \in Ops /\ new.at = "read"
    BY <1>0, <1>b DEF Ops, NoOp, TypeOK
  <2>2. op' = [op EXCEPT ![w] = new] /\ UNCHANGED <<row, version, command, clock, commands, history>>
    BY <1>1 DEF ReportFailure
  <2>3. reports' \in 0..MaxReports
    BY <1>0, <1>1 DEF ReportFailure, TypeOK
  <2> HIDE DEF new
  <2> QED
    BY <2>1, <2>2, <2>3, MovePreserves
<1>2. ASSUME NEW w \in Workers, ReadRow(w) PROVE IInv'
  <2>1. CASE row.exists /\ row.state = "closed"
    <3> DEFINE new == [op[w] EXCEPT !.at = "write", !.row = row, !.version = version]
    <3>1. new \in Ops /\ new.at = "write" /\ new.version = version /\ new.row = row
      BY <1>0 DEF TypeOK, Ops
    <3>2. op' = [op EXCEPT ![w] = new] /\ UNCHANGED <<row, version, command, clock, commands, reports, history>>
      BY <1>2, <2>1 DEF ReadRow
    <3>3. reports' \in 0..MaxReports
      BY <1>0, <3>2 DEF TypeOK
    <3> HIDE DEF new
    <3> QED
      BY <2>1, <3>1, <3>2, <3>3, MovePreserves
  <2>2. CASE op' = [op EXCEPT ![w] = NoOp]
    BY <1>0, <1>2, <1>b, <2>2, MovePreserves DEF ReadRow, TypeOK
  <2> QED
    BY <1>2, <2>1, <2>2 DEF ReadRow
<1>3. ASSUME NEW w \in Workers, CommitFailure(w) PROVE IInv'
  BY <1>3, CommitPreserves
<1>4. ASSUME NEW w \in Workers, Conflict(w) PROVE IInv'
  <2>1. CASE op[w].tries < Attempts
    <3> DEFINE new == [op[w] EXCEPT !.at = "read", !.tries = op[w].tries + 1]
    <3>1. op[w].tries + 1 \in 1..Attempts
      BY <1>0, <2>1 DEF TypeOK, Ops
    <3>2. new \in Ops /\ new.at = "read"
      BY <1>0, <3>1 DEF TypeOK, Ops
    <3>3. op' = [op EXCEPT ![w] = new] /\ UNCHANGED <<row, version, command, clock, commands, reports, history>>
      BY <1>4, <2>1 DEF Conflict
    <3>4. reports' \in 0..MaxReports
      BY <1>0, <3>3 DEF TypeOK
    <3> HIDE DEF new
    <3> QED
      BY <3>2, <3>3, <3>4, MovePreserves
  <2>2. CASE op' = [op EXCEPT ![w] = NoOp]
    BY <1>0, <1>4, <1>b, <2>2, MovePreserves DEF Conflict, TypeOK
  <2> QED
    BY <1>4, <2>1, <2>2 DEF Conflict
<1>5. ASSUME NEW w \in Workers, Abandon(w) PROVE IInv'
  BY <1>0, <1>5, <1>b, MovePreserves DEF Abandon, TypeOK
<1>6. ASSUME NEW a \in Admins, FindToOpen(a) \/ FindToReset(a) PROVE IInv'
  <2>1. command' \in [Admins -> {"none", "open", "reset"}] /\ commands' \in 0..MaxCommands
    BY <1>0, <1>6 DEF FindToOpen, FindToReset, Command, TypeOK
  <2>2. UNCHANGED <<row, version, op, clock, reports, history>>
    BY <1>6 DEF FindToOpen, FindToReset
  <2> QED
    BY <1>0, <2>1, <2>2, IdlePreserves DEF TypeOK
<1>7. ASSUME NEW a \in Admins, OpenBreaker(a) PROVE IInv'
  <2> DEFINE new == [row EXCEPT !.state = "open", !.openedAt = clock]
  <2>0. clock \in Times
    BY <1>0 DEF TypeOK, Times
  <2>1. new \in Rows /\ new.state = "open" /\ new.count = row.count /\ new.start = row.start
    BY <1>0, <2>0 DEF TypeOK, Rows
  <2>2. command' \in [Admins -> {"none", "open", "reset"}]
    BY <1>0, <1>7 DEF OpenBreaker, Finish, TypeOK
  <2>3. /\ Write(new) /\ forced' = TRUE
        /\ UNCHANGED <<op, clock, reports, commands, log, before>>
    BY <1>7 DEF OpenBreaker
  <2> HIDE DEF new
  <2> QED
    BY <1>0, <2>1, <2>2, <2>3, WritePreserves DEF TypeOK
<1>8. ASSUME NEW a \in Admins, ResetBreaker(a) PROVE IInv'
  <2> DEFINE new == [row EXCEPT !.state = "closed", !.count = 0, !.start = -1, !.openedAt = -1]
  <2>0. -1 \in Times
    BY DEF Times
  <2>1. new \in Rows /\ new.state = "closed" /\ new.count = 0
    BY <1>0, <2>0 DEF TypeOK, Rows
  <2>2. command' \in [Admins -> {"none", "open", "reset"}]
    BY <1>0, <1>8 DEF ResetBreaker, Finish, TypeOK
  <2>3. /\ Write(new) /\ log' = <<>> /\ before' = 0 /\ forced' = FALSE
        /\ UNCHANGED <<op, clock, reports, commands>>
    BY <1>8 DEF ResetBreaker
  <2> HIDE DEF new
  <2> QED
    BY <1>0, <2>1, <2>2, <2>3, WritePreserves DEF TypeOK
<1>9. ASSUME NEW enabled \in BOOLEAN, SetAutoLoginEnabled(enabled) PROVE IInv'
  <2> DEFINE new == [row EXCEPT !.exists = TRUE, !.enabled = enabled]
  <2>1. new \in Rows /\ new.state = row.state /\ new.count = row.count /\ new.start = row.start
    BY <1>0 DEF TypeOK, Rows
  <2>2. /\ Write(new) /\ UNCHANGED <<op, command, clock, reports, log, before, forced>>
    BY <1>9 DEF SetAutoLoginEnabled, history
  <2>3. commands' \in 0..MaxCommands /\ command' \in [Admins -> {"none", "open", "reset"}]
    BY <1>0, <1>9, <2>2 DEF SetAutoLoginEnabled, TypeOK
  <2> HIDE DEF new
  <2> QED
    BY <2>1, <2>2, <2>3, WritePreserves
<1>10. CASE UpsertDefaults
  <2> DEFINE new == [row EXCEPT !.exists = TRUE]
  <2>1. new \in Rows /\ new.state = row.state /\ new.count = row.count /\ new.start = row.start
    BY <1>0 DEF TypeOK, Rows
  <2>2. /\ Write(new) /\ UNCHANGED <<op, command, clock, reports, log, before, forced>>
    BY <1>10 DEF UpsertDefaults, history
  <2>3. commands' \in 0..MaxCommands /\ command' \in [Admins -> {"none", "open", "reset"}]
    BY <1>0, <1>10, <2>2 DEF UpsertDefaults, TypeOK
  <2> HIDE DEF new
  <2> QED
    BY <2>1, <2>2, <2>3, WritePreserves
<1>11. CASE Tick
  BY <1>0, <1>11, IdlePreserves DEF Tick, TypeOK
<1>12. CASE UNCHANGED vars
  BY <1>0, <1>12, IdlePreserves DEF vars, TypeOK
<1> QED
  BY <1>1, <1>2, <1>3, <1>4, <1>5, <1>6, <1>7, <1>8, <1>9, <1>10, <1>11, <1>12 DEF Next

LEMMA Invariance == Spec => []IInv
BY InitEstablishes, StepPreserves, PTL DEF Spec

-----------------------------------------------------------------------------
(* The theorems.                                                           *)

\* The row, its transactions and its commands keep their types.
THEOREM TypeCorrect == Spec => []TypeOK
BY Invariance, PTL DEF IInv

\* No committed failure is lost to a concurrent one, and none survives a reset,
\* for any number of workers (recordFailure, resetBreaker).
THEOREM CountsAreExact == Spec => []CountIsExact
BY Invariance, PTL DEF IInv

\* The breaker is open exactly at the threshold or by an administrator's hand
\* (nextStateOnFailure).
THEOREM OpensExactly == Spec => []OpensAtThreshold
BY Invariance, PTL DEF IInv

\* Failures counted together fell into one window (isWindowFresh).
THEOREM WindowsHold == Spec => []WindowHolds
BY Invariance, PTL DEF IInv

\* Only a reset leads from open to closed: a transaction that read the row closed
\* does not commit over an open one.
THEOREM OpenStays == Spec => OpenStaysUntilReset
<1> DEFINE A == row.state = "open" =>
                  \/ row'.state = "open" /\ row'.count = row.count /\ row'.start = row.start
                  \/ \E a \in Admins : ResetBreaker(a)
<1>1. IInv /\ [Next]_vars => [A]_vars
  <2> SUFFICES ASSUME IInv, [Next]_vars, row.state = "open", ~ \E a \in Admins : ResetBreaker(a)
               PROVE  row'.state = "open" /\ row'.count = row.count /\ row'.start = row.start
    OBVIOUS
  <2>0. row \in Rows
    BY DEF IInv, TypeOK
  <2>1. CASE UNCHANGED row
    BY <2>1
  <2>2. ~ \E w \in Workers : CommitFailure(w)
    BY DEF CommitFailure, IInv, Current
  <2>3. ASSUME NEW a \in Admins, OpenBreaker(a)
        PROVE  row'.state = "open" /\ row'.count = row.count /\ row'.start = row.start
    BY <2>0, <2>3 DEF OpenBreaker, Write, Rows
  <2>4. ASSUME NEW enabled, SetAutoLoginEnabled(enabled) \/ UpsertDefaults
        PROVE  row'.state = "open" /\ row'.count = row.count /\ row'.start = row.start
    BY <2>0, <2>4 DEF SetAutoLoginEnabled, UpsertDefaults, Write, Rows
  <2>5. \/ UNCHANGED row
        \/ \E a \in Admins : OpenBreaker(a)
        \/ \E enabled \in BOOLEAN : SetAutoLoginEnabled(enabled)
        \/ UpsertDefaults
    BY <2>2 DEF Next, ReportFailure, ReadRow, Conflict, Abandon, FindToOpen, FindToReset, Tick, vars
  <2> QED
    BY <2>1, <2>3, <2>4, <2>5
<1> QED
  BY <1>1, Invariance, PTL DEF Spec, OpenStaysUntilReset

-----------------------------------------------------------------------------
(* The breaker as its callers may think of it: each operation one step.    *)

RecordsFailure ==
  \E now \in 0..clock :
    row.exists /\ row.state = "closed" /\ row' = NextStateOnFailure(row, now)

Opens  == row.exists /\ row' = [row EXCEPT !.state = "open", !.openedAt = clock]
Resets ==
  /\ row.exists
  /\ row' = [row EXCEPT !.state = "closed", !.count = 0, !.start = -1, !.openedAt = -1]

Switches   == \E on \in BOOLEAN : row' = [row EXCEPT !.exists = TRUE, !.enabled = on]
Provisions == ~row.exists /\ row' = [row EXCEPT !.exists = TRUE]

AtomicBreaker ==
  row = NoRow /\ [][RecordsFailure \/ Opens \/ Resets \/ Switches \/ Provisions]_row

\* Failures were reported in the past, and a command has found the row, which is
\* never deleted.
Sound ==
  /\ \A w \in Workers : op[w].stamp <= clock
  /\ \A a \in Admins : command[a] # "none" => row.exists

\* The types the steps below rely on.
LEMMA Shapes ==
  ASSUME TypeOK
  PROVE  /\ row \in Rows /\ op \in [Workers -> Ops] /\ clock \in Nat
         /\ command \in [Admins -> {"none", "open", "reset"}]
         /\ \A w \in Workers : op[w].stamp \in 0..MaxTime /\ op[w].stamp \in Nat
<1>1. 0..MaxTime \subseteq Nat
  BY BreakerAssumption
<1>2. op \in [Workers -> Ops] /\ clock \in 0..MaxTime
  BY DEF TypeOK
<1>3. \A w \in Workers : op[w].stamp \in 0..MaxTime
  BY <1>2 DEF Ops
<1> QED
  BY <1>1, <1>2, <1>3 DEF TypeOK

\* Nothing a worker does dates a failure later than the clock.
LEMMA StampsStayPast ==
  ASSUME TypeOK, Sound, [Next]_vars PROVE \A v \in Workers : op'[v].stamp <= clock'
<1>0. /\ op \in [Workers -> Ops] /\ clock \in Nat
      /\ \A w \in Workers : op[w].stamp \in Nat /\ op[w].stamp <= clock
  BY Shapes DEF Sound
<1>1. ASSUME NEW v \in Workers, UNCHANGED clock, op'[v].stamp \in {0, clock, op[v].stamp}
      PROVE  op'[v].stamp <= clock'
  BY <1>0, <1>1
<1> DEFINE reported == [NoOp EXCEPT !.at = "read", !.stamp = clock]
<1>2. NoOp.stamp = 0 /\ reported.stamp = clock
  BY DEF NoOp
<1> HIDE DEF reported
<1>3. ASSUME NEW w \in Workers,
             ReportFailure(w) \/ ReadRow(w) \/ CommitFailure(w) \/ Conflict(w) \/ Abandon(w),
             NEW v \in Workers
      PROVE  op'[v].stamp <= clock'
  <2>1. CASE ReportFailure(w)
    <3>1. op' = [op EXCEPT ![w] = reported] /\ UNCHANGED clock
      BY <2>1 DEF ReportFailure, reported
    <3>2. op'[v].stamp \in {clock, op[v].stamp}
      BY <1>0, <1>2, <3>1
    <3> QED
      BY <1>1, <3>1, <3>2
  <2>2. CASE op' = [op EXCEPT ![w] = NoOp] /\ UNCHANGED clock
    <3>1. op'[v].stamp \in {0, op[v].stamp}
      BY <1>0, <1>2, <2>2
    <3> QED
      BY <1>1, <2>2, <3>1
  <2>3. CASE /\ UNCHANGED clock
             /\ \/ op' = [op EXCEPT ![w].at = "write", ![w].row = row, ![w].version = version]
                \/ op' = [op EXCEPT ![w].at = "read", ![w].tries = @ + 1]
    <3>1. op'[v].stamp = op[v].stamp
      BY <1>0, <2>3 DEF Ops
    <3> QED
      BY <1>1, <2>3, <3>1
  <2> QED
    BY <1>3, <2>1, <2>2, <2>3 DEF ReadRow, CommitFailure, Conflict, Abandon
<1>4. ASSUME UNCHANGED op, clock' \in {clock, clock + 1}, NEW v \in Workers
      PROVE  op'[v].stamp <= clock'
  BY <1>0, <1>4
<1>5. \/ \E w \in Workers :
           ReportFailure(w) \/ ReadRow(w) \/ CommitFailure(w) \/ Conflict(w) \/ Abandon(w)
      \/ UNCHANGED op /\ clock' \in {clock, clock + 1}
  BY DEF Next, FindToOpen, FindToReset, OpenBreaker, ResetBreaker, SetAutoLoginEnabled,
         UpsertDefaults, Tick, vars
<1> QED
  BY <1>3, <1>4, <1>5

\* What the next step does to the row.
LEMMA RowSteps ==
  ASSUME IInv, Sound, [Next]_vars
  PROVE  RecordsFailure \/ Opens \/ Resets \/ Switches \/ Provisions \/ UNCHANGED row
<1>0. /\ \A w \in Workers : op[w].stamp \in Nat /\ op[w].stamp <= clock
      /\ clock \in Nat
  BY Shapes DEF IInv, Sound
<1>1. ASSUME NEW w \in Workers, CommitFailure(w) PROVE RecordsFailure
  <2>1. op[w].row = row /\ row.exists /\ row.state = "closed"
    BY <1>1 DEF IInv, Current, CommitFailure
  <2>2. row' = NextStateOnFailure(row, op[w].stamp)
    BY <1>1, <2>1 DEF CommitFailure, Write
  <2>3. op[w].stamp \in 0..clock
    BY <1>0
  <2> QED
    BY <2>1, <2>2, <2>3 DEF RecordsFailure
<1>2. ASSUME NEW a \in Admins, OpenBreaker(a) \/ ResetBreaker(a) PROVE Opens \/ Resets
  BY <1>2 DEF OpenBreaker, ResetBreaker, Write, Sound, Opens, Resets
<1>3. ASSUME NEW on \in BOOLEAN, SetAutoLoginEnabled(on) PROVE Switches
  BY <1>3 DEF SetAutoLoginEnabled, Write, Switches
<1>4. UpsertDefaults => Provisions
  BY DEF UpsertDefaults, Write, Provisions
<1> QED
  BY <1>1, <1>2, <1>3, <1>4
     DEF Next, ReportFailure, ReadRow, Conflict, Abandon, FindToOpen, FindToReset, Tick, vars

LEMMA SoundStep ==
  ASSUME IInv, Sound, [Next]_vars PROVE Sound'
<1>0. row \in Rows /\ command \in [Admins -> {"none", "open", "reset"}]
  BY DEF IInv, TypeOK
<1>1. row.exists => row'.exists
  <2>1. ASSUME NEW now PROVE NextStateOnFailure(row, now).exists = row.exists
    BY <1>0 DEF NextStateOnFailure, Rows
  <2>2. CASE RecordsFailure
    BY <2>1, <2>2 DEF RecordsFailure
  <2>3. CASE Opens \/ Resets \/ Switches \/ Provisions
    BY <1>0, <2>3 DEF Opens, Resets, Switches, Provisions, Rows
  <2> QED
    BY <2>2, <2>3, RowSteps
<1>2. ASSUME NEW a \in Admins, command'[a] # "none" PROVE row'.exists
  <2>1. CASE command'[a] = command[a]
    BY <1>1, <1>2, <2>1 DEF Sound
  <2>2. CASE \E b \in Admins : FindToOpen(b) \/ FindToReset(b)
    BY <1>1, <2>2 DEF FindToOpen, FindToReset
  <2>3. CASE \E b \in Admins : OpenBreaker(b) \/ ResetBreaker(b)
    BY <1>0, <1>2, <2>1, <2>3 DEF OpenBreaker, ResetBreaker, Finish
  <2>4. \/ UNCHANGED command
        \/ \E b \in Admins : FindToOpen(b) \/ FindToReset(b)
        \/ \E b \in Admins : OpenBreaker(b) \/ ResetBreaker(b)
    BY DEF Next, ReportFailure, ReadRow, CommitFailure, Conflict, Abandon, SetAutoLoginEnabled,
           UpsertDefaults, Tick, vars
  <2> QED
    BY <2>1, <2>2, <2>3, <2>4
<1> QED
  BY <1>2, StampsStayPast DEF IInv, Sound

\* However recordFailure's transactions and the administrators' commands interleave,
\* the row changes as if each had been one step: the Serializable isolation with its
\* retries leaves nothing of the gap between the read and the write
\* (runSerializableWithRetry, openBreaker, resetBreaker).
THEOREM BreakerIsAtomic == Spec => AtomicBreaker
<1>1. Init => row = NoRow /\ Sound
  BY BreakerAssumption DEF Init, Sound, NoOp
<1>2. IInv /\ Sound /\ [Next]_vars => Sound'
  BY SoundStep
<1>3. IInv /\ Sound /\ [Next]_vars
        => [RecordsFailure \/ Opens \/ Resets \/ Switches \/ Provisions]_row
  BY RowSteps
<1> QED
  BY <1>1, <1>2, <1>3, Invariance, PTL DEF Spec, AtomicBreaker
=============================================================================
