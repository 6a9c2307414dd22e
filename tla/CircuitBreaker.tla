--------------------------- MODULE CircuitBreaker ---------------------------
(***************************************************************************)
(* The circuit breaker of one bank's auto-login: the row of                *)
(* BankAutoLoginConfig (src/modules/bank-auto-login-config/repository.ts)  *)
(* and the policy that changes it (breaker-policy.ts).                     *)
(*                                                                         *)
(* Workers record failures in serializable transactions: a read, then an   *)
(* update that PostgreSQL refuses when the row was written in between.  It *)
(* may refuse a transaction for other dependencies too, or for none        *)
(* (P2034); the repository tries again a few times.  Administrators open   *)
(* and reset the breaker with a read and an unconditional update, outside  *)
(* any transaction, and turn the kill switch with one upsert.              *)
(***************************************************************************)
EXTENDS Integers, Sequences, FiniteSets

CONSTANTS Workers, Admins,
          Threshold,     \* openThreshold
          Window,        \* failureWindowMs, in ticks
          Attempts,      \* SERIALIZABLE_RETRY_ATTEMPTS
          MaxTime,       \* bound: the clock
          MaxReports,    \* bound: failures reported
          MaxCommands    \* bound: commands of the administrators

ASSUME BreakerAssumption ==
  /\ Threshold \in Nat \ {0} /\ Window \in Nat \ {0} /\ Attempts \in Nat \ {0}
  /\ MaxTime \in Nat /\ MaxReports \in Nat /\ MaxCommands \in Nat

VARIABLES row,           \* the row of the bank
          version,       \* how often the row was written
          op,            \* per worker, its recordFailure
          command,       \* per administrator, the command it is in
          clock, reports, commands,
          log,           \* history: stamps of the failures counted since the reset
          before,        \* history: how many of them precede the window
          forced         \* history: an administrator opened the breaker

history == <<log, before, forced>>
vars == <<row, version, op, command, clock, reports, commands, history>>

\* -1 is the database's NULL.
Times == -1..MaxTime

Rows ==
  [exists   : BOOLEAN,
   enabled  : BOOLEAN,
   state    : {"closed", "open"},
   count    : Nat,
   start    : Times,       \* breakerFailureWindowStart
   openedAt : Times]

NoRow == [exists |-> FALSE, enabled |-> FALSE, state |-> "closed", count |-> 0,
          start |-> -1, openedAt |-> -1]

Ops ==
  [at      : {"idle", "read", "write"},
   stamp   : 0..MaxTime,   \* the time the runner passed
   tries   : 1..Attempts,
   row     : Rows,         \* what the transaction read
   version : Nat]

NoOp == [at |-> "idle", stamp |-> 0, tries |-> 1, row |-> NoRow, version |-> 0]

TypeOK ==
  /\ row \in Rows
  /\ version \in Nat
  /\ op \in [Workers -> Ops]
  /\ command \in [Admins -> {"none", "open", "reset"}]
  /\ clock \in 0..MaxTime /\ reports \in 0..MaxReports /\ commands \in 0..MaxCommands
  /\ log \in Seq(0..MaxTime)
  /\ before \in 0..Len(log)
  /\ forced \in BOOLEAN

\* A committed write.
Write(new) == row' = new /\ version' = version + 1

-----------------------------------------------------------------------------
(* The policy.                                                             *)

\* The last tick of the window is fresh too.
IsWindowFresh_Bug(start, now) == start # -1 /\ now - start <= Window

IsWindowFresh(start, now) == start # -1 /\ now - start < Window

\* The breaker opens one failure late.
NextStateOnFailure_Bug(r, now) ==
  LET fresh == IsWindowFresh(r.start, now)
      count == IF fresh THEN r.count + 1 ELSE 1
      open  == count > Threshold
  IN [r EXCEPT !.count = count,
               !.start = IF fresh THEN r.start ELSE now,
               !.state = IF open THEN "open" ELSE "closed",
               !.openedAt = IF open THEN now ELSE -1]

\* A stale window starts over at one; the failure that reaches the threshold opens.
NextStateOnFailure(r, now) ==
  LET fresh == IsWindowFresh(r.start, now)
      count == IF fresh THEN r.count + 1 ELSE 1
      open  == count >= Threshold
  IN [r EXCEPT !.count = count,
               !.start = IF fresh THEN r.start ELSE now,
               !.state = IF open THEN "open" ELSE "closed",
               !.openedAt = IF open THEN now ELSE -1]

-----------------------------------------------------------------------------
(* recordFailure.                                                          *)

\* The runner takes the time, then calls.
ReportFailure(w) ==
  /\ op[w].at = "idle"
  /\ reports < MaxReports /\ reports' = reports + 1
  /\ op' = [op EXCEPT ![w] = [NoOp EXCEPT !.at = "read", !.stamp = clock]]
  /\ UNCHANGED <<row, version, command, clock, commands, history>>

\* No row, or an open breaker: there is nothing to record.
ReadRow(w) ==
  /\ op[w].at = "read"
  /\ IF row.exists /\ row.state = "closed"
     THEN op' = [op EXCEPT ![w].at = "write", ![w].row = row, ![w].version = version]
     ELSE op' = [op EXCEPT ![w] = NoOp]
  /\ UNCHANGED <<row, version, command, clock, reports, commands, history>>

\* The isolation level is the default one: a row that changed is written over.
CommitFailure_Bug(w) ==
  /\ op[w].at = "write"
  /\ Write(NextStateOnFailure(op[w].row, op[w].stamp))
  /\ log' = Append(log, op[w].stamp)
  /\ before' = IF IsWindowFresh(op[w].row.start, op[w].stamp) THEN before ELSE Len(log)
  /\ op' = [op EXCEPT ![w] = NoOp]
  /\ UNCHANGED <<command, clock, reports, commands, forced>>

\* Nobody has written the row since it was read.
CommitFailure(w) ==
  /\ op[w].at = "write" /\ op[w].version = version
  /\ Write(NextStateOnFailure(op[w].row, op[w].stamp))
  /\ log' = Append(log, op[w].stamp)
  /\ before' = IF IsWindowFresh(op[w].row.start, op[w].stamp) THEN before ELSE Len(log)
  /\ op' = [op EXCEPT ![w] = NoOp]
  /\ UNCHANGED <<command, clock, reports, commands, forced>>

\* P2034, for whatever reason and at any of its statements: runSerializableWithRetry
\* tries again, or throws; the runner swallows that.
Conflict(w) ==
  /\ op[w].at # "idle"
  /\ IF op[w].tries < Attempts
     THEN op' = [op EXCEPT ![w].at = "read", ![w].tries = @ + 1]
     ELSE op' = [op EXCEPT ![w] = NoOp]
  /\ UNCHANGED <<row, version, command, clock, reports, commands, history>>

\* Any other error is not tried again.
Abandon(w) ==
  /\ op[w].at # "idle"
  /\ op' = [op EXCEPT ![w] = NoOp]
  /\ UNCHANGED <<row, version, command, clock, reports, commands, history>>

-----------------------------------------------------------------------------
(* The administrators.                                                     *)

Command(a, what) ==
  /\ command[a] = "none"
  /\ commands < MaxCommands /\ commands' = commands + 1
  /\ command' = [command EXCEPT ![a] = what]

Finish(a) == command' = [command EXCEPT ![a] = "none"]

\* openBreaker and resetBreaker find the row before they update it.
FindToOpen(a) ==
  /\ row.exists /\ row.state = "closed"
  /\ Command(a, "open")
  /\ UNCHANGED <<row, version, op, clock, reports, history>>

FindToReset(a) ==
  /\ row.exists
  /\ Command(a, "reset")
  /\ UNCHANGED <<row, version, op, clock, reports, history>>

OpenBreaker(a) ==
  /\ command[a] = "open"
  /\ Finish(a)
  /\ Write([row EXCEPT !.state = "open", !.openedAt = clock])
  /\ forced' = TRUE
  /\ UNCHANGED <<op, clock, reports, commands, log, before>>

\* The failures counted so far stay.
ResetBreaker_Bug(a) ==
  /\ command[a] = "reset"
  /\ Finish(a)
  /\ Write([row EXCEPT !.state = "closed", !.openedAt = -1])
  /\ log' = <<>> /\ before' = 0 /\ forced' = FALSE
  /\ UNCHANGED <<op, clock, reports, commands>>

ResetBreaker(a) ==
  /\ command[a] = "reset"
  /\ Finish(a)
  /\ Write([row EXCEPT !.state = "closed", !.count = 0, !.start = -1, !.openedAt = -1])
  /\ log' = <<>> /\ before' = 0 /\ forced' = FALSE
  /\ UNCHANGED <<op, clock, reports, commands>>

\* The kill switch provisions the row on first use.
SetAutoLoginEnabled(enabled) ==
  /\ commands < MaxCommands /\ commands' = commands + 1
  /\ Write([row EXCEPT !.exists = TRUE, !.enabled = enabled])
  /\ UNCHANGED <<op, command, clock, reports, history>>

UpsertDefaults ==
  /\ ~row.exists
  /\ commands < MaxCommands /\ commands' = commands + 1
  /\ Write([row EXCEPT !.exists = TRUE])
  /\ UNCHANGED <<op, command, clock, reports, history>>

-----------------------------------------------------------------------------

Tick ==
  /\ clock < MaxTime
  /\ clock' = clock + 1
  /\ UNCHANGED <<row, version, op, command, reports, commands, history>>

Init ==
  /\ row = NoRow /\ version = 0
  /\ op = [w \in Workers |-> NoOp]
  /\ command = [a \in Admins |-> "none"]
  /\ clock = 0 /\ reports = 0 /\ commands = 0
  /\ log = <<>> /\ before = 0 /\ forced = FALSE

Next ==
  \/ \E w \in Workers :
       ReportFailure(w) \/ ReadRow(w) \/ CommitFailure(w) \/ Conflict(w) \/ Abandon(w)
  \/ \E a \in Admins : FindToOpen(a) \/ FindToReset(a) \/ OpenBreaker(a) \/ ResetBreaker(a)
  \/ \E enabled \in BOOLEAN : SetAutoLoginEnabled(enabled)
  \/ UpsertDefaults
  \/ Tick

Spec == Init /\ [][Next]_vars

-----------------------------------------------------------------------------
(* Properties.                                                             *)

\* No failure that was committed is lost to a concurrent one or survives a reset:
\* the counter is the number of failures since the window began.
CountIsExact == row.count = Len(log) - before

\* The breaker is open exactly when the window its row keeps holds the threshold,
\* or an administrator opened it; a failure that raced a reset does not open it.
\* That window starts with a failure and is replaced whole once it is over
\* (nextStateOnFailure): see RollingWindowOpens for what it leaves out.
OpensAtThreshold == row.state = "open" <=> forced \/ Len(log) - before >= Threshold

\* What is counted together happened before the window it was counted in ended.
WindowHolds == \A i \in before + 1..Len(log) : log[i] - row.start < Window

\* Only a reset closes the breaker, and nothing is counted while it is open: no
\* cooldown, no half-open probe, no transaction that read it closed.
OpenStaysUntilReset ==
  [][row.state = "open" =>
       \/ row'.state = "open" /\ row'.count = row.count /\ row'.start = row.start
       \/ \E a \in Admins : ResetBreaker(a)]_vars

\* What the policy's comment and spec.md say of the window, that it rolls: a
\* breaker is not left closed when Threshold failures since the last reset lie
\* within less than Window of each other (nextStateOnFailure).
RollingWindowOpens ==
  \A S \in SUBSET DOMAIN log :
    Cardinality(S) = Threshold /\ (\A i, j \in S : log[i] - log[j] < Window) =>
      row.state = "open"
=============================================================================
