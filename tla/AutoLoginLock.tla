---------------------------- MODULE AutoLoginLock ----------------------------
(***************************************************************************)
(* The Redis lock of one (bank, trigger): the Lua scripts of               *)
(* src/modules/bank-auto-login-lock/redis-store.ts.  A script is atomic.   *)
(* A lease token is drawn anew for every acquisition and a fencing number  *)
(* is given out once, so a lease is named by its fencing number; 0 names   *)
(* no lease.  Redis itself ends a key's life: no caller reads a clock.     *)
(***************************************************************************)
EXTENDS Naturals

CONSTANT LockTicks     \* DEFAULT_LOCK_TTL_MS, in ticks of the clock of Redis

ASSUME LockAssumption == LockTicks \in Nat \ {0}

VARIABLES key,         \* the lease stored under the lock key
          ttl,         \* ticks left of the key
          fence,       \* the fencing counter, never reset
          expired      \* history: leases whose key Redis has ended

lockVars == <<key, ttl, fence, expired>>

LockTypeOK ==
  /\ fence \in Nat
  /\ key \in 0..fence
  /\ ttl \in 0..LockTicks
  /\ expired \subseteq 1..fence

LockInit == key = 0 /\ ttl = 0 /\ fence = 0 /\ expired = {}

\* The key is stored without PX.
AcquireSlot_TtlBug ==
  /\ key = 0
  /\ fence' = fence + 1
  /\ key' = fence + 1
  /\ ttl' = 0
  /\ UNCHANGED expired

\* acquireSlot, when the key does not exist.
AcquireSlot ==
  /\ key = 0
  /\ fence' = fence + 1
  /\ key' = fence + 1
  /\ ttl' = LockTicks
  /\ UNCHANGED expired

\* releaseIfOwner, when it returns 1.
ReleaseIfOwner(lease) ==
  /\ lease # 0 /\ key = lease
  /\ key' = 0 /\ ttl' = 0
  /\ UNCHANGED <<fence, expired>>

\* The key's time runs, and ends it.
KeyTick ==
  /\ ttl > 0
  /\ ttl' = ttl - 1
  /\ IF ttl = 1 THEN key' = 0 /\ expired' = expired \cup {key}
                 ELSE UNCHANGED <<key, expired>>
  /\ UNCHANGED fence
=============================================================================
