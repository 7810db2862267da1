------------------------------ MODULE Runtime ------------------------------
(***************************************************************************)
(* Locks and the guard of a static object on the same cores.  A core       *)
(* reaches the declaration of the object without a lock; the constructor   *)
(* and the users of the object may allocate, that is take locks, and have  *)
(* given them back when they end.                                          *)
(***************************************************************************)
EXTENDS Locks, OnceGuard

runtime_vars == <<vars, guard_vars>>

OutsideLocks(c) == pc[c] = "outside" /\ holds[c] = {}
InCode(c) == at[c] \in {"away", "constructing", "using"}

RuntimeInit == Init /\ GuardInit

LockStep(c) ==
    /\ InCode(c)
    /\ (\E l \in Locks : guard(c, l)) \/ try_lock(c) \/ spin(c) \/ unlock(c)
    /\ UNCHANGED guard_vars

GuardStep(c) ==
    /\ OutsideLocks(c)
    /\ \/ declare(c) \/ guard_step(c) \/ construct(c)
       \/ guard_release(c) \/ guard_abort(c) \/ leave(c)
    /\ UNCHANGED vars

RuntimeNext == \E c \in Cores : LockStep(c) \/ GuardStep(c)

\* A core that is in lock() or in __cxa_guard_acquire keeps executing it.
RuntimeSpec ==
    /\ RuntimeInit /\ [][RuntimeNext]_runtime_vars
    /\ \A c \in Cores : /\ WF_runtime_vars(try_lock(c) /\ UNCHANGED guard_vars)
                        /\ WF_runtime_vars(spin(c) /\ UNCHANGED guard_vars)
                        /\ WF_runtime_vars(guard_step(c) /\ UNCHANGED vars)
-----------------------------------------------------------------------------
Waiting(c) ==
    \/ want[c] # None /\ m_state[want[c]] = "LOCKED"
    \/ at[c] = "cas" /\ word = "IN_USE"

\* The cores never all wait, for locks, for the end of a construction, or for a lock that
\* a constructor holds while its own core waits for another.
NotAllWait == \E c \in Cores : ~Waiting(c)

\* No loop misses what it waits for: the inner loop of lock() an unlock, the loop of
\* __cxa_guard_acquire the end of a construction, also while the cores do both.
SpinnersProceed == FreeLockIsTaken /\ WaitersProceed
=============================================================================
