------------------------------- MODULE Locks -------------------------------
(***************************************************************************)
(* The spin locks of memory management: kernel/sync/spinlock.hpp and the   *)
(* guards that kheap.cpp, vmm.cpp and pmm.cpp take, each of which holds    *)
(* its lock while it calls the next: the heap maps pages, the virtual      *)
(* memory manager allocates frames.                                        *)
(*                                                                         *)
(* A core is outside lock(), about to try the compare-and-exchange, or     *)
(* spinning on the relaxed load.  Cores may be a single one: the lock does *)
(* not know its owner, so a core that takes a lock twice waits for itself. *)
(* The atomic operations on the one byte of a lock are sequentially        *)
(* consistent.                                                             *)
(***************************************************************************)
EXTENDS Integers, Processors

Locks == {"kheap", "vmm", "pmm"}
None == "none"

VARIABLES
    m_state,  \* for every lock, SPINLOCK_LOCKED or SPINLOCK_UNLOCKED
    pc,       \* where a core is in lock()
    want,     \* the lock that a core is acquiring, or None
    holds     \* the locks of the guards that a core has not destroyed

vars == <<m_state, pc, want, holds>>

\* The guards that code inside a guard goes on to take: heap_mmap and heap_munmap call
\* vmm, back, release and the page tables call pmm; any of the three may be called
\* from outside.
calls(inside) ==
    CASE inside = None -> Locks
      [] inside = "kheap" -> {"vmm"}
      [] inside = "vmm" -> {"pmm"}
      [] inside = "pmm" -> {}

\* The guard that was constructed last.
innermost(c) == CASE "pmm" \in holds[c] -> "pmm"
                  [] "pmm" \notin holds[c] /\ "vmm" \in holds[c] -> "vmm"
                  [] "pmm" \notin holds[c] /\ "vmm" \notin holds[c] /\ "kheap" \in holds[c] -> "kheap"
                  [] OTHER -> None

Init ==
    /\ m_state = [l \in Locks |-> "UNLOCKED"]
    /\ pc = [c \in Cores |-> "outside"]
    /\ want = [c \in Cores |-> None]
    /\ holds = [c \in Cores |-> {}]

\* The constructor of spinlock_guard calls lock().
guard(c, l) ==
    /\ pc[c] = "outside"
    /\ l \in calls(innermost(c))
    /\ pc' = [pc EXCEPT ![c] = "try"]
    /\ want' = [want EXCEPT ![c] = l]
    /\ UNCHANGED <<m_state, holds>>

\* Faulty: a load followed by a store, the outcome of the load being stale.
try_lock_Stale(c) ==
    /\ pc[c] = "try"
    /\ \/ /\ m_state' = [m_state EXCEPT ![want[c]] = "LOCKED"]
          /\ holds' = [holds EXCEPT ![c] = @ \cup {want[c]}]
          /\ pc' = [pc EXCEPT ![c] = "outside"]
          /\ want' = [want EXCEPT ![c] = None]
       \/ /\ m_state[want[c]] = "LOCKED"
          /\ pc' = [pc EXCEPT ![c] = "spin"]
          /\ UNCHANGED <<m_state, want, holds>>

\* try_lock: the compare-and-exchange.
try_lock(c) ==
    /\ pc[c] = "try"
    /\ \/ /\ m_state[want[c]] = "UNLOCKED"
          /\ m_state' = [m_state EXCEPT ![want[c]] = "LOCKED"]
          /\ holds' = [holds EXCEPT ![c] = @ \cup {want[c]}]
          /\ pc' = [pc EXCEPT ![c] = "outside"]
          /\ want' = [want EXCEPT ![c] = None]
       \/ /\ m_state[want[c]] = "LOCKED"
          /\ pc' = [pc EXCEPT ![c] = "spin"]
          /\ UNCHANGED <<m_state, want, holds>>

\* Faulty: the loop waits for the lock to be taken.
spin_Inverted(c) ==
    /\ pc[c] = "spin"
    /\ m_state[want[c]] = "LOCKED"
    /\ UNCHANGED vars

\* The loop around the relaxed load ends when the lock is seen free.
spin(c) ==
    /\ pc[c] = "spin"
    /\ m_state[want[c]] = "UNLOCKED"
    /\ pc' = [pc EXCEPT ![c] = "try"]
    /\ UNCHANGED <<m_state, want, holds>>

\* The destructor of the innermost guard.
unlock(c) ==
    /\ pc[c] = "outside"
    /\ innermost(c) # None
    /\ m_state' = [m_state EXCEPT ![innermost(c)] = "UNLOCKED"]
    /\ holds' = [holds EXCEPT ![c] = @ \ {innermost(c)}]
    /\ UNCHANGED <<pc, want>>

Next ==
    \E c \in Cores : \/ \E l \in Locks : guard(c, l)
                     \/ try_lock(c) \/ spin(c) \/ unlock(c)

Spec == Init /\ [][Next]_vars

\* A core in lock() keeps executing it.  Nothing makes a spin lock fair among cores.
FairSpec == Spec /\ \A c \in Cores : WF_vars(try_lock(c)) /\ WF_vars(spin(c))
-----------------------------------------------------------------------------
\* Every variable keeps its type, and a core wants a lock exactly while it is in lock().
TypeOK ==
    /\ m_state \in [Locks -> {"UNLOCKED", "LOCKED"}]
    /\ pc \in [Cores -> {"outside", "try", "spin"}]
    /\ want \in [Cores -> Locks \cup {None}]
    /\ holds \in [Cores -> SUBSET Locks]
    /\ \A c \in Cores : pc[c] = "outside" <=> want[c] = None

\* A lock is locked exactly when a core is inside its guard, and no two cores are.
MutualExclusion ==
    /\ \A l \in Locks : m_state[l] = "LOCKED" <=> \E c \in Cores : l \in holds[c]
    /\ \A l \in Locks : \A c, d \in Cores : l \in holds[c] /\ l \in holds[d] => c = d

\* A core waits only for locks below those it holds: kheap, then vmm, then pmm.
LockOrder ==
    \A c \in Cores : /\ want[c] = "kheap" => holds[c] = {}
                     /\ want[c] = "vmm" => holds[c] \subseteq {"kheap"}
                     /\ want[c] = "pmm" => holds[c] \subseteq {"kheap", "vmm"}

\* The cores never all wait for each other, nor one for itself: some core is outside
\* lock() or wants a lock that is free.
SomeCoreRuns ==
    \E c \in Cores : IF want[c] = None THEN TRUE ELSE m_state[want[c]] = "UNLOCKED"

\* The state of each lock and the guards of the cores agree, one core at a time, and the
\* guards nest in one order (spinlock.hpp).  The inductive invariant.
Inv == TypeOK /\ MutualExclusion /\ LockOrder

\* lock() does not miss an unlock: a lock that is wanted and free is taken by some core.
FreeLockIsTaken ==
    \A l \in Locks :
       ((\E c \in Cores : want[c] = l) /\ m_state[l] = "UNLOCKED") ~> (m_state[l] = "LOCKED")
=============================================================================
