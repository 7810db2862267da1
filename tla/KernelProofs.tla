---------------------------- MODULE KernelProofs ----------------------------
(***************************************************************************)
(* Proofs about the smaller components: the kernel's locks and guards, for *)
(* any number of cores; the readers of what the boot loader and the        *)
(* firmware left in memory, for any Multiboot2 block and any MADT; the     *)
(* kernel's address space, for any memory map and any image; and the       *)
(* descriptors of the boot modules, for any modules and any calls.         *)
(***************************************************************************)
EXTENDS Runtime, Multiboot, Acpi, KernelSpace, Descriptors, TLAPS

-----------------------------------------------------------------------------
(***************************************************************************)
(* The locks, the guard of a static object, and both on the same cores.    *)
(***************************************************************************)

\* The cores begin outside all guards.
LEMMA InitInv == Init => Inv
BY DEF Init, Inv, TypeOK, MutualExclusion, LockOrder, Locks, None

\* spinlock_guard's constructor: what a core may want next is below what it holds.
LEMMA SpinlockGuardInv ==
    ASSUME Inv, NEW c \in Cores, NEW l \in Locks, guard(c, l)
    PROVE  Inv'
<1>. USE DEF Inv
<1>1. TypeOK'
  BY Zenon DEF TypeOK, guard, Locks, None
<1>2. MutualExclusion'
  BY Zenon DEF MutualExclusion, guard
<1>3. LockOrder'
  <2>1. /\ l = "kheap" => holds[c] = {}
        /\ l = "vmm" => holds[c] \subseteq {"kheap"}
        /\ l = "pmm" => holds[c] \subseteq {"kheap", "vmm"}
    <3>1. holds[c] \subseteq Locks
      BY Zenon DEF TypeOK
    <3>2. CASE "pmm" \in holds[c]
      <4>1. innermost(c) = "pmm"
        BY <3>2, Zenon DEF innermost
      <4>2. calls(innermost(c)) = {}
        BY <4>1, Zenon DEF calls, None
      <4>. QED
        BY <4>2, Zenon DEF guard
    <3>3. CASE "pmm" \notin holds[c] /\ "vmm" \in holds[c]
      <4>1. innermost(c) = "vmm"
        BY <3>3, Zenon DEF innermost
      <4>2. calls(innermost(c)) = {"pmm"}
        BY <4>1, Zenon DEF calls, None
      <4>. QED
        BY <3>1, <3>3, <4>2, Zenon DEF guard, Locks
    <3>4. CASE holds[c] = {"kheap"}
      <4>1. innermost(c) = "kheap"
        BY <3>4, Zenon DEF innermost
      <4>2. calls(innermost(c)) = {"vmm"}
        BY <4>1, Zenon DEF calls, None
      <4>. QED
        BY <3>4, <4>2, Zenon DEF guard
    <3>5. CASE holds[c] = {}
      BY <3>5, Zenon
    <3>. QED
      BY <3>1, <3>2, <3>3, <3>4, <3>5 DEF Locks
  <2>. QED
    BY <2>1 DEF LockOrder, TypeOK, guard
<1>. QED
  BY <1>1, <1>2, <1>3, Zenon

\* try_lock: the compare-and-exchange hands a lock only to one core.
LEMMA TryLockInv ==
    ASSUME Inv, NEW c \in Cores, try_lock(c)
    PROVE  Inv'
<1>. USE DEF Inv
<1>1. want[c] \in Locks
  BY Zenon DEF TypeOK, try_lock
<1>2. CASE /\ m_state[want[c]] = "UNLOCKED"
           /\ m_state' = [m_state EXCEPT ![want[c]] = "LOCKED"]
           /\ holds' = [holds EXCEPT ![c] = @ \cup {want[c]}]
           /\ pc' = [pc EXCEPT ![c] = "outside"]
           /\ want' = [want EXCEPT ![c] = None]
  <2>1. TypeOK'
    BY <1>1, <1>2, Zenon DEF TypeOK
  <2>2. MutualExclusion'
    BY <1>1, <1>2 DEF TypeOK, MutualExclusion
  <2>3. LockOrder'
    BY <1>1, <1>2, Zenon DEF TypeOK, LockOrder, None
  <2>. QED
    BY <2>1, <2>2, <2>3, Zenon
<1>3. CASE pc' = [pc EXCEPT ![c] = "spin"] /\ UNCHANGED <<m_state, want, holds>>
  <2>1. TypeOK'
    BY <1>3, Zenon DEF TypeOK, try_lock
  <2>2. MutualExclusion' /\ LockOrder'
    BY <1>3 DEF MutualExclusion, LockOrder
  <2>. QED
    BY <2>1, <2>2, Zenon
<1>. QED
  BY <1>2, <1>3, Zenon DEF try_lock

\* The end of the loop around the relaxed load.
LEMMA SpinInv ==
    ASSUME Inv, NEW c \in Cores, spin(c)
    PROVE  Inv'
<1>1. TypeOK'
  BY Zenon DEF Inv, TypeOK, spin
<1>2. MutualExclusion' /\ LockOrder'
  BY Zenon DEF Inv, MutualExclusion, LockOrder, spin
<1>. QED
  BY <1>1, <1>2, Zenon DEF Inv

\* spinlock_guard's destructor: the lock it frees is one that this core, and no other, holds.
LEMMA UnlockInv ==
    ASSUME Inv, NEW c \in Cores, unlock(c)
    PROVE  Inv'
<1>. USE DEF Inv
<1>. DEFINE l == innermost(c)
<1>1. l \in holds[c] /\ l \in Locks
  <2>1. l \in holds[c]
    BY Zenon DEF innermost, unlock
  <2>. QED
    BY <2>1, Zenon DEF TypeOK
<1>2. want[c] = None
  BY Zenon DEF TypeOK, unlock
<1>3. /\ m_state' = [m_state EXCEPT ![l] = "UNLOCKED"]
      /\ holds' = [holds EXCEPT ![c] = @ \ {l}]
      /\ UNCHANGED <<pc, want>>
  BY Zenon DEF unlock
<1>. HIDE DEF l
<1>4. TypeOK'
  BY <1>1, <1>3, Zenon DEF TypeOK
<1>5. MutualExclusion'
  BY <1>1, <1>3 DEF TypeOK, MutualExclusion
<1>6. LockOrder'
  BY <1>2, <1>3, Zenon DEF TypeOK, LockOrder, None
<1>. QED
  BY <1>4, <1>5, <1>6, Zenon

\* Every step of a core, and a stuttering step, keeps the invariant.
LEMMA NextInv == Inv /\ [Next]_vars => Inv'
<1>. SUFFICES ASSUME Inv, [Next]_vars PROVE Inv'
  BY Zenon
<1>1. CASE UNCHANGED vars
  BY <1>1, Zenon DEF vars, Inv, TypeOK, MutualExclusion, LockOrder
<1>2. CASE Next
  <2>1. PICK c \in Cores : (\E l \in Locks : guard(c, l)) \/ try_lock(c) \/ spin(c) \/ unlock(c)
    BY <1>2, Zenon DEF Next
  <2>. QED
    BY <2>1, SpinlockGuardInv, TryLockInv, SpinInv, UnlockInv
<1>. QED
  BY <1>1, <1>2, Zenon

\* The locks' invariant holds throughout, for any number of cores.
THEOREM LockSafety == Spec => []Inv
BY InitInv, NextInv, PTL DEF Spec

\* spinlock and spinlock_guard: at most one core is inside a guard of a lock.
THEOREM LocksExclude == Spec => []MutualExclusion
<1>1. Inv => MutualExclusion
  BY Zenon DEF Inv
<1>. QED
  BY <1>1, LockSafety, PTL

\* The core that holds the lowest lock in use is never kept waiting.
LEMMA LowestRuns == Inv => SomeCoreRuns
<1>. SUFFICES ASSUME Inv PROVE SomeCoreRuns
  BY Zenon
<1>. USE DEF Inv
<1>1. \A l \in Locks : m_state[l] = "UNLOCKED" \/ \E c \in Cores : l \in holds[c]
  BY DEF TypeOK, MutualExclusion
<1>2. \A c \in Cores : want[c] \in {"kheap", "vmm", "pmm", None}
  BY Zenon DEF TypeOK, Locks
<1>3. CASE \E c \in Cores : "pmm" \in holds[c]
  <2>1. PICK c \in Cores : "pmm" \in holds[c]
    BY <1>3, Zenon
  <2>2. want[c] = None
    BY <1>2, <2>1, Zenon DEF LockOrder
  <2>. QED
    BY <2>2, Zenon DEF SomeCoreRuns
<1>4. CASE m_state["pmm"] = "UNLOCKED" /\ \E c \in Cores : "vmm" \in holds[c]
  <2>1. PICK c \in Cores : "vmm" \in holds[c]
    BY <1>4, Zenon
  <2>2. want[c] \in {"pmm", None}
    BY <1>2, <2>1, Zenon DEF LockOrder
  <2>. QED
    BY <1>4, <2>2, Zenon DEF SomeCoreRuns
<1>5. CASE m_state["pmm"] = "UNLOCKED" /\ m_state["vmm"] = "UNLOCKED" /\ \E c \in Cores : "kheap" \in holds[c]
  <2>1. PICK c \in Cores : "kheap" \in holds[c]
    BY <1>5, Zenon
  <2>2. want[c] \in {"vmm", "pmm", None}
    BY <1>2, <2>1, Zenon DEF LockOrder
  <2>. QED
    BY <1>5, <2>2, Zenon DEF SomeCoreRuns
<1>6. CASE \A l \in Locks : m_state[l] = "UNLOCKED"
  <2>1. PICK c \in Cores : TRUE
    BY CoresAssumption, Zenon
  <2>. QED
    BY <1>2, <1>6, <2>1, Zenon DEF SomeCoreRuns, Locks
<1>. QED
  BY <1>1, <1>3, <1>4, <1>5, <1>6 DEF Locks

\* kheap, vmm and pmm nest their guards so that the cores never all wait.
THEOREM NoDeadlock == Spec => []SomeCoreRuns
BY LowestRuns, LockSafety, PTL
-----------------------------------------------------------------------------
\* Both loads of __cxa_guard_acquire acquire, and both stores release.
LEMMA OrdersOfTheGuard ==
    /\ Acquires(to_load_order("ACQUIRE")) /\ Acquires(to_failure_order("ACQUIRE"))
    /\ Acquires("ACQ_REL") /\ Releases(to_store_order("RELEASE"))
BY Zenon DEF Acquires, Releases, to_load_order, to_failure_order, to_store_order

\* At the start nobody uses or constructs the object.
LEMMA GuardInitInv == GuardInit => GuardInv
BY Zenon DEF GuardInit, GuardInv, GuardTypeOK, OneConstructs, UserSeesObject

\* A load of the guard: a core that gets past it acquires what the guard carries.
LEMMA LoadKeepsInv ==
    ASSUME GuardInv, NEW c \in Cores, acquire_load(c)
    PROVE  GuardInv'
BY OrdersOfTheGuard DEF GuardInv, GuardTypeOK, OneConstructs, UserSeesObject, acquire_load, Observe

\* The compare-and-exchange: it succeeds for one core at a time.
LEMMA ExchangeKeepsInv ==
    ASSUME GuardInv, NEW c \in Cores, acquire_cas(c)
    PROVE  GuardInv'
<1>1. CASE word = "0"
  BY <1>1, OrdersOfTheGuard
  DEF GuardInv, GuardTypeOK, OneConstructs, UserSeesObject, acquire_cas, Observe
<1>2. CASE word # "0"
  BY <1>2, OrdersOfTheGuard
  DEF GuardInv, GuardTypeOK, OneConstructs, UserSeesObject, acquire_cas, Observe
<1> QED BY <1>1, <1>2, Zenon

\* The steps of the core that holds the guard, and of those that do not ask for it.
LEMMA HolderKeepsInv ==
    ASSUME GuardInv, NEW c \in Cores,
           declare(c) \/ construct(c) \/ guard_release(c) \/ guard_abort(c) \/ leave(c)
    PROVE  GuardInv'
<1>1. CASE declare(c)
  BY <1>1 DEF GuardInv, GuardTypeOK, OneConstructs, UserSeesObject, declare
<1>2. CASE construct(c)
  BY <1>2 DEF GuardInv, GuardTypeOK, OneConstructs, UserSeesObject, construct
<1>3. CASE guard_release(c)
  BY <1>3, OrdersOfTheGuard, Zenon
  DEF GuardInv, GuardTypeOK, OneConstructs, UserSeesObject, guard_release, Store
<1>4. CASE guard_abort(c)
  BY <1>4, OrdersOfTheGuard
  DEF GuardInv, GuardTypeOK, OneConstructs, UserSeesObject, guard_abort, Store
<1>5. CASE leave(c)
  BY <1>5, Zenon DEF GuardInv, GuardTypeOK, OneConstructs, UserSeesObject, leave
<1> QED BY <1>1, <1>2, <1>3, <1>4, <1>5

\* Every step of every core keeps the invariant.
LEMMA GuardStepInv == GuardInv /\ [GuardNext]_guard_vars => GuardInv'
<1> SUFFICES ASSUME GuardInv, [GuardNext]_guard_vars PROVE GuardInv'
  BY Zenon
<1>1. CASE GuardNext
  BY <1>1, LoadKeepsInv, ExchangeKeepsInv, HolderKeepsInv DEF GuardNext, guard_step
<1>2. CASE UNCHANGED guard_vars
  BY <1>2, Zenon DEF guard_vars, GuardInv, GuardTypeOK, OneConstructs, UserSeesObject
<1> QED BY <1>1, <1>2, Zenon

\* The inductive invariant of the guard holds for any number of cores.
THEOREM GuardSafety == GuardSpec => []GuardInv
<1>1. GuardInit => GuardInv
  BY GuardInitInv, Zenon
<1>2. GuardInv /\ [GuardNext]_guard_vars => GuardInv'
  BY GuardStepInv, Zenon
<1> QED BY <1>1, <1>2, PTL DEF GuardSpec

\* At most one core is between a successful __cxa_guard_acquire and its release or abort.
THEOREM OneConstructsAlways == GuardSpec => []OneConstructs
<1>1. GuardInv => OneConstructs
  BY Zenon DEF GuardInv
<1> QED BY <1>1, GuardSafety, PTL

\* Whoever gets past __cxa_guard_acquire sees the finished object.
THEOREM UsersSeeTheObject == GuardSpec => []UserSeesObject
<1>1. GuardInv => UserSeesObject
  BY Zenon DEF GuardInv
<1> QED BY <1>1, GuardSafety, PTL
-----------------------------------------------------------------------------
\* A core whose position changes from p to q moves its abstract phase accordingly.
LEMMA PhaseMoves ==
    ASSUME GuardInv, NEW c \in Cores,
           NEW q \in {"away", "load", "cas", "constructing", "constructed", "using"},
           at' = [at EXCEPT ![c] = q]
    PROVE  Phase' = [Phase EXCEPT ![c] = PhaseAt(q)]
BY Zenon DEF GuardInv, GuardTypeOK, Phase

\* Every step of the guard is a step of once-only construction or changes nothing there.
LEMMA StepImplements ==
    ASSUME GuardInv, [GuardNext]_guard_vars
    PROVE  [Once!Next]_<<Object, Phase>>
<1> USE DEF Object, PhaseAt
<1>1. ASSUME NEW c \in Cores, declare(c) PROVE Once!Ask(c)
  <2>1. Phase' = [Phase EXCEPT ![c] = "asking"]
    BY <1>1, PhaseMoves, Zenon DEF declare
  <2> QED BY <1>1, <2>1, Zenon DEF declare, Once!Ask, Once!Move, Phase
<1>2. ASSUME NEW c \in Cores, acquire_load(c) PROVE Once!Get(c) \/ UNCHANGED <<Object, Phase>>
  <2>1. CASE word = "INITIALIZED"
    <3>1. Phase' = [Phase EXCEPT ![c] = "using"]
      BY <1>2, <2>1, PhaseMoves, Zenon DEF acquire_load
    <3> QED BY <1>2, <2>1, <3>1 DEF acquire_load, Once!Get, Once!Move, Phase
  <2>2. CASE word # "INITIALIZED"
    <3>1. Phase' = [Phase EXCEPT ![c] = "asking"]
      BY <1>2, <2>2, PhaseMoves, Zenon DEF acquire_load
    <3> QED BY <1>2, <2>2, <3>1 DEF acquire_load, Phase
  <2> QED BY <2>1, <2>2, Zenon
<1>3. ASSUME NEW c \in Cores, acquire_cas(c)
      PROVE  Once!Begin(c) \/ Once!Get(c) \/ UNCHANGED <<Object, Phase>>
  <2>1. CASE word = "0"
    <3>1. Phase' = [Phase EXCEPT ![c] = "building"]
      BY <1>3, <2>1, PhaseMoves, Zenon DEF acquire_cas
    <3> QED BY <1>3, <2>1, <3>1 DEF acquire_cas, Once!Begin, Once!Move, Phase
  <2>2. CASE word = "INITIALIZED"
    <3>1. Phase' = [Phase EXCEPT ![c] = "using"]
      BY <1>3, <2>2, PhaseMoves, Zenon DEF acquire_cas
    <3> QED BY <1>3, <2>2, <3>1 DEF acquire_cas, Once!Get, Once!Move, Phase
  <2>3. CASE word = "IN_USE"
    <3>1. Phase' = [Phase EXCEPT ![c] = "asking"]
      BY <1>3, <2>3, PhaseMoves, Zenon DEF acquire_cas
    <3> QED BY <1>3, <2>3, <3>1, Zenon DEF acquire_cas, Phase
  <2> QED BY <2>1, <2>2, <2>3 DEF GuardInv, GuardTypeOK
<1>4. ASSUME NEW c \in Cores, construct(c) PROVE UNCHANGED <<Object, Phase>>
  <2>1. Phase' = [Phase EXCEPT ![c] = "building"]
    BY <1>4, PhaseMoves, Zenon DEF construct
  <2> QED BY <1>4, <2>1, Zenon DEF construct, Phase
<1>5. ASSUME NEW c \in Cores, guard_release(c) PROVE Once!Finish(c)
  <2>1. Phase' = [Phase EXCEPT ![c] = "using"]
    BY <1>5, PhaseMoves, Zenon DEF guard_release
  <2>2. word = "IN_USE"
    BY <1>5, Zenon DEF GuardInv, OneConstructs, guard_release
  <2> QED BY <1>5, <2>1, <2>2, Zenon DEF guard_release, Store, Once!Finish, Once!Move, Phase
<1>6. ASSUME NEW c \in Cores, guard_abort(c) PROVE Once!Fail(c)
  <2>1. Phase' = [Phase EXCEPT ![c] = "away"]
    BY <1>6, PhaseMoves, Zenon DEF guard_abort
  <2>2. word = "IN_USE"
    BY <1>6, Zenon DEF GuardInv, OneConstructs, guard_abort
  <2> QED BY <1>6, <2>1, <2>2, Zenon DEF guard_abort, Store, Once!Fail, Once!Move, Phase
<1>7. ASSUME NEW c \in Cores, leave(c) PROVE Once!Leave(c)
  <2>1. Phase' = [Phase EXCEPT ![c] = "away"]
    BY <1>7, PhaseMoves, Zenon DEF leave
  <2> QED BY <1>7, <2>1, Zenon DEF leave, Once!Leave, Once!Move, Phase
<1>8. CASE UNCHANGED guard_vars
  BY <1>8, Zenon DEF guard_vars, Phase
<1>9. CASE GuardNext
  <2>1. PICK c \in Cores : \/ declare(c) \/ guard_step(c) \/ construct(c)
                           \/ guard_release(c) \/ guard_abort(c) \/ leave(c)
    BY <1>9, Zenon DEF GuardNext
  <2> QED BY <2>1, <1>1, <1>2, <1>3, <1>4, <1>5, <1>6, <1>7 DEF guard_step, Once!Next
<1> QED BY <1>8, <1>9, Zenon

\* The guard implements once-only construction for any number of cores.
THEOREM GuardImplements == GuardSpec => ImplementsOnceInit
<1>1. GuardInit => Once!Init
  BY Zenon DEF GuardInit, Once!Init, Object, Phase, PhaseAt
<1>2. GuardInv /\ [GuardNext]_guard_vars => [Once!Next]_<<Object, Phase>>
  BY StepImplements, Zenon
<1> QED BY <1>1, <1>2, GuardSafety, PTL DEF GuardSpec, ImplementsOnceInit, Once!Spec
-----------------------------------------------------------------------------
(***************************************************************************)
(* Locks and guard together.                                               *)
(***************************************************************************)

\* A core in __cxa_guard_acquire or __cxa_guard_release has no lock and waits for none.
GuardOutsideLocks == \A c \in Cores : ~InCode(c) => OutsideLocks(c)

\* A guard in use has a core that will give it back.
GuardHasBuilder == word = "IN_USE" => \E c \in Cores : at[c] \in {"constructing", "constructed"}

\* The two invariants, and what keeps a core from waiting for both.  The inductive
\* invariant of the composition.
RuntimeInv == Inv /\ GuardInv /\ GuardOutsideLocks /\ GuardHasBuilder

\* A step of a core is a step of the locks or one of the guard, and leaves the other alone.
LEMMA RuntimeComposes ==
    ASSUME [RuntimeNext]_runtime_vars
    PROVE  [Next]_vars /\ [GuardNext]_guard_vars
<1>1. CASE UNCHANGED runtime_vars
  BY <1>1, Zenon DEF runtime_vars
<1>2. ASSUME NEW c \in Cores, LockStep(c) PROVE Next /\ UNCHANGED guard_vars
  BY <1>2, Zenon DEF LockStep, Next
<1>3. ASSUME NEW c \in Cores, GuardStep(c) PROVE GuardNext /\ UNCHANGED vars
  BY <1>3, Zenon DEF GuardStep, GuardNext
<1> QED
  BY <1>1, <1>2, <1>3, Zenon DEF RuntimeNext

LEMMA RuntimeInitInv == RuntimeInit => RuntimeInv
<1> SUFFICES ASSUME RuntimeInit PROVE RuntimeInv
  BY Zenon
<1>1. Inv /\ GuardInv
  BY InitInv, GuardInitInv, Zenon DEF RuntimeInit
<1>2. GuardOutsideLocks /\ GuardHasBuilder
  BY Zenon DEF RuntimeInit, Init, GuardInit, GuardOutsideLocks, GuardHasBuilder, OutsideLocks
<1> QED
  BY <1>1, <1>2, Zenon DEF RuntimeInv

\* A core takes locks only while it is in its code, and moves in the guard only without.
LEMMA OutsideKept ==
    ASSUME RuntimeInv, NEW c \in Cores, LockStep(c) \/ GuardStep(c)
    PROVE  GuardOutsideLocks'
<1> SUFFICES ASSUME NEW d \in Cores, ~InCode(d)' PROVE OutsideLocks(d)'
  BY Zenon DEF GuardOutsideLocks
<1>1. CASE LockStep(c)
  <2>1. at' = at /\ ~InCode(d) /\ d # c
    BY <1>1, Zenon DEF LockStep, guard_vars, InCode
  <2>2. pc'[d] = pc[d] /\ holds'[d] = holds[d]
    BY <1>1, <2>1 DEF LockStep, guard, try_lock, spin, unlock, RuntimeInv, Inv, TypeOK
  <2> QED
    BY <2>1, <2>2, Zenon DEF RuntimeInv, GuardOutsideLocks, OutsideLocks
<1>2. CASE GuardStep(c)
  <2>1. UNCHANGED <<pc, holds>> /\ OutsideLocks(c)
    BY <1>2, Zenon DEF GuardStep, vars
  <2>2. d # c => at'[d] = at[d]
    BY <1>2, Zenon DEF GuardStep, declare, guard_step, acquire_load, acquire_cas, construct, guard_release,
                guard_abort, leave, RuntimeInv, GuardInv, GuardTypeOK
  <2>3. d = c \/ OutsideLocks(d)
    BY <2>2, Zenon DEF RuntimeInv, GuardOutsideLocks, InCode
  <2> QED
    BY <2>1, <2>3, Zenon DEF OutsideLocks
<1> QED
  BY <1>1, <1>2, Zenon

\* The core that has set the guard to IN_USE is the one that resets it.
LEMMA BuilderKept ==
    ASSUME RuntimeInv, [GuardNext]_guard_vars
    PROVE  GuardHasBuilder'
<1> USE DEF RuntimeInv, GuardHasBuilder, GuardInv, GuardTypeOK
<1>1. CASE UNCHANGED guard_vars
  BY <1>1, Zenon DEF guard_vars
<1>2. ASSUME NEW c \in Cores, declare(c) \/ leave(c) \/ acquire_load(c) PROVE GuardHasBuilder'
  BY <1>2, Zenon DEF declare, leave, acquire_load
<1>3. ASSUME NEW c \in Cores, acquire_cas(c) PROVE GuardHasBuilder'
  <2>1. CASE word = "0"
    BY <1>3, <2>1, Zenon DEF acquire_cas
  <2>2. CASE word # "0"
    BY <1>3, <2>2, Zenon DEF acquire_cas
  <2> QED
    BY <2>1, <2>2, Zenon
<1>4. ASSUME NEW c \in Cores, construct(c) PROVE GuardHasBuilder'
  BY <1>4, Zenon DEF construct
<1>5. ASSUME NEW c \in Cores, guard_release(c) \/ guard_abort(c) PROVE GuardHasBuilder'
  BY <1>5, Zenon DEF guard_release, guard_abort, Store
<1> QED
  BY <1>1, <1>2, <1>3, <1>4, <1>5 DEF GuardNext, guard_step

LEMMA RuntimeStepInv == RuntimeInv /\ [RuntimeNext]_runtime_vars => RuntimeInv'
<1> SUFFICES ASSUME RuntimeInv, [RuntimeNext]_runtime_vars PROVE RuntimeInv'
  BY Zenon
<1>1. [Next]_vars /\ [GuardNext]_guard_vars
  BY RuntimeComposes, Zenon
<1>2. Inv' /\ GuardInv' /\ GuardHasBuilder'
  BY <1>1, NextInv, GuardStepInv, BuilderKept, Zenon DEF RuntimeInv
<1>3. GuardOutsideLocks'
  <2>1. CASE UNCHANGED runtime_vars
    BY <2>1, Zenon DEF runtime_vars, vars, guard_vars, RuntimeInv, GuardOutsideLocks, InCode, OutsideLocks
  <2>2. CASE RuntimeNext
    BY <2>2, OutsideKept, Zenon DEF RuntimeNext
  <2> QED
    BY <2>1, <2>2, Zenon
<1> QED
  BY <1>2, <1>3, Zenon DEF RuntimeInv

\* The locks and the guard keep their invariants while the cores use both.
THEOREM RuntimeSafety == RuntimeSpec => []RuntimeInv
BY RuntimeInitInv, RuntimeStepInv, PTL DEF RuntimeSpec

\* A held lock has one holder and is taken in the order of the chain, and one core constructs
\* the object, also when constructors and users of the object take the locks.
THEOREM RuntimeLocksAndGuard == RuntimeSpec => [](Inv /\ GuardInv)
<1>1. RuntimeInv => Inv /\ GuardInv
  BY Zenon DEF RuntimeInv
<1> QED
  BY <1>1, RuntimeSafety, PTL

\* The core that holds the lowest lock in use is in its code and gets it; without locks the
\* core that constructs goes on; without a construction nobody waits.
LEMMA SomebodyGoesOn == RuntimeInv => NotAllWait
<1> SUFFICES ASSUME RuntimeInv PROVE NotAllWait
  BY Zenon
<1>1. TypeOK /\ MutualExclusion /\ LockOrder
  BY Zenon DEF RuntimeInv, Inv
<1>2. \A l \in Locks : m_state[l] = "UNLOCKED" \/ \E c \in Cores : l \in holds[c]
  BY <1>1, Zenon DEF TypeOK, MutualExclusion
<1>3. \A c \in Cores : want[c] \in {"kheap", "vmm", "pmm", None}
  BY <1>1, Zenon DEF TypeOK, Locks
<1>4. \A c \in Cores : holds[c] # {} => at[c] # "cas"
  BY Zenon DEF RuntimeInv, GuardOutsideLocks, OutsideLocks, InCode
<1>5. CASE \E c \in Cores : "pmm" \in holds[c]
  <2>1. PICK c \in Cores : "pmm" \in holds[c]
    BY <1>5, Zenon
  <2>2. want[c] = None /\ at[c] # "cas"
    BY <1>1, <1>3, <1>4, <2>1 DEF LockOrder
  <2> QED
    BY <2>2, Zenon DEF NotAllWait, Waiting
<1>6. CASE m_state["pmm"] = "UNLOCKED" /\ \E c \in Cores : "vmm" \in holds[c]
  <2>1. PICK c \in Cores : "vmm" \in holds[c]
    BY <1>6, Zenon
  <2>2. want[c] \in {"pmm", None} /\ at[c] # "cas"
    BY <1>1, <1>3, <1>4, <2>1 DEF LockOrder
  <2> QED
    BY <1>6, <2>2, Zenon DEF NotAllWait, Waiting
<1>7. CASE /\ m_state["pmm"] = "UNLOCKED" /\ m_state["vmm"] = "UNLOCKED"
           /\ \E c \in Cores : "kheap" \in holds[c]
  <2>1. PICK c \in Cores : "kheap" \in holds[c]
    BY <1>7, Zenon
  <2>2. want[c] \in {"vmm", "pmm", None} /\ at[c] # "cas"
    BY <1>1, <1>3, <1>4, <2>1, Zenon DEF LockOrder
  <2> QED
    BY <1>7, <2>2, Zenon DEF NotAllWait, Waiting
<1>8. CASE \A l \in Locks : m_state[l] = "UNLOCKED"
  <2>1. \A c \in Cores : ~ (want[c] # None /\ m_state[want[c]] = "LOCKED")
    BY <1>3, <1>8, Zenon DEF Locks
  <2>2. \E c \in Cores : ~ (at[c] = "cas" /\ word = "IN_USE")
    BY CoresAssumption, Zenon DEF RuntimeInv, GuardHasBuilder
  <2> QED
    BY <2>1, <2>2, Zenon DEF NotAllWait, Waiting
<1> QED
  BY <1>2, <1>5, <1>6, <1>7, <1>8 DEF Locks

\* Whatever the cores do with the locks of memory management and with static objects whose
\* constructors take these locks, they never all wait.
THEOREM RuntimeNeverStuck == RuntimeSpec => []NotAllWait
BY SomebodyGoesOn, RuntimeSafety, PTL

\* The three functions implement once-only construction also when the cores take locks.
THEOREM RuntimeImplements == RuntimeSpec => ImplementsOnceInit
<1>1. RuntimeInit => GuardInit
  BY Zenon DEF RuntimeInit
<1>2. [RuntimeNext]_runtime_vars => [GuardNext]_guard_vars
  BY RuntimeComposes, Zenon
<1> QED
  BY <1>1, <1>2, GuardImplements, PTL DEF RuntimeSpec, GuardSpec
-----------------------------------------------------------------------------
(***************************************************************************)
(* Descriptors.                                                            *)
(***************************************************************************)
Descriptor == [open : BOOLEAN, base : Nat, size : Nat, offset : Nat]

\* What a readv or writev that runs was called with.
IoOK ==
    io # NoIo => /\ io.fd \in Fds /\ io.vectors \in VectorLists /\ io.at \in Nat \ {0}
                 /\ io.op \in {"readv", "writev"}

\* The invariant: types, what runs, and the offsets.
FilesInv == descriptors \in [FileDescriptors -> Descriptor] /\ IoOK /\ OffsetsInFile

\* A descriptor that is set to a value which itself lies in a module.
InModule(d) ==
    d.open => /\ \E i \in DOMAIN BootModules : /\ d.base = BootModules[i].base
                                               /\ d.size = BootModules[i].length
                                               /\ BootModules[i].base < MapSize
              /\ d.offset \in 0 .. d.size

\* Replacing one descriptor by one that lies in a module keeps the invariant on the table.
LEMMA ReplaceOne ==
    ASSUME FilesInv, NEW fd \in FileDescriptors, NEW d \in Descriptor, InModule(d),
           descriptors' = [descriptors EXCEPT ![fd] = d]
    PROVE  descriptors' \in [FileDescriptors -> Descriptor] /\ OffsetsInFile'
<1>1. descriptors' \in [FileDescriptors -> Descriptor]
  BY Zenon DEF FilesInv
<1>2. ASSUME NEW g \in FileDescriptors PROVE InModule(descriptors'[g])
  <2>1. CASE g = fd
    BY <2>1, Zenon DEF FilesInv
  <2>2. CASE g # fd
    <3>1. descriptors'[g] = descriptors[g]
      BY <2>2, Zenon DEF FilesInv
    <3> QED
      BY <3>1, Zenon DEF FilesInv, OffsetsInFile, InModule
  <2> QED
    BY <2>1, <2>2, Zenon
<1> QED
  BY <1>1, <1>2, Zenon DEF OffsetsInFile, InModule

\* The files start closed.
LEMMA FilesInitInv == FilesInit => FilesInv
<1> SUFFICES ASSUME FilesInit PROVE FilesInv
  BY Zenon
<1>1. Closed \in Descriptor /\ ~Closed.open
  BY Zenon DEF Closed, Descriptor
<1>2. descriptors \in [FileDescriptors -> Descriptor]
  BY <1>1, Zenon DEF FilesInit
<1>3. OffsetsInFile
  BY <1>1, Zenon DEF FilesInit, OffsetsInFile
<1> QED
  BY <1>2, <1>3, Zenon DEF FilesInit, FilesInv, IoOK

\* A read moves the offset forward, but not past the end of the module.
LEMMA AdvanceKeeps ==
    ASSUME FilesInv, NEW fd, is_file(fd), NEW count \in Nat,
           descriptors' = advance(fd, read_length(fd, count))
    PROVE  descriptors' \in [FileDescriptors -> Descriptor] /\ OffsetsInFile'
<1> DEFINE old == descriptors[fd]
           length == read_length(fd, count)
           new == [old EXCEPT !.offset = @ + length]
<1>1. fd \in FileDescriptors /\ old \in Descriptor /\ old.open /\ InModule(old)
  BY Zenon DEF is_file, FilesInv, OffsetsInFile, InModule
<1>2. length \in 0 .. old.size - old.offset
  BY <1>1 DEF read_length, Descriptor, InModule
<1>3. new \in Descriptor /\ InModule(new)
  BY <1>1, <1>2 DEF Descriptor, InModule
<1>4. descriptors' = [descriptors EXCEPT ![fd] = new]
  BY Zenon DEF advance
<1> QED
  BY <1>1, <1>3, <1>4, ReplaceOne, Zenon

\* open fills a closed descriptor with a module the direct map reaches.
LEMMA OpenKeeps ==
    ASSUME FilesInv, NEW path \in Paths, NEW refused \in BOOLEAN, open(path, refused)
    PROVE  FilesInv'
<1>1. CASE UNCHANGED descriptors
  BY <1>1, Zenon DEF open, FilesInv, IoOK, OffsetsInFile
<1>2. CASE ~UNCHANGED descriptors
  <2>1. PICK i \in Matching(path), fd \in ClosedDescriptors :
            /\ BootModules[i].base < MapSize
            /\ descriptors' = [descriptors EXCEPT ![fd] =
                  [open |-> TRUE, base |-> BootModules[i].base, size |-> BootModules[i].length, offset |-> 0]]
    BY <1>2, Zenon DEF open
  <2> DEFINE module == BootModules[i]
             d == [open |-> TRUE, base |-> module.base, size |-> module.length, offset |-> 0]
  <2>2. i \in DOMAIN BootModules /\ fd \in FileDescriptors
    BY Zenon DEF Matching, ClosedDescriptors
  <2>3. module \in [name : Paths, base : Nat, length : Nat]
    BY <2>2, BootModulesAssumption, Zenon
  <2>4. d \in Descriptor /\ InModule(d)
    BY <2>1, <2>2, <2>3 DEF Descriptor, InModule
  <2>5. IoOK'
    BY Zenon DEF open, FilesInv, IoOK
  <2> QED
    BY <2>1, <2>2, <2>4, <2>5, ReplaceOne, Zenon DEF FilesInv
<1> QED
  BY <1>1, <1>2, Zenon

\* lseek moves the offset to a place in the module.
LEMMA SeekKeeps ==
    ASSUME FilesInv, NEW fd \in Fds, NEW offset \in Seeks, NEW whence \in Whences, lseek(fd, offset, whence)
    PROVE  FilesInv'
<1>1. IoOK'
  BY Zenon DEF lseek, FilesInv, IoOK
<1>2. CASE UNCHANGED descriptors
  BY <1>1, <1>2, Zenon DEF FilesInv, OffsetsInFile
<1>3. CASE ~UNCHANGED descriptors
  <2> DEFINE old == descriptors[fd]
             from == IF whence = "SET" THEN 0 ELSE IF whence = "CUR" THEN old.offset ELSE old.size
             target == wrap(offset + from)
             new == [old EXCEPT !.offset = target]
  <2>1. /\ is_file(fd) /\ in_file(fd, target)
        /\ descriptors' = [descriptors EXCEPT ![fd] = new]
    BY <1>3, Zenon DEF lseek
  <2>2. fd \in FileDescriptors /\ old \in Descriptor /\ old.open /\ InModule(old)
    BY <2>1, Zenon DEF is_file, FilesInv, OffsetsInFile, InModule
  <2>3. offset \in Int /\ SsizeMax \in Nat
    BY CountsAssumption
  <2>4. target \in Int
    BY <2>2, <2>3 DEF wrap, Descriptor
  <2>5. target \in 0 .. old.size
    BY <2>1, <2>2, <2>4 DEF in_file, Descriptor
  <2> HIDE DEF target
  <2>6. new \in Descriptor /\ InModule(new)
    BY <2>2, <2>5 DEF Descriptor, InModule
  <2> QED
    BY <1>1, <2>1, <2>2, <2>6, ReplaceOne, Zenon DEF FilesInv
<1> QED
  BY <1>2, <1>3, Zenon

\* Every call and every step of readv and writev keeps the invariant.
LEMMA FilesStepInv == FilesInv /\ [FilesNext]_file_vars => FilesInv'
<1> SUFFICES ASSUME FilesInv, [FilesNext]_file_vars PROVE FilesInv'
  BY Zenon
<1>1. ASSUME NEW path \in Paths, NEW refused \in BOOLEAN, open(path, refused) PROVE FilesInv'
  BY <1>1, OpenKeeps, Zenon
<1>2. ASSUME NEW fd \in Fds, NEW count \in Counts, read(fd, count) PROVE FilesInv'
  <2>1. IoOK'
    BY <1>2, Zenon DEF read, FilesInv, IoOK
  <2>2. CASE UNCHANGED descriptors
    BY <2>1, <2>2, Zenon DEF FilesInv, OffsetsInFile
  <2>3. CASE ~UNCHANGED descriptors
    <3>1. is_file(fd) /\ descriptors' = advance(fd, read_length(fd, count))
      BY <1>2, <2>3, Zenon DEF read
    <3>2. count \in Nat
      BY CountsAssumption, Zenon
    <3> QED
      BY <2>1, <3>1, <3>2, AdvanceKeeps, Zenon DEF FilesInv
  <2> QED
    BY <2>2, <2>3, Zenon
<1>3. ASSUME NEW fd \in Fds, NEW offset \in Seeks, NEW whence \in Whences, lseek(fd, offset, whence)
      PROVE  FilesInv'
  BY <1>3, SeekKeeps, Zenon
<1>4. ASSUME NEW fd \in Fds, close(fd) PROVE FilesInv'
  <2>1. IoOK'
    BY <1>4, Zenon DEF close, FilesInv, IoOK
  <2>2. CASE UNCHANGED descriptors
    BY <2>1, <2>2, Zenon DEF FilesInv, OffsetsInFile
  <2>3. CASE ~UNCHANGED descriptors
    <3>1. fd \in FileDescriptors /\ descriptors' = [descriptors EXCEPT ![fd] = Closed]
      BY <1>4, <2>3, Zenon DEF close, is_file
    <3>2. Closed \in Descriptor /\ InModule(Closed)
      BY Zenon DEF Closed, Descriptor, InModule
    <3> QED
      BY <2>1, <3>1, <3>2, ReplaceOne, Zenon DEF FilesInv
  <2> QED
    BY <2>2, <2>3, Zenon
<1>5. ASSUME NEW fd \in Fds, NEW vectors \in VectorLists, NEW op \in {"readv", "writev"},
             NEW count \in {-1, Len(vectors)}, NEW no_array \in BOOLEAN,
             iov_call(op, fd, vectors, count, no_array)
      PROVE  FilesInv'
  BY <1>5 DEF iov_call, FilesInv, IoOK, OffsetsInFile, NoIo
<1>6. CASE readv_step
  <2>1. IoOK /\ io # NoIo /\ io.op = "readv" /\ io.at <= Len(io.vectors)
    BY <1>6, Zenon DEF readv_step, FilesInv
  <2> DEFINE len == io.vectors[io.at].len
             length == IF io.fd = 0 THEN 0 ELSE read_length(io.fd, len)
  <2>2. len \in Nat /\ Len(io.vectors) \in Nat
    BY <2>1, CountsAssumption DEF IoOK
  <2>3. IoOK'
    <3>1. /\ io'.fd = io.fd /\ io'.vectors = io.vectors /\ io'.op = io.op
          /\ io'.at = IF length # len THEN Len(io.vectors) + 1 ELSE io.at + 1
      BY <1>6, <2>1 DEF readv_step, IoOK
    <3> QED
      BY <2>1, <2>2, <3>1 DEF IoOK
  <2>4. CASE io.fd = 0
    BY <1>6, <2>3, <2>4, Zenon DEF readv_step, FilesInv, OffsetsInFile
  <2>5. CASE io.fd # 0
    <3>1. is_file(io.fd) /\ descriptors' = advance(io.fd, read_length(io.fd, len))
      BY <1>6, <2>5, Zenon DEF readv_step
    <3> QED
      BY <2>2, <2>3, <3>1, AdvanceKeeps DEF FilesInv
  <2> QED
    BY <2>4, <2>5, Zenon
<1>7. CASE iov_end \/ iov_fail
  BY <1>7 DEF iov_end, iov_fail, iov_return, FilesInv, IoOK, OffsetsInFile
<1>8. CASE writev_step
  BY <1>8 DEF writev_step, FilesInv, IoOK, OffsetsInFile
<1>9. ASSUME NEW fd \in Fds, NEW count \in Counts, write(fd, count) PROVE FilesInv'
  BY <1>9, Zenon DEF write, FilesInv, IoOK, OffsetsInFile
<1>10. ASSUME NEW fd \in Fds, NEW no_out \in BOOLEAN, fstat(fd, no_out) PROVE FilesInv'
  BY <1>10, Zenon DEF fstat, FilesInv, IoOK, OffsetsInFile
<1>11. CASE UNCHANGED file_vars
  BY <1>11, Zenon DEF file_vars, FilesInv, IoOK, OffsetsInFile
<1> QED
  BY <1>1, <1>2, <1>3, <1>4, <1>5, <1>6, <1>7, <1>8, <1>9, <1>10, <1>11 DEF FilesNext

\* Every read of an open descriptor, after any calls, lies in the boot module that was
\* opened (stub_impl.cpp:128-260).
THEOREM ReadsStayInModule == FilesSpec => []OffsetsInFile
<1>1. FilesInv => OffsetsInFile
  BY Zenon DEF FilesInv
<1> QED
  BY <1>1, FilesInitInv, FilesStepInv, PTL DEF FilesSpec
-----------------------------------------------------------------------------
(***************************************************************************)
(* The walks of the Multiboot2 block.                                      *)
(***************************************************************************)

\* The larger and the smaller of two numbers.
LEMMA MaxTwo == \A a, b \in Int : Max({a, b}) = IF a >= b THEN a ELSE b
BY DEF Max

LEMMA MinTwo == \A a, b \in Int : Min({a, b}) = IF a <= b THEN a ELSE b
BY DEF Min

\* The size of a tag is rounded up to the alignment.
LEMMA AlignTag == \A size \in Nat : align_tag(size) \in Nat /\ align_tag(size) >= size
BY DEF align_tag, TagAlignment

\* A number below n is its own remainder.
LEMMA SmallRemainder ==
    ASSUME NEW n \in Nat, NEW a \in 0 .. n - 1
    PROVE  a % n = a
<1>1. n \in Nat \ {0}
  OBVIOUS
<1>2. a \div n \in Int /\ a % n \in 0 .. n - 1 /\ a = n * (a \div n) + (a % n)
  BY <1>1
<1>3. PICK q \in Int, r \in 0 .. n - 1, w \in Int : r = a % n /\ w = n * q /\ a = w + r
  BY <1>2
<1>4. q = 0
  <2>1. CASE q >= 1
    <3>1. PICK k \in Nat : q = k + 1
      BY <2>1, q - 1 \in Nat
    <3>2. PICK y \in Nat : y = n * k
      BY <1>1
    <3>3. w = y + n
      BY <1>3, <3>1, <3>2
    <3> QED
      BY <1>3, <3>2, <3>3
  <2>2. CASE q <= -1
    <3>1. PICK k \in Nat : -q = k + 1
      BY <2>2, -q - 1 \in Nat
    <3>2. PICK y \in Nat : y = n * k
      BY <1>1
    <3>3. w = -y - n
      BY <1>3, <3>1, <3>2
    <3> QED
      BY <1>3, <3>2, <3>3
  <2> QED
    BY <2>1, <2>2
<1>5. w = 0
  BY <1>3, <1>4
<1> QED
  BY <1>3, <1>5

\* A tag at offset at that the first walk has passed lies in the block.
TagIn(place, tag, total) ==
    /\ place \in Nat /\ tag \in [type : TagTypes, size : Nat, data : {tag.data}]
    /\ tag.size >= 8 /\ place + tag.size <= total

\* The first walk has left a chain of tags without a gap, from the first tag to the one in
\* hand; the second one follows the whole chain.
Chain ==
    /\ mb.phase \in {"check", "parse"} =>
          \A place \in DOMAIN mb.tags : TagIn(place, mb.tags[place], mb.total)
    /\ mb.phase = "check" =>
          /\ mb.at \in 8 .. mb.total /\ (mb.at = 8 \/ 8 \in DOMAIN mb.tags)
          /\ \A place \in DOMAIN mb.tags :
                LET next == place + align_tag(mb.tags[place].size)
                IN  place < mb.at /\ (next = mb.at \/ next \in DOMAIN mb.tags)
    /\ mb.phase = "parse" =>
          /\ mb.at \in DOMAIN mb.tags
          /\ \A place \in DOMAIN mb.tags :
                mb.tags[place].type # "END" => place + align_tag(mb.tags[place].size) \in DOMAIN mb.tags

MultibootType ==
    /\ mb \in [phase : {"idle", "check", "parse", "ok", "err", "panic"}, base : Nat, total : Nat,
               at : Nat, tags : {mb.tags}, reach : Nat]
    /\ mb.phase \in {"check", "parse"} => 8 <= mb.total /\ mb.total <= AddressLimit

WalkInv == MultibootType /\ Chain /\ (mb.reach <= mb.total \/ mb.reach <= 8)

\* The translation of a tag that is at least as large as its header reads no byte behind it,
\* whatever its type, its counts and its lengths say.
LEMMA TranslateInside ==
    ASSUME NEW tag, tag.type \in TagTypes, tag.size \in Nat, tag.size >= 8,
           tag.data \in Contents(tag), NEW out
    PROVE  /\ translate_tag(tag, out).upto \in Nat /\ translate_tag(tag, out).upto <= tag.size
           /\ translate_tag(tag, out).verdict \in {"parse", "err", "panic"}
<1> USE DEF Sizeof
<1> DEFINE Fits(got) == /\ got.upto \in Nat /\ got.upto <= tag.size
                           /\ got.verdict \in {"parse", "err", "panic"}
<1>0. ASSUME NEW v \in {"parse", "err", "panic"}, NEW o, NEW u \in Nat, u <= tag.size
      PROVE  Fits(Answer(v, o, u))
  BY <1>0, Zenon DEF Answer
<1>1. CASE tag.size < smallest(tag.type)
  <2>1. translate_tag(tag, out) = Answer("err", out, 8)
    BY <1>1, Zenon DEF translate_tag
  <2> QED
    BY <1>0, <2>1, Zenon
<1>2. CASE ~(tag.size < smallest(tag.type)) /\ tag.type \in {"COMMAND_LINE", "BOOTLOADER_NAME"}
  <2>1. tag.data.length \in Nat
    BY <1>2, MultibootAssumption, Zenon DEF Contents
  <2>2. text_end(tag, 8, tag.data.length) \in Nat /\ text_end(tag, 8, tag.data.length) <= tag.size
    <3>1. PICK n \in Nat, s \in Nat, b \in Nat : n = tag.data.length /\ s = tag.size /\ s >= 8 /\ b = 8 + n + 1
      BY <2>1
    <3>2. Max({s, 8}) = s
      BY <3>1, MaxTwo
    <3>3. Min({b, s}) \in Nat /\ Min({b, s}) <= s
      BY <3>1, MinTwo
    <3> QED
      BY <3>1, <3>2, <3>3, Zenon DEF text_end
  <2>3. \E o : translate_string(tag, out) = Answer("parse", o, text_end(tag, 8, tag.data.length))
    BY Zenon DEF translate_string
  <2>4. Fits(translate_string(tag, out))
    BY <1>0, <2>2, <2>3, Zenon
  <2>5. translate_tag(tag, out) = translate_string(tag, out)
    BY <1>2, Zenon DEF translate_tag
  <2> QED
    BY <2>4, <2>5, Zenon
<1>3. CASE ~(tag.size < smallest(tag.type)) /\ tag.type = "MODULE"
  <2>0. tag.size >= 16
    BY <1>3 DEF smallest
  <2>1. tag.data.length \in Nat
    BY <1>3, MultibootAssumption, Zenon DEF Contents
  <2>2. text_end(tag, 16, tag.data.length) \in Nat /\ text_end(tag, 16, tag.data.length) <= tag.size
    BY <2>0, <2>1, MaxTwo, MinTwo DEF text_end
  <2>3. \/ translate_module(tag, out) = Answer("parse", out, 16)
        \/ \E o, v : /\ v \in {"parse", "panic"}
                     /\ translate_module(tag, out) = Answer(v, o, text_end(tag, 16, tag.data.length))
    BY Zenon DEF translate_module
  <2>4. Fits(translate_module(tag, out))
    BY <1>0, <2>0, <2>2, <2>3, Zenon
  <2>5. translate_tag(tag, out) = translate_module(tag, out)
    BY <1>3, Zenon DEF translate_tag
  <2> QED
    BY <2>4, <2>5, Zenon
<1>4. CASE ~(tag.size < smallest(tag.type)) /\ tag.type = "MEMORY_MAP"
  <2>0. tag.size >= 16
    BY <1>4 DEF smallest
  <2>1. PICK es \in Nat : es = tag.data.entry_size
    BY <1>4, MultibootAssumption, Zenon DEF Contents
  <2>2. CASE es < 24
    <3>1. translate_memory_map(tag, out) = Answer("err", out, 16)
      BY <2>1, <2>2, Zenon DEF translate_memory_map
    <3> QED
      BY <1>0, <1>4, <2>0, <3>1 DEF translate_tag
  <2>3. CASE es >= 24
    <3>1. PICK b \in Nat : b = tag.size - 16
      BY <2>0
    <3>2. /\ b \div es \in Nat /\ es * (b \div es) <= b
      BY <2>3
    <3>3. PICK n \in Nat : n = entry_count(tag) /\ es * n <= b
      BY <2>1, <3>1, <3>2 DEF entry_count
    <3> DEFINE end == IF n = 0 THEN 16 ELSE 16 + ((n - 1) * es) + 24
    <3>4. end \in Nat /\ end <= tag.size
      <4>1. CASE n = 0
        BY <2>0, <4>1, Zenon
      <4>2. CASE n # 0
        <5>1. PICK w \in Nat : w = (n - 1) * es
          BY <4>2
        <5>2. es * n = w + es
          BY <4>2, <5>1
        <5> QED
          BY <2>3, <3>1, <3>3, <4>2, <5>1, <5>2
      <4> QED
        BY <4>1, <4>2, Zenon
    <3> HIDE DEF end
    <3>5. \E o, v : v \in {"parse", "panic"} /\ translate_memory_map(tag, out) = Answer(v, o, end)
      <4> DEFINE kinds == [i \in 1 .. n |-> translate_memory_type(tag.data.type[i])]
      <4>1. ~(tag.data.entry_size < Sizeof.memory_map_entry)
        BY <2>1, <2>3
      <4>2. translate_memory_map(tag, out) =
               Answer(IF Len(out.memory_map) + n > MaxBootMemoryRegions THEN "panic" ELSE "parse",
                      [out EXCEPT !.memory_map = @ \o kinds], end)
        BY <2>1, <3>3, <4>1, Zenon DEF translate_memory_map, end
      <4> QED
        BY <4>2, Zenon
    <3>6. Fits(translate_memory_map(tag, out))
      BY <1>0, <3>4, <3>5
    <3>7. translate_tag(tag, out) = translate_memory_map(tag, out)
      BY <1>4, Zenon DEF translate_tag
    <3> QED
      BY <3>6, <3>7, Zenon
  <2> QED
    BY <2>1, <2>2, <2>3
<1>5. CASE ~(tag.size < smallest(tag.type)) /\ tag.type = "FRAMEBUFFER"
  <2>0. tag.size >= 32
    BY <1>5 DEF smallest
  <2>1. PICK b \in Nat : b = tag.size - 32 /\ payload(tag.size, 32) = b
    BY <2>0 DEF payload
  <2>2. tag.data.count \in Nat /\ tag.data.kind \in {"RGB", "EGA_TEXT", "OTHER", "INDEXED"}
    BY <1>5, MultibootAssumption DEF Contents
  <2>3. palette(tag) \in Nat /\ (b < 2 => palette(tag) = 0) /\ (b >= 2 => palette(tag) * 3 <= b - 2)
    BY <2>1, <2>2, MinTwo DEF palette
  <2> DEFINE counted == 32 + IF b < 2 THEN 0 ELSE 2
  <2>4. counted \in Nat /\ counted <= tag.size /\ counted + palette(tag) * 3 <= tag.size
        /\ counted + palette(tag) * 3 \in Nat
    BY <2>0, <2>1, <2>3
  <2>5. has_rgb(tag) => 38 <= tag.size
    BY <2>1 DEF has_rgb
  <2> HIDE DEF counted
  <2>6. \E o, v, u : /\ v \in {"parse", "err"} /\ translate_framebuffer(tag, out) = Answer(v, o, u)
                     /\ \/ u = 38 /\ has_rgb(tag)
                        \/ u = 32 \/ u = counted \/ u = counted + palette(tag) * 3
    <3>1. CASE tag.data.kind = "RGB"
      BY <3>1, <2>1 DEF translate_framebuffer
    <3>2. CASE tag.data.kind = "INDEXED"
      BY <3>2, <2>1 DEF translate_framebuffer, counted
    <3>3. CASE tag.data.kind = "EGA_TEXT"
      BY <3>3, Zenon DEF translate_framebuffer
    <3>4. CASE tag.data.kind = "OTHER"
      BY <3>4, Zenon DEF translate_framebuffer
    <3> QED
      BY <2>2, <3>1, <3>2, <3>3, <3>4
  <2>7. Fits(translate_framebuffer(tag, out))
    BY <1>0, <2>0, <2>4, <2>5, <2>6
  <2>8. translate_tag(tag, out) = translate_framebuffer(tag, out)
    BY <1>5, Zenon DEF translate_tag
  <2> QED
    BY <2>7, <2>8, Zenon
<1>6. CASE ~(tag.size < smallest(tag.type)) /\ tag.type \in {"ACPI_OLD", "ACPI_NEW"}
  <2>1. \E r : translate_tag(tag, out) = translate_acpi(tag, out, r)
    BY <1>6, Zenon DEF translate_tag
  <2>2. \A r : \E o : translate_acpi(tag, out, r) = Answer("parse", o, 8)
    BY Zenon DEF translate_acpi
  <2> QED
    BY <1>0, <2>1, <2>2
<1>7. CASE ~(tag.size < smallest(tag.type)) /\ tag.type \in {"END", "OTHER"}
  <2>1. translate_tag(tag, out) = Answer("parse", out, 8)
    BY <1>7, Zenon DEF translate_tag
  <2> QED
    BY <1>0, <2>1, Zenon
<1> QED
  BY <1>1, <1>2, <1>3, <1>4, <1>5, <1>6, <1>7 DEF TagTypes

LEMMA KeptIs ==
    ASSUME NEW tag
    PROVE  /\ DOMAIN Kept(tag) = DOMAIN mb.tags \cup {mb.at} /\ Kept(tag)[mb.at] = tag
           /\ \A place \in DOMAIN mb.tags : place # mb.at => Kept(tag)[place] = mb.tags[place]
BY Zenon DEF Kept

\* What a step makes of the walk, field by field.
Became(phase, place, tags, reach) ==
    mb' = [mb EXCEPT !.phase = phase, !.at = place, !.tags = tags, !.reach = reach]

LEMMA BecameIs ==
    ASSUME MultibootType, NEW phase, NEW place, NEW tags, NEW reach, Became(phase, place, tags, reach)
    PROVE  /\ mb'.phase = phase /\ mb'.at = place /\ mb'.tags = tags /\ mb'.reach = reach
           /\ mb'.total = mb.total /\ mb'.base = mb.base
           /\ phase \in {"idle", "check", "parse", "ok", "err", "panic"} /\ place \in Nat /\ reach \in Nat =>
                 mb' \in [phase : {"idle", "check", "parse", "ok", "err", "panic"}, base : Nat, total : Nat,
                          at : Nat, tags : {mb'.tags}, reach : Nat]
BY Zenon DEF MultibootType, Became

\* end - at does not wrap around while at stays in the block.
LEMMA RemainingIs ==
    ASSUME WalkInv, mb.phase = "check"
    PROVE  remaining = mb.total - mb.at /\ mb.total - mb.at \in Nat
<1>1. mb.total - mb.at \in 0 .. (AddressLimit + 1) - 1 /\ AddressLimit + 1 \in Nat
  BY MultibootAssumption DEF WalkInv, MultibootType, Chain
<1> QED
  BY <1>1, SmallRemainder DEF remaining

LEMMA WellFormedStep ==
    ASSUME WalkInv, well_formed
    PROVE  WalkInv'
<1> USE DEF Sizeof
<1>1. /\ mb.phase = "check" /\ MultibootType /\ Chain /\ mb.at \in Nat /\ mb.total \in Nat /\ mb.reach \in Nat
      /\ 8 <= mb.at /\ mb.at <= mb.total /\ 8 <= mb.total /\ mb.total <= AddressLimit
      /\ mb.reach <= mb.total
  <2>1. /\ mb.phase = "check" /\ MultibootType /\ Chain /\ (mb.reach <= mb.total \/ mb.reach <= 8)
    BY Zenon DEF WalkInv, well_formed
  <2>2. mb.at \in Nat /\ mb.total \in Nat /\ mb.reach \in Nat /\ 8 <= mb.total /\ mb.total <= AddressLimit
    BY <2>1, Zenon DEF MultibootType
  <2>3. mb.at \in 8 .. mb.total
    BY <2>1, Zenon DEF Chain
  <2> QED
    BY <2>1, <2>2, <2>3
<1>2. CASE mb' = [mb EXCEPT !.phase = "err"]
  BY <1>1, <1>2, Zenon DEF WalkInv, MultibootType, Chain
<1>3. CASE /\ remaining >= 8
           /\ \E tag \in Found(mb.at) :
                LET verdict == tag_verdict(tag, remaining)
                IN  mb' = [Read(tag, mb.at + 8) EXCEPT
                                !.phase = verdict,
                                !.at = IF verdict = "check" THEN @ + align_tag(tag.size)
                                       ELSE IF verdict = "parse" THEN 8 ELSE @]
  <2>1. PICK left \in Nat : left = remaining /\ left = mb.total - mb.at
    BY <1>1, RemainingIs, Zenon
  <2>2. left >= 8
    BY <1>3, <2>1, Zenon
  <2> PICK tag \in Found(mb.at) :
         LET verdict == tag_verdict(tag, left)
         IN  mb' = [Read(tag, mb.at + 8) EXCEPT
                         !.phase = verdict,
                         !.at = IF verdict = "check" THEN @ + align_tag(tag.size)
                                ELSE IF verdict = "parse" THEN 8 ELSE @]
    BY <1>3, <2>1, Zenon
  <2>3. mb.at \notin DOMAIN mb.tags
    BY <1>1 DEF Chain
  <2>4. /\ tag \in [type : TagTypes, size : Nat, data : {tag.data}]
        /\ tag.type \in TagTypes /\ tag.size \in Nat
    BY <2>3, MultibootAssumption, Zenon DEF Found, TagTypes
  <2> PICK verdict : verdict = tag_verdict(tag, left)
    BY Zenon
  <2> PICK n \in Nat : n = align_tag(tag.size) /\ n >= tag.size
    BY <2>4, AlignTag, Zenon
  <2> PICK r \in Nat : r = Max({mb.reach, mb.at + 8}) /\ r <= mb.total
    <3>1. PICK a \in Nat, b \in Nat : a = mb.reach /\ b = mb.at + 8 /\ a <= mb.total /\ b <= mb.total
      BY <1>1, <2>1, <2>2
    <3>2. Max({a, b}) \in Nat /\ Max({a, b}) <= mb.total
      BY <1>1, <3>1, MaxTwo
    <3> QED
      BY <3>1, <3>2, Zenon
  <2> DEFINE next == IF verdict = "check" THEN mb.at + n ELSE IF verdict = "parse" THEN 8 ELSE mb.at
  <2>5. Became(verdict, next, Kept(tag), r)
    BY <1>1, Zenon DEF Became, Read, MultibootType
  <2>6. /\ verdict \in {"err", "parse", "check"}
        /\ verdict # "err" => tag.size >= 8 /\ tag.size <= left
        /\ verdict = "parse" => tag.type = "END"
        /\ verdict = "check" => tag.type # "END" /\ n <= left
    BY <2>4 DEF tag_verdict
  <2>7. next \in Nat
    BY <1>1
  <2> HIDE DEF next
  <2>8. /\ mb'.phase = verdict /\ mb'.at = next /\ mb'.tags = Kept(tag) /\ mb'.reach = r
        /\ mb'.total = mb.total
    BY <1>1, <2>5, BecameIs
  <2>9. MultibootType'
    BY <1>1, <2>5, <2>6, <2>7, <2>8, BecameIs, Zenon DEF MultibootType
  <2>10. /\ DOMAIN Kept(tag) = DOMAIN mb.tags \cup {mb.at} /\ Kept(tag)[mb.at] = tag
         /\ \A place \in DOMAIN mb.tags : place # mb.at => Kept(tag)[place] = mb.tags[place]
    BY KeptIs, Zenon
  <2> PICK tags : tags = Kept(tag)
    BY Zenon
  <2>11. ASSUME verdict # "err", NEW place \in DOMAIN tags PROVE TagIn(place, tags[place], mb.total)
    <3>1. CASE place = mb.at
      <4>1. mb.at + tag.size <= mb.total /\ tag.size >= 8
        BY <1>1, <2>1, <2>4, <2>6, <2>11
      <4> QED
        BY <1>1, <2>4, <2>10, <3>1, <4>1 DEF TagIn
    <3>2. CASE place # mb.at
      BY <1>1, <2>10, <3>2, Zenon DEF Chain
    <3> QED
      BY <3>1, <3>2
  <2>12. mb.at = 8 \/ 8 \in DOMAIN mb.tags
    BY <1>1, Zenon DEF Chain
  <2>13. ASSUME NEW place \in DOMAIN mb.tags
         PROVE  /\ place < mb.at /\ tags[place] = mb.tags[place] /\ place \in Nat
                /\ place + align_tag(tags[place].size) \in DOMAIN tags
    <3>1. place < mb.at /\ place \in Nat
      BY <1>1, Zenon DEF Chain, TagIn
    <3>2. tags[place] = mb.tags[place]
      BY <1>1, <2>10, <3>1
    <3>3. place + align_tag(mb.tags[place].size) \in DOMAIN mb.tags \cup {mb.at}
      BY <1>1, Zenon DEF Chain
    <3> QED
      BY <2>10, <3>1, <3>2, <3>3
  <2>14. CASE verdict = "err"
    BY <2>8, <2>9, <2>14, Zenon DEF WalkInv, Chain
  <2>15. CASE verdict = "parse"
    <3>1. next = 8 /\ 8 \in DOMAIN tags
      BY <2>10, <2>12, <2>15, Zenon DEF next
    <3>2. ASSUME NEW place \in DOMAIN tags, tags[place].type # "END"
          PROVE  place + align_tag(tags[place].size) \in DOMAIN tags
      <4>1. place # mb.at
        BY <2>6, <2>10, <2>15, <3>2
      <4> QED
        BY <2>10, <2>13, <4>1, Zenon
    <3>3. Chain'
      BY <2>8, <2>11, <2>15, <3>1, <3>2 DEF Chain
    <3> QED
      BY <2>8, <2>9, <3>3, Zenon DEF WalkInv
  <2>16. CASE verdict = "check"
    <3>1. next = mb.at + n /\ next \in 8 .. mb.total /\ mb.at < next
      <4>1. n <= left /\ n >= 8
        BY <2>4, <2>6, <2>16
      <4> QED
        BY <1>1, <2>1, <2>16, <4>1 DEF next
    <3>2. 8 \in DOMAIN tags
      BY <2>10, <2>12, Zenon
    <3>3. ASSUME NEW place \in DOMAIN tags
          PROVE  place < next /\ (place + align_tag(tags[place].size) = next \/ place + align_tag(tags[place].size) \in DOMAIN tags)
      <4>1. CASE place = mb.at
        BY <2>10, <3>1, <4>1, Zenon
      <4>2. CASE place # mb.at
        <5>1. place \in DOMAIN mb.tags
          BY <2>10, <4>2, Zenon
        <5> QED
          BY <1>1, <2>13, <3>1, <5>1
      <4> QED
        BY <4>1, <4>2, Zenon
    <3>4. Chain'
      BY <2>8, <2>11, <2>16, <3>1, <3>2, <3>3 DEF Chain
    <3> QED
      BY <2>8, <2>9, <3>4, Zenon DEF WalkInv
  <2> QED
    BY <2>6, <2>14, <2>15, <2>16
<1> QED
  BY <1>2, <1>3, Zenon DEF well_formed

LEMMA TranslateStep ==
    ASSUME WalkInv, translate
    PROVE  WalkInv'
<1> USE DEF Sizeof
<1> PICK place \in DOMAIN mb.tags : place = mb.at
  BY Zenon DEF WalkInv, Chain, translate
<1> PICK found : found = mb.tags[place]
  BY Zenon
<1>1. /\ mb.phase = "parse" /\ MultibootType /\ Chain
      /\ (mb.reach <= mb.total \/ mb.reach <= 8) /\ Found(mb.at) = {found}
  BY Zenon DEF WalkInv, translate, Found
<1>2. /\ place \in Nat /\ mb.total \in Nat /\ mb.reach \in Nat /\ 8 <= mb.total
      /\ TagIn(place, found, mb.total)
  BY <1>1, Zenon DEF MultibootType, Chain
<1>3. mb.reach <= mb.total
  BY <1>1, <1>2
<1>4. /\ found.type \in TagTypes /\ found.size \in Nat /\ found.size >= 8 /\ place + found.size <= mb.total
      /\ found \in [type : TagTypes, size : Nat, data : {found.data}]
  BY <1>2, Zenon DEF TagIn
<1>5. ASSUME NEW u \in Nat, u <= found.size
      PROVE  Max({mb.reach, mb.at + u}) \in Nat /\ Max({mb.reach, mb.at + u}) <= mb.total
  <2>1. PICK a \in Nat, b \in Nat : a = mb.reach /\ b = mb.at + u /\ a <= mb.total /\ b <= mb.total
    BY <1>2, <1>3, <1>4, <1>5
  <2>2. Max({a, b}) \in Nat /\ Max({a, b}) <= mb.total
    BY <1>2, <2>1, MaxTwo
  <2> QED
    BY <2>1, <2>2, Zenon
<1>6. CASE mb' = [Read(found, mb.at + 8) EXCEPT !.phase = "ok"]
  <2>1. Became("ok", mb.at, Kept(found), Max({mb.reach, mb.at + 8}))
    BY <1>1, <1>6, Zenon DEF Read, Became, MultibootType
  <2>2. /\ mb'.phase = "ok" /\ mb'.reach = Max({mb.reach, mb.at + 8}) /\ mb'.total = mb.total
        /\ MultibootType'
    BY <1>1, <1>2, <1>4, <1>5, <2>1, BecameIs DEF MultibootType
  <2> QED
    BY <1>4, <1>5, <2>2 DEF WalkInv, Chain
<1>7. ASSUME found.type # "END", NEW data \in Contents(found), NEW tag, tag = [found EXCEPT !.data = data],
             NEW got, got = translate_tag(tag, info),
             mb' = [Read(tag, mb.at + got.upto) EXCEPT
                      !.phase = got.verdict,
                      !.at = IF got.verdict = "parse" THEN next_tag(@, tag.size) ELSE @]
      PROVE  WalkInv'
  <2>1. /\ tag.type = found.type /\ tag.size = found.size /\ tag.data = data
        /\ tag \in [type : TagTypes, size : Nat, data : {tag.data}]
    BY <1>4, <1>7, Zenon
  <2>2. tag.data \in Contents(tag)
    BY <1>7, <2>1, Zenon DEF Contents
  <2>3. PICK u \in Nat : u = got.upto /\ u <= found.size
    BY <1>4, <1>7, <2>1, <2>2, TranslateInside
  <2>4. PICK v \in {"parse", "err", "panic"} : v = got.verdict
    BY <1>4, <1>7, <2>1, <2>2, TranslateInside
  <2> PICK r \in Nat : r = Max({mb.reach, mb.at + u}) /\ r <= mb.total
    BY <1>5, <2>3, Zenon
  <2> PICK n \in Nat : n = align_tag(found.size)
    BY <1>4, AlignTag, Zenon
  <2> PICK next \in Nat : next = IF v = "parse" THEN mb.at + n ELSE mb.at
    BY <1>2
  <2>5. Became(v, next, Kept(tag), r)
    BY <1>1, <1>7, <2>1, <2>3, <2>4, Zenon DEF Became, Read, MultibootType, next_tag
  <2>6. /\ mb'.phase = v /\ mb'.at = next /\ mb'.tags = Kept(tag) /\ mb'.reach = r
        /\ mb'.total = mb.total
    BY <1>1, <2>5, BecameIs, Zenon
  <2>7. MultibootType'
    BY <1>1, <2>4, <2>5, <2>6, BecameIs DEF MultibootType
  <2>8. CASE v # "parse"
    BY <2>4, <2>6, <2>7, <2>8, Zenon DEF WalkInv, Chain
  <2>9. CASE v = "parse"
    <3> PICK tags : tags = Kept(tag)
      BY Zenon
    <3>1. /\ DOMAIN tags = DOMAIN mb.tags /\ tags[place] = tag
          /\ \A b \in DOMAIN mb.tags : b # place => tags[b] = mb.tags[b]
      BY KeptIs, Zenon
    <3>2. ASSUME NEW b \in DOMAIN mb.tags
          PROVE  /\ TagIn(b, tags[b], mb.total) /\ tags[b].type = mb.tags[b].type
                 /\ tags[b].size = mb.tags[b].size
      <4>1. CASE b = place
        BY <1>2, <1>4, <2>1, <3>1, <4>1 DEF TagIn
      <4>2. CASE b # place
        BY <1>1, <3>1, <4>2 DEF Chain
      <4> QED
        BY <4>1, <4>2, Zenon
    <3>3. next \in DOMAIN tags
      BY <1>1, <1>7, <2>9, <3>1, Zenon DEF Chain
    <3>4. ASSUME NEW b \in DOMAIN tags, tags[b].type # "END"
          PROVE  b + align_tag(tags[b].size) \in DOMAIN tags
      BY <1>1, <3>1, <3>2, <3>4 DEF Chain
    <3>5. Chain'
      BY <2>6, <2>9, <3>1, <3>2, <3>3, <3>4, Zenon DEF Chain
    <3> QED
      BY <2>6, <2>7, <3>5 DEF WalkInv
  <2> QED
    BY <2>8, <2>9, Zenon
<1> QED
  BY <1>1, <1>6, <1>7, Zenon DEF translate

LEMMA MultibootInitInv == MultibootInit => WalkInv
BY DEF MultibootInit, WalkInv, MultibootType, Chain, NoBlock

LEMMA ParseStep ==
    ASSUME WalkInv, NEW magic \in BOOLEAN, NEW base \in InfoAddresses, NEW total \in TotalSizes,
           parse(magic, base, total)
    PROVE  WalkInv'
<1> USE DEF Sizeof
<1>1. base \in Nat /\ total \in Nat /\ AddressLimit \in Nat
  BY MultibootAssumption
<1> PICK phase \in {"err", "check"} :
       phase = IF ~magic \/ base = 0 \/ total < 8 \/ total > AddressLimit - base THEN "err" ELSE "check"
  BY Zenon
<1> PICK reach \in {0, 8} : reach = IF magic /\ base # 0 THEN 8 ELSE 0
  BY Zenon
<1>2. mb' = [phase |-> phase, base |-> base, total |-> total, at |-> 8, tags |-> <<>>, reach |-> reach]
  BY Zenon DEF parse, NoBlock
<1>3. phase = "check" => 8 <= total /\ total <= AddressLimit
  BY <1>1
<1>4. MultibootType'
  BY <1>1, <1>2, <1>3, Zenon DEF MultibootType
<1>5. Chain'
  BY <1>1, <1>2, <1>3 DEF Chain
<1> QED
  BY <1>2, <1>4, <1>5 DEF WalkInv

LEMMA MultibootStepInv == WalkInv /\ [MultibootNext]_<<mb, info>> => WalkInv'
<1> SUFFICES ASSUME WalkInv, [MultibootNext]_<<mb, info>> PROVE WalkInv'
  BY Zenon
<1>1. CASE \E magic \in BOOLEAN, base \in InfoAddresses, total \in TotalSizes : parse(magic, base, total)
  BY <1>1, ParseStep, Zenon
<1>2. CASE well_formed
  BY <1>2, WellFormedStep, Zenon
<1>3. CASE translate
  BY <1>3, TranslateStep, Zenon
<1>4. CASE forget_block
  BY <1>4 DEF forget_block, WalkInv, MultibootType, Chain, NoBlock
<1>5. CASE UNCHANGED <<mb, info>>
  BY <1>5, Zenon DEF WalkInv, MultibootType, Chain
<1> QED
  BY <1>1, <1>2, <1>3, <1>4, <1>5 DEF MultibootNext

\* The Multiboot2 block is never read outside its total_size, and the second walk, which
\* checks nothing, meets only tags that the first one has checked: for every address limit,
\* block, number of tags, and all types, sizes and counts in the tags
\* (iterator.hpp:25-119, spec.hpp:82-234).
THEOREM BlockReadInside == MultibootSpec => []WalksInBlock
<1>1. WalkInv => WalksInBlock
  <2> SUFFICES ASSUME WalkInv PROVE WalksInBlock
    BY Zenon
  <2>1. mb.total \in Int /\ mb.reach \in Int /\ (mb.reach <= mb.total \/ mb.reach <= 8)
    BY DEF WalkInv, MultibootType
  <2>2. PICK t \in Int : t = mb.total
    BY <2>1, Zenon
  <2>3. mb.reach <= Max({t, 8})
    BY <2>1, <2>2, MaxTwo
  <2>4. mb.phase = "parse" => mb.at \in DOMAIN mb.tags
    BY Zenon DEF WalkInv, Chain
  <2> QED
    BY <2>2, <2>3, <2>4, Zenon DEF WalksInBlock, ReadsInBlock, WalksAgree, Sizeof
<1> QED
  BY <1>1, MultibootInitInv, MultibootStepInv, PTL DEF MultibootSpec

-----------------------------------------------------------------------------
(***************************************************************************)
(* What the second walk leaves in m_info.                                  *)
(***************************************************************************)
RegionKinds == {"USABLE", "RESERVED", "ACPI_RECLAIMABLE", "ACPI_NVS", "DEFECTIVE"}

InfoType ==
    [command_line : Nat, bootloader_name : Nat, memory_map : Seq(RegionKinds), modules : Seq(Nat),
     reserved : Seq([base : Nat, length : Nat]),
     framebuffer : [present : BOOLEAN, kind : {"RGB", "INDEXED", "TEXT"}, palette : Nat],
     acpi : [present : BOOLEAN, base : Nat, length : Nat, revision : Nat]]

\* What is in the arrays of fixed size has room in them.
HasRoom(out) ==
    /\ out.command_line <= MaxBootString /\ out.bootloader_name <= MaxBootString
    /\ Len(out.memory_map) <= MaxBootMemoryRegions /\ Len(out.modules) <= MaxBootModules
    /\ out.framebuffer.palette <= MaxBootPaletteColors

\* The block is reserved, and the RSDP lies in it.
Reserves(out) ==
    /\ out.reserved = <<[base |-> mb.base, length |-> mb.total]>>
    /\ out.acpi.present => /\ mb.base <= out.acpi.base
                           /\ out.acpi.base + out.acpi.length <= mb.base + mb.total

InfoInv ==
    /\ info \in InfoType
    /\ mb.phase \in {"idle", "check", "err"} => info = reset
    /\ mb.phase \in {"parse", "ok"} => HasRoom(info) /\ Reserves(info)

LEMMA ResetIs == reset \in InfoType /\ HasRoom(reset) /\ ~reset.acpi.present
<1>1. reset \in InfoType
  BY DEF reset, InfoType, NoFramebuffer, NoAcpi
<1> QED
  BY <1>1, MultibootAssumption DEF reset, HasRoom, NoFramebuffer, NoAcpi

LEMMA AssignedIs == \A n \in Nat : assigned(n) \in Nat /\ assigned(n) <= MaxBootString
BY MultibootAssumption, MinTwo DEF assigned

LEMMA MemoryTypeIs == \A type : translate_memory_type(type) \in RegionKinds
<1> SUFFICES ASSUME NEW type PROVE translate_memory_type(type) \in RegionKinds
  BY Zenon
<1> DEFINE names == <<"USABLE", "RESERVED", "ACPI_RECLAIMABLE", "ACPI_NVS", "DEFECTIVE">>
<1>1. \A i \in 1 .. 5 : names[i] \in RegionKinds
  <2>1. /\ names[1] \in RegionKinds /\ names[2] \in RegionKinds /\ names[3] \in RegionKinds
        /\ names[4] \in RegionKinds /\ names[5] \in RegionKinds
    BY Zenon DEF RegionKinds
  <2>2. \A i \in 1 .. 5 : i = 1 \/ i = 2 \/ i = 3 \/ i = 4 \/ i = 5
    OBVIOUS
  <2> HIDE DEF names
  <2> QED
    BY <2>1, <2>2, Zenon
<1>2. "RESERVED" \in RegionKinds
  BY Zenon DEF RegionKinds
<1> QED
  BY <1>1, <1>2, Zenon DEF translate_memory_type

LEMMA ConcatIs ==
    ASSUME NEW S, NEW s \in Seq(S), NEW t \in Seq(S)
    PROVE  s \o t \in Seq(S) /\ Len(s \o t) = Len(s) + Len(t)
OBVIOUS

\* One tag keeps m_info in order: unless the translation fails or panics, what it adds has
\* room, the block stays reserved, and an RSDP it takes is inside the tag.
LEMMA TranslateInfo ==
    ASSUME MultibootType, NEW out \in InfoType, HasRoom(out), Reserves(out),
           NEW tag, tag.type \in TagTypes, tag.size \in Nat, tag.size >= 8,
           mb.at + tag.size <= mb.total, tag.data \in Contents(tag),
           NEW got, got = translate_tag(tag, out)
    PROVE  /\ got.info \in InfoType
           /\ got.verdict = "parse" => HasRoom(got.info) /\ Reserves(got.info)
<1> USE DEF Sizeof
<1> DEFINE Good(a) == /\ a.info \in InfoType
                      /\ a.verdict = "parse" => HasRoom(a.info) /\ Reserves(a.info)
<1>1. ASSUME NEW v, NEW o \in InfoType, NEW u, v = "parse" => HasRoom(o) /\ Reserves(o)
      PROVE  Good(Answer(v, o, u))
  BY <1>1, Zenon DEF Answer
<1>2. mb.at \in Nat /\ mb.base \in Nat /\ mb.total \in Nat
  BY Zenon DEF MultibootType
<1>3. CASE tag.size < smallest(tag.type)
  <2>1. translate_tag(tag, out) = Answer("err", out, 8)
    BY <1>3, Zenon DEF translate_tag
  <2> QED
    BY <1>1, <2>1, Zenon
<1>4. CASE ~(tag.size < smallest(tag.type)) /\ tag.type \in {"COMMAND_LINE", "BOOTLOADER_NAME"}
  <2>1. PICK n \in Nat : n = assigned(tag.data.length) /\ n <= MaxBootString
    <3>1. tag.data.length \in Nat
      BY <1>4, MultibootAssumption, Zenon DEF Contents
    <3> QED
      BY <3>1, AssignedIs, Zenon
  <2>2. PICK o : o = IF tag.type = "COMMAND_LINE" THEN [out EXCEPT !.command_line = n]
                     ELSE [out EXCEPT !.bootloader_name = n]
    BY Zenon
  <2>3. /\ o \in InfoType /\ o.reserved = out.reserved /\ o.acpi = out.acpi
        /\ o.memory_map = out.memory_map /\ o.modules = out.modules /\ o.framebuffer = out.framebuffer
        /\ o.command_line \in {n, out.command_line} /\ o.bootloader_name \in {n, out.bootloader_name}
    BY <2>2, Zenon DEF InfoType
  <2>4. HasRoom(o) /\ Reserves(o)
    BY <2>1, <2>3, Zenon DEF HasRoom, Reserves
  <2>5. \E u : translate_string(tag, out) = Answer("parse", o, u)
    BY <2>1, <2>2, Zenon DEF translate_string
  <2>6. translate_tag(tag, out) = translate_string(tag, out)
    BY <1>4, Zenon DEF translate_tag
  <2> QED
    BY <1>1, <2>3, <2>4, <2>5, <2>6
<1>5. CASE ~(tag.size < smallest(tag.type)) /\ tag.type = "MODULE"
  <2>0. translate_tag(tag, out) = translate_module(tag, out)
    BY <1>5, Zenon DEF translate_tag
  <2>1. CASE tag.data.empty
    <3>1. translate_module(tag, out) = Answer("parse", out, 16)
      BY <2>1, Zenon DEF translate_module
    <3> QED
      BY <1>1, <2>0, <3>1
  <2>2. CASE ~tag.data.empty
    <3>1. PICK n \in Nat : n = assigned(tag.data.length)
      <4>1. tag.data.length \in Nat
        BY <1>5, MultibootAssumption, Zenon DEF Contents
      <4> QED
        BY <4>1, AssignedIs, Zenon
    <3>2. PICK o : o = [out EXCEPT !.modules = Append(@, n)]
      BY Zenon
    <3>3. PICK m \in Seq(Nat) : m = out.modules
      BY Zenon DEF InfoType
    <3>4. Append(m, n) \in Seq(Nat) /\ Len(Append(m, n)) = Len(m) + 1 /\ Len(m) \in Nat
      BY <3>3
    <3>5. /\ o \in InfoType /\ o.reserved = out.reserved /\ o.acpi = out.acpi
          /\ o.memory_map = out.memory_map /\ o.modules = Append(m, n) /\ o.framebuffer = out.framebuffer
          /\ o.command_line = out.command_line /\ o.bootloader_name = out.bootloader_name
      BY <3>2, <3>3, <3>4, Zenon DEF InfoType
    <3>6. PICK v \in {"panic", "parse"} : v = IF Len(m) = MaxBootModules THEN "panic" ELSE "parse"
      BY Zenon
    <3>7. v = "parse" => Len(Append(m, n)) <= MaxBootModules
      BY <3>3, <3>4, <3>6, MultibootAssumption DEF HasRoom
    <3>8. v = "parse" => HasRoom(o) /\ Reserves(o)
      BY <3>5, <3>7 DEF HasRoom, Reserves
    <3>9. \E u : translate_module(tag, out) = Answer(v, o, u)
      BY <2>2, <3>1, <3>2, <3>3, <3>6, Zenon DEF translate_module
    <3> QED
      BY <1>1, <2>0, <3>5, <3>8, <3>9
  <2> QED
    BY <2>1, <2>2
<1>6. CASE ~(tag.size < smallest(tag.type)) /\ tag.type = "MEMORY_MAP"
  <2>0. translate_tag(tag, out) = translate_memory_map(tag, out)
    BY <1>6, Zenon DEF translate_tag
  <2>1. PICK es \in Nat : es = tag.data.entry_size
    BY <1>6, MultibootAssumption DEF Contents
  <2>2. CASE es < 24
    <3>1. translate_memory_map(tag, out) = Answer("err", out, 16)
      BY <2>1, <2>2, Zenon DEF translate_memory_map
    <3> QED
      BY <1>1, <2>0, <3>1
  <2>3. CASE es >= 24
    <3>1. PICK b \in Nat : b = tag.size - 16
      BY <1>6 DEF smallest
    <3>2. PICK n \in Nat : n = entry_count(tag)
      BY <2>1, <2>3, <3>1 DEF entry_count
    <3>3. PICK kinds : kinds = [i \in 1 .. n |-> translate_memory_type(tag.data.type[i])]
      BY Zenon
    <3>4. kinds \in Seq(RegionKinds) /\ Len(kinds) = n
      BY <3>2, <3>3, MemoryTypeIs
    <3>5. PICK m \in Seq(RegionKinds) : m = out.memory_map
      BY Zenon DEF InfoType
    <3>6. m \o kinds \in Seq(RegionKinds) /\ Len(m \o kinds) = Len(m) + n
      BY <3>4, <3>5, ConcatIs, Zenon
    <3>7. PICK o : o = [out EXCEPT !.memory_map = @ \o kinds]
      BY Zenon
    <3>8. /\ o \in InfoType /\ o.reserved = out.reserved /\ o.acpi = out.acpi
          /\ o.memory_map = m \o kinds /\ o.modules = out.modules /\ o.framebuffer = out.framebuffer
          /\ o.command_line = out.command_line /\ o.bootloader_name = out.bootloader_name
      BY <3>5, <3>6, <3>7, Zenon DEF InfoType
    <3>9. PICK v : v = IF Len(m) + n > MaxBootMemoryRegions THEN "panic" ELSE "parse"
      BY Zenon
    <3>10. v = "parse" => Len(m \o kinds) <= MaxBootMemoryRegions
      BY <3>4, <3>5, <3>6, <3>9, MultibootAssumption
    <3>11. v = "parse" => HasRoom(o) /\ Reserves(o)
      BY <3>8, <3>10, Zenon DEF HasRoom, Reserves
    <3>12. ~(tag.data.entry_size < Sizeof.memory_map_entry)
      BY <2>1, <2>3
    <3>13. \E u : translate_memory_map(tag, out) = Answer(v, o, u)
      BY <3>2, <3>3, <3>5, <3>7, <3>9, <3>12, Zenon DEF translate_memory_map
    <3> QED
      BY <1>1, <2>0, <3>8, <3>11, <3>13
  <2> QED
    BY <2>1, <2>2, <2>3
<1>7. CASE ~(tag.size < smallest(tag.type)) /\ tag.type = "FRAMEBUFFER"
  <2>0. translate_tag(tag, out) = translate_framebuffer(tag, out)
    BY <1>7, Zenon DEF translate_tag
  <2>1. PICK b \in Nat : b = payload(tag.size, 32)
    BY DEF payload
  <2>2. tag.data.count \in Nat /\ tag.data.kind \in {"RGB", "EGA_TEXT", "OTHER", "INDEXED"}
    BY <1>7, MultibootAssumption DEF Contents
  <2>3. palette(tag) \in Nat
    BY <2>1, <2>2, MinTwo DEF palette
  <2> DEFINE Shown(f) == [out EXCEPT !.framebuffer = f]
  <2>4. ASSUME NEW f \in [present : BOOLEAN, kind : {"RGB", "INDEXED", "TEXT"}, palette : Nat],
               f.palette <= MaxBootPaletteColors
        PROVE  Shown(f) \in InfoType /\ HasRoom(Shown(f)) /\ Reserves(Shown(f))
    <3>1. PICK o : o = Shown(f)
      BY Zenon
    <3>2. /\ o \in InfoType /\ o.reserved = out.reserved /\ o.acpi = out.acpi
          /\ o.memory_map = out.memory_map /\ o.modules = out.modules /\ o.framebuffer = f
          /\ o.command_line = out.command_line /\ o.bootloader_name = out.bootloader_name
      BY <3>1, Zenon DEF InfoType
    <3> QED
      BY <2>4, <3>1, <3>2 DEF HasRoom, Reserves
  <2>5. \E f, v, u : /\ translate_framebuffer(tag, out) = Answer(v, Shown(f), u)
                     /\ \/ f = NoFramebuffer
                        \/ \E kind \in {"RGB", "TEXT"} : f = [present |-> TRUE, kind |-> kind, palette |-> 0]
                        \/ /\ f = [present |-> TRUE, kind |-> "INDEXED", palette |-> palette(tag)]
                           /\ ~(palette(tag) > MaxBootPaletteColors)
    <3>1. CASE tag.data.kind = "RGB"
      BY <3>1, Zenon DEF translate_framebuffer
    <3>2. CASE tag.data.kind = "INDEXED"
      BY <3>2, Zenon DEF translate_framebuffer
    <3>3. CASE tag.data.kind = "EGA_TEXT"
      BY <3>3, Zenon DEF translate_framebuffer
    <3>4. CASE tag.data.kind = "OTHER"
      BY <3>4, Zenon DEF translate_framebuffer
    <3> QED
      BY <2>2, <3>1, <3>2, <3>3, <3>4, Zenon
  <2> HIDE DEF Shown
  <2>6. PICK f, v, u : /\ translate_framebuffer(tag, out) = Answer(v, Shown(f), u)
                       /\ f \in [present : BOOLEAN, kind : {"RGB", "INDEXED", "TEXT"}, palette : Nat]
                       /\ f.palette <= MaxBootPaletteColors
    <3>1. PICK f, v, u :
             /\ translate_framebuffer(tag, out) = Answer(v, Shown(f), u)
             /\ \/ f = NoFramebuffer
                \/ \E kind \in {"RGB", "TEXT"} : f = [present |-> TRUE, kind |-> kind, palette |-> 0]
                \/ /\ f = [present |-> TRUE, kind |-> "INDEXED", palette |-> palette(tag)]
                   /\ ~(palette(tag) > MaxBootPaletteColors)
      BY <2>5, Zenon
    <3>2. /\ f \in [present : BOOLEAN, kind : {"RGB", "INDEXED", "TEXT"}, palette : Nat]
          /\ f.palette <= MaxBootPaletteColors
      <4>1. CASE f = NoFramebuffer
        BY <4>1, MultibootAssumption DEF NoFramebuffer
      <4>2. CASE \E kind \in {"RGB", "TEXT"} : f = [present |-> TRUE, kind |-> kind, palette |-> 0]
        BY <4>2, MultibootAssumption
      <4>3. CASE /\ f = [present |-> TRUE, kind |-> "INDEXED", palette |-> palette(tag)]
                 /\ ~(palette(tag) > MaxBootPaletteColors)
        BY <2>3, <4>3, MultibootAssumption
      <4> QED
        BY <3>1, <4>1, <4>2, <4>3
    <3> QED
      BY <3>1, <3>2, Zenon
  <2> QED
    BY <1>1, <2>0, <2>4, <2>6
<1>8. CASE ~(tag.size < smallest(tag.type)) /\ tag.type \in {"ACPI_OLD", "ACPI_NEW"}
  <2>1. PICK r \in Nat : translate_tag(tag, out) = translate_acpi(tag, out, r)
    BY <1>8, Zenon DEF translate_tag
  <2>2. CASE out.acpi.present /\ out.acpi.revision >= r
    <3>1. translate_acpi(tag, out, r) = Answer("parse", out, 8)
      BY <2>2, Zenon DEF translate_acpi
    <3> QED
      BY <1>1, <2>1, <3>1
  <2>3. CASE ~(out.acpi.present /\ out.acpi.revision >= r)
    <3>1. PICK base \in Nat, length \in Nat : base = mb.base + mb.at + 8 /\ length = tag.size - 8
      BY <1>2
    <3>2. PICK o : o = [out EXCEPT !.acpi = [present |-> TRUE, base |-> base, length |-> length, revision |-> r]]
      BY Zenon
    <3>3. /\ o \in InfoType /\ o.reserved = out.reserved
          /\ o.acpi = [present |-> TRUE, base |-> base, length |-> length, revision |-> r]
          /\ o.memory_map = out.memory_map /\ o.modules = out.modules /\ o.framebuffer = out.framebuffer
          /\ o.command_line = out.command_line /\ o.bootloader_name = out.bootloader_name
      BY <3>2, Zenon DEF InfoType
    <3>4. mb.base <= base /\ base + length <= mb.base + mb.total
      BY <1>2, <3>1
    <3>5. HasRoom(o) /\ Reserves(o)
      BY <3>3, <3>4 DEF HasRoom, Reserves
    <3>6. translate_acpi(tag, out, r) = Answer("parse", o, 8)
      BY <2>3, <3>1, <3>2 DEF translate_acpi
    <3> QED
      BY <1>1, <2>1, <3>3, <3>5, <3>6
  <2> QED
    BY <2>2, <2>3
<1>9. CASE ~(tag.size < smallest(tag.type)) /\ tag.type \in {"END", "OTHER"}
  <2>1. translate_tag(tag, out) = Answer("parse", out, 8)
    BY <1>9, Zenon DEF translate_tag
  <2> QED
    BY <1>1, <2>1, Zenon
<1> QED
  BY <1>3, <1>4, <1>5, <1>6, <1>7, <1>8, <1>9 DEF TagTypes

LEMMA InfoStep ==
    ASSUME WalkInv, InfoInv, [MultibootNext]_<<mb, info>>
    PROVE  InfoInv'
<1> USE DEF Sizeof
<1>0. MultibootType
  BY Zenon DEF WalkInv
<1>1. CASE \E magic \in BOOLEAN, base \in InfoAddresses, total \in TotalSizes : parse(magic, base, total)
  <2>1. info' = reset /\ mb'.phase \in {"err", "check"}
    BY <1>1 DEF parse, NoBlock
  <2> QED
    BY <2>1, ResetIs DEF InfoInv
<1>2. CASE well_formed
  <2>1. mb.phase = "check" /\ info = reset
    BY <1>2, Zenon DEF well_formed, InfoInv
  <2>2. CASE mb' = [mb EXCEPT !.phase = "err"] /\ UNCHANGED info
    <3>1. mb'.phase = "err"
      BY <1>0, <2>2 DEF MultibootType
    <3> QED
      BY <2>1, <2>2, <3>1, ResetIs DEF InfoInv
  <2>3. CASE \E tag \in Found(mb.at) :
                LET verdict == tag_verdict(tag, remaining)
                IN  /\ mb' = [Read(tag, mb.at + 8) EXCEPT
                                !.phase = verdict,
                                !.at = IF verdict = "check" THEN @ + align_tag(tag.size)
                                       ELSE IF verdict = "parse" THEN 8 ELSE @]
                    /\ info' = IF verdict = "parse" THEN reserve_block(info) ELSE info
    <3>1. PICK tag, verdict : /\ verdict = tag_verdict(tag, remaining)
                              /\ \E place : mb' = [Read(tag, mb.at + 8) EXCEPT !.phase = verdict, !.at = place]
                              /\ info' = IF verdict = "parse" THEN reserve_block(info) ELSE info
      BY <2>3, Zenon
    <3>2. mb'.phase = verdict /\ mb'.base = mb.base /\ mb'.total = mb.total
      BY <1>0, <3>1 DEF Read, MultibootType
    <3>3. verdict \in {"err", "parse", "check"}
      BY <3>1 DEF tag_verdict
    <3>4. CASE verdict # "parse"
      BY <2>1, <3>1, <3>2, <3>3, <3>4, ResetIs DEF InfoInv
    <3>5. CASE verdict = "parse"
      <4>1. PICK block \in [base : Nat, length : Nat] : block = [base |-> mb.base, length |-> mb.total]
        BY <1>0, Zenon DEF MultibootType
      <4>2. info' = [reset EXCEPT !.reserved = Append(@, block)] /\ reset.reserved = <<>>
        BY <2>1, <3>1, <3>5, <4>1 DEF reserve_block, reset
      <4>3. Append(<<>>, block) = <<block>> /\ <<block>> \in Seq([base : Nat, length : Nat])
        BY <4>1
      <4>4. info' = [reset EXCEPT !.reserved = <<block>>]
        BY <4>2, <4>3, Zenon
      <4>5. /\ info' \in InfoType /\ info'.reserved = <<block>> /\ info'.acpi = reset.acpi
            /\ info'.memory_map = reset.memory_map /\ info'.modules = reset.modules
            /\ info'.framebuffer = reset.framebuffer
            /\ info'.command_line = reset.command_line /\ info'.bootloader_name = reset.bootloader_name
        BY <4>3, <4>4, ResetIs, Zenon DEF InfoType
      <4>6. HasRoom(info')
        BY <4>5, ResetIs, Zenon DEF HasRoom
      <4>7. Reserves(info)'
        BY <3>2, <4>1, <4>5, ResetIs DEF Reserves
      <4> QED
        BY <3>2, <3>5, <4>5, <4>6, <4>7 DEF InfoInv
    <3> QED
      BY <3>4, <3>5
  <2> QED
    BY <1>2, <2>2, <2>3, Zenon DEF well_formed
<1>3. CASE translate
  <2> PICK place \in DOMAIN mb.tags : place = mb.at
    BY <1>3, Zenon DEF WalkInv, Chain, translate
  <2> PICK found : found = mb.tags[place]
    BY Zenon
  <2>1. mb.phase = "parse" /\ Found(mb.at) = {found} /\ HasRoom(info) /\ Reserves(info) /\ info \in InfoType
    BY <1>3, Zenon DEF translate, Found, InfoInv
  <2>2. TagIn(place, found, mb.total)
    BY <2>1, Zenon DEF WalkInv, Chain
  <2>3. /\ found.type \in TagTypes /\ found.size \in Nat /\ found.size >= 8 /\ mb.at + found.size <= mb.total
        /\ found \in [type : TagTypes, size : Nat, data : {found.data}]
    BY <2>2, Zenon DEF TagIn
  <2>4. CASE mb' = [Read(found, mb.at + 8) EXCEPT !.phase = "ok"] /\ UNCHANGED info
    <3>1. mb'.phase = "ok" /\ mb'.base = mb.base /\ mb'.total = mb.total
      BY <1>0, <2>4, Zenon DEF Read, MultibootType
    <3> QED
      BY <2>1, <2>4, <3>1, Zenon DEF InfoInv, Reserves
  <2>5. ASSUME found.type # "END", NEW data \in Contents(found), NEW tag, tag = [found EXCEPT !.data = data],
               NEW got, got = translate_tag(tag, info),
               mb' = [Read(tag, mb.at + got.upto) EXCEPT
                        !.phase = got.verdict,
                        !.at = IF got.verdict = "parse" THEN next_tag(@, tag.size) ELSE @],
               info' = outcome(got.verdict, got.info)
        PROVE  InfoInv'
    <3>1. tag.type = found.type /\ tag.size = found.size /\ tag.data = data
      BY <2>3, <2>5, Zenon
    <3>2. tag.data \in Contents(tag)
      BY <2>5, <3>1, Zenon DEF Contents
    <3>3. /\ got.info \in InfoType
          /\ got.verdict = "parse" => HasRoom(got.info) /\ Reserves(got.info)
      BY <1>0, <2>1, <2>3, <2>5, <3>1, <3>2, TranslateInfo, Zenon
    <3>4. got.verdict \in {"parse", "err", "panic"}
      BY <2>3, <2>5, <3>1, <3>2, TranslateInside, Zenon
    <3>5. mb'.phase = got.verdict /\ mb'.base = mb.base /\ mb'.total = mb.total
      BY <1>0, <2>5 DEF Read, MultibootType
    <3>6. CASE got.verdict = "err"
      BY <2>5, <3>5, <3>6, ResetIs, Zenon DEF outcome, InfoInv
    <3>7. CASE got.verdict # "err"
      <4>1. info' = got.info
        BY <2>5, <3>7, Zenon DEF outcome
      <4> QED
        BY <3>3, <3>4, <3>5, <3>7, <4>1 DEF InfoInv, Reserves
    <3> QED
      BY <3>6, <3>7, Zenon
  <2> QED
    BY <1>3, <2>1, <2>4, <2>5, Zenon DEF translate
<1>4. CASE forget_block
  BY <1>4, ResetIs, Zenon DEF forget_block, InfoInv, NoBlock
<1>5. CASE UNCHANGED <<mb, info>>
  BY <1>5, Zenon DEF InfoInv, Reserves, HasRoom
<1> QED
  BY <1>1, <1>2, <1>3, <1>4, <1>5 DEF MultibootNext

\* A block that is refused leaves nothing in m_info, one that is accepted leaves no more
\* than the arrays of fixed size hold (boot_info.cpp:16-29, adapter.cpp:73-221).
InfoHasRoom ==
    /\ mb.phase = "err" => info = reset
    /\ mb.phase = "ok" => HasRoom(info)

\* The RSDP that ACPI reads later lies in the range that is reserved for the block, and
\* m_info holds no more than it has room for, whatever the tags say and however many there
\* are (adapter.cpp:73-221).
THEOREM BootInfoKept == MultibootSpec => [](RsdpStays /\ InfoHasRoom)
<1>1. MultibootInit => WalkInv /\ InfoInv
  BY MultibootInitInv, ResetIs DEF MultibootInit, InfoInv, NoBlock
<1>2. WalkInv /\ InfoInv /\ [MultibootNext]_<<mb, info>> => WalkInv' /\ InfoInv'
  BY MultibootStepInv, InfoStep, Zenon
<1>3. WalkInv /\ InfoInv => RsdpStays /\ InfoHasRoom
  <2> SUFFICES ASSUME InfoInv PROVE RsdpStays /\ InfoHasRoom
    BY Zenon
  <2>1. ASSUME mb.phase = "ok", info.acpi.present
        PROVE  \E i \in DOMAIN info.reserved :
                  /\ info.reserved[i].base <= info.acpi.base
                  /\ info.acpi.base + info.acpi.length <= info.reserved[i].base + info.reserved[i].length
    <3>1. /\ info.reserved = <<[base |-> mb.base, length |-> mb.total]>>
          /\ mb.base <= info.acpi.base /\ info.acpi.base + info.acpi.length <= mb.base + mb.total
      BY <2>1, Zenon DEF InfoInv, Reserves
    <3>2. /\ 1 \in DOMAIN info.reserved /\ info.reserved[1].base = mb.base
          /\ info.reserved[1].length = mb.total
      BY <3>1
    <3> QED
      BY <3>1, <3>2, Zenon
  <2> QED
    BY <2>1, Zenon DEF RsdpStays, InfoHasRoom, InfoInv
<1> QED
  BY <1>1, <1>2, <1>3, PTL DEF MultibootSpec
-----------------------------------------------------------------------------
(***************************************************************************)
(* The walk of the MADT.                                                   *)
(***************************************************************************)

\* What parse_madt has collected fits into the arrays of madt_info (madt.cpp:46-108).
MadtFits ==
    /\ Len(acpi.madt.cpus) <= MaxCpus
    /\ Len(acpi.madt.ioapics) <= MaxIoapics
    /\ Len(acpi.madt.isos) <= MaxIsos

\* The invariant: the types, the room, and how far the table has been read.
MadtInv ==
    /\ acpi \in [phase : {acpi.phase}, root : {acpi.root}, seen : {acpi.seen}, header : {acpi.header},
                 length : Nat, at : Nat, entries : {acpi.entries}, reach : Nat,
                 madt : [lapic_address : {acpi.madt.lapic_address}, cpus : Seq(EntryTypes),
                         ioapics : Seq(EntryTypes), isos : Seq(EntryTypes)]]
    /\ MadtFits
    /\ acpi.reach <= acpi.length

LEMMA AcpiInitInv == AcpiInit => MadtInv
<1> SUFFICES ASSUME acpi = NoWalk PROVE MadtInv
  BY Zenon DEF AcpiInit
<1>1. <<>> \in Seq(EntryTypes) /\ Len(<<>>) = 0
  OBVIOUS
<1> QED
  BY <1>1, AcpiAssumption DEF NoWalk, NoMadt, MadtInv, MadtFits

\* A case of the switch of parse_madt adds an element only where there is room.
LEMMA RecordFits ==
    ASSUME NEW a, NEW m \in [lapic_address : {a}, cpus : Seq(EntryTypes), ioapics : Seq(EntryTypes), isos : Seq(EntryTypes)],
           Len(m.cpus) <= MaxCpus, Len(m.ioapics) <= MaxIoapics, Len(m.isos) <= MaxIsos,
           NEW type \in EntryTypes \ {"OTHER"}, NEW address, NEW r, r = record(m, type, address)
    PROVE  /\ r \in [lapic_address : {r.lapic_address}, cpus : Seq(EntryTypes), ioapics : Seq(EntryTypes), isos : Seq(EntryTypes)]
           /\ Len(r.cpus) <= MaxCpus /\ Len(r.ioapics) <= MaxIoapics /\ Len(r.isos) <= MaxIsos
<1>1. ASSUME NEW s \in Seq(EntryTypes), NEW n \in Nat, Len(s) <= n, NEW t, t = IF Len(s) < n THEN Append(s, type) ELSE s
      PROVE  t \in Seq(EntryTypes) /\ Len(t) <= n
  BY <1>1
<1>2. CASE type \in {"LAPIC", "X2APIC"}
  <2>1. r = [m EXCEPT !.cpus = IF Len(m.cpus) < MaxCpus THEN Append(m.cpus, type) ELSE m.cpus]
    BY <1>2, Zenon DEF record
  <2> QED
    BY <1>1, <2>1, AcpiAssumption, Zenon
<1>3. CASE type = "IOAPIC"
  <2>1. r = [m EXCEPT !.ioapics = IF Len(m.ioapics) < MaxIoapics THEN Append(m.ioapics, type) ELSE m.ioapics]
    BY <1>3, Zenon DEF record
  <2> QED
    BY <1>1, <2>1, AcpiAssumption, Zenon
<1>4. CASE type = "ISO"
  <2>1. r = [m EXCEPT !.isos = IF Len(m.isos) < MaxIsos THEN Append(m.isos, type) ELSE m.isos]
    BY <1>4, Zenon DEF record
  <2> QED
    BY <1>1, <2>1, AcpiAssumption, Zenon
<1>5. CASE type = "OVERRIDE"
  BY <1>5, Zenon DEF record
<1> QED
  BY <1>2, <1>3, <1>4, <1>5 DEF EntryTypes

\* An entry is taken only if it ends inside the table, and read only up to its own end.
LEMMA MadtEntryStep ==
    ASSUME MadtInv, madt_entry
    PROVE  MadtInv'
<1>1. /\ acpi.length \in Nat /\ acpi.at \in Nat /\ acpi.reach \in Nat /\ acpi.reach <= acpi.length
      /\ acpi.madt \in [lapic_address : {acpi.madt.lapic_address}, cpus : Seq(EntryTypes),
                        ioapics : Seq(EntryTypes), isos : Seq(EntryTypes)]
  BY Zenon DEF MadtInv
<1>2. ASSUME NEW u \in Nat, acpi.at + u <= acpi.length
      PROVE  Max({acpi.reach, acpi.at + u}) \in Nat /\ Max({acpi.reach, acpi.at + u}) <= acpi.length
  <2>1. PICK a \in Nat, b \in Nat : a = acpi.reach /\ b = acpi.at + u /\ a <= acpi.length /\ b <= acpi.length
    BY <1>1, <1>2
  <2>2. Max({a, b}) \in Nat /\ Max({a, b}) <= acpi.length
    BY <1>1, <2>1, MaxTwo
  <2> QED
    BY <2>1, <2>2, Zenon
<1>3. CASE acpi' = [acpi EXCEPT !.phase = "done"]
  BY <1>3, Zenon DEF MadtInv, MadtFits
<1>4. ASSUME acpi.at + Wire.entry_header <= acpi.length,
             NEW type \in EntryTypes, NEW length \in EntryLengths, NEW address, stops(length),
             acpi' = [acpi EXCEPT !.phase = "done", !.reach = Max({@, acpi.at + Wire.entry_header})]
      PROVE  MadtInv'
  <2>1. PICK r \in Nat : r = Max({acpi.reach, acpi.at + 2}) /\ r <= acpi.length
    BY <1>2, <1>4, Zenon DEF Wire
  <2>2. acpi' = [acpi EXCEPT !.phase = "done", !.reach = r]
    BY <1>4, <2>1, Zenon DEF Wire
  <2> QED
    BY <2>1, <2>2, Zenon DEF MadtInv, MadtFits
<1>5. ASSUME acpi.at + Wire.entry_header <= acpi.length,
             NEW type \in EntryTypes, NEW length \in EntryLengths, NEW address, ~stops(length),
             acpi' = [acpi EXCEPT
                        !.at = @ + length,
                        !.entries = IF long_enough(type, length) THEN Append(@, [type |-> type, address |-> address]) ELSE @,
                        !.madt = IF long_enough(type, length) THEN record(@, type, address) ELSE @,
                        !.reach = Max({@, acpi.at + (IF long_enough(type, length) THEN Wire[type] ELSE Wire.entry_header)})]
      PROVE  MadtInv'
  <2>1. length \in Nat /\ acpi.at + length <= acpi.length /\ acpi.at + 2 <= acpi.length
    BY <1>1, <1>5, AcpiAssumption DEF stops, Wire
  <2>2. PICK u \in Nat : u = (IF long_enough(type, length) THEN Wire[type] ELSE Wire.entry_header) /\ acpi.at + u <= acpi.length
    <3>1. CASE long_enough(type, length)
      <4>1. Wire[type] \in Nat /\ Wire[type] <= length
        BY <2>1, <3>1 DEF long_enough, EntryTypes, Wire
      <4> QED
        BY <1>1, <2>1, <3>1, <4>1
    <3>2. CASE ~long_enough(type, length)
      BY <2>1, <3>2, Zenon DEF Wire
    <3> QED
      BY <3>1, <3>2, Zenon
  <2>3. PICK reach \in Nat : reach = Max({acpi.reach, acpi.at + u}) /\ reach <= acpi.length
    BY <1>2, <2>2, Zenon
  <2>4. PICK m : m = IF long_enough(type, length) THEN record(acpi.madt, type, address) ELSE acpi.madt
    BY Zenon
  <2>5. /\ m \in [lapic_address : {m.lapic_address}, cpus : Seq(EntryTypes), ioapics : Seq(EntryTypes), isos : Seq(EntryTypes)]
        /\ Len(m.cpus) <= MaxCpus /\ Len(m.ioapics) <= MaxIoapics /\ Len(m.isos) <= MaxIsos
    <3>1. CASE long_enough(type, length)
      BY <1>1, <2>4, <3>1, RecordFits DEF MadtInv, MadtFits, long_enough
    <3>2. CASE ~long_enough(type, length)
      BY <1>1, <2>4, <3>2, Zenon DEF MadtInv, MadtFits
    <3> QED
      BY <3>1, <3>2, Zenon
  <2>6. PICK entries : acpi' = [acpi EXCEPT !.at = acpi.at + length, !.entries = entries, !.madt = m, !.reach = reach]
    BY <1>5, <2>2, <2>3, <2>4, Zenon
  <2>7. /\ acpi'.length = acpi.length /\ acpi'.at = acpi.at + length /\ acpi'.madt = m /\ acpi'.reach = reach
        /\ acpi' = [phase |-> acpi.phase, root |-> acpi.root, seen |-> acpi.seen, header |-> acpi.header,
                    length |-> acpi.length, at |-> acpi.at + length, entries |-> entries, reach |-> reach, madt |-> m]
    BY <2>6, Zenon DEF MadtInv
  <2> QED
    BY <1>1, <2>1, <2>3, <2>5, <2>7 DEF MadtInv, MadtFits
<1>6. (IF Len(acpi.entries) < MaxMadtEntries THEN EntryTypes ELSE {"OTHER"}) \subseteq EntryTypes
  BY Zenon DEF EntryTypes
<1> QED
  BY <1>3, <1>4, <1>5, <1>6, Zenon DEF madt_entry

LEMMA AcpiStepInv == MadtInv /\ [AcpiNext]_acpi => MadtInv'
<1> SUFFICES ASSUME MadtInv, [AcpiNext]_acpi PROVE MadtInv'
  BY Zenon
<1>1. CASE \E present \in BOOLEAN : init_acpi(present)
  <2>1. PICK root, phase : acpi' = [acpi EXCEPT !.root = root, !.phase = phase] \/ acpi' = [acpi EXCEPT !.phase = phase]
    BY <1>1, Zenon DEF init_acpi
  <2> QED
    BY <2>1, Zenon DEF MadtInv, MadtFits
<1>2. CASE get_madt_info
  <2>1. PICK phase : acpi' = [acpi EXCEPT !.phase = phase]
    BY <1>2, Zenon DEF get_madt_info
  <2> QED
    BY <2>1, Zenon DEF MadtInv, MadtFits
<1>3. CASE find_table
  <2>1. PICK seen, phase : acpi' = [acpi EXCEPT !.seen = seen, !.phase = phase] \/ acpi' = [acpi EXCEPT !.phase = phase]
    BY <1>3, Zenon DEF find_table
  <2> QED
    BY <2>1, Zenon DEF MadtInv, MadtFits
<1>4. CASE parse_madt
  <2>1. CASE acpi' = [acpi EXCEPT !.phase = "done"]
    BY <2>1, Zenon DEF MadtInv, MadtFits
  <2>2. ASSUME NEW length \in MadtLengths, NEW address, ~(length < 44),
               acpi' = [acpi EXCEPT
                          !.phase = "walk", !.header = address, !.length = length,
                          !.at = 44, !.reach = 44, !.madt.lapic_address = address]
        PROVE  MadtInv'
    <3>1. length \in Nat /\ 44 <= length
      BY <2>2, AcpiAssumption
    <3>2. /\ acpi'.length = length /\ acpi'.reach = 44
          /\ acpi' = [phase |-> "walk", root |-> acpi.root, seen |-> acpi.seen, header |-> address,
                      length |-> length, at |-> 44, entries |-> acpi.entries, reach |-> 44,
                      madt |-> [acpi.madt EXCEPT !.lapic_address = address]]
      BY <2>2, Zenon DEF MadtInv
    <3>3. PICK m : m = [acpi.madt EXCEPT !.lapic_address = address]
      BY Zenon
    <3>4. /\ m \in [lapic_address : {m.lapic_address}, cpus : Seq(EntryTypes), ioapics : Seq(EntryTypes), isos : Seq(EntryTypes)]
          /\ m.cpus = acpi.madt.cpus /\ m.ioapics = acpi.madt.ioapics /\ m.isos = acpi.madt.isos
      BY <3>3, Zenon DEF MadtInv
    <3>5. acpi' = [phase |-> "walk", root |-> acpi.root, seen |-> acpi.seen, header |-> address, length |-> length,
                   at |-> 44, entries |-> acpi.entries, reach |-> 44, madt |-> m]
      BY <3>2, <3>3, Zenon
    <3>6. /\ acpi'.phase = "walk" /\ acpi'.root = acpi.root /\ acpi'.seen = acpi.seen /\ acpi'.header = address
          /\ acpi'.entries = acpi.entries /\ acpi'.length = length /\ acpi'.reach = 44 /\ acpi'.madt = m
      BY <3>5, Zenon
    <3>7. MadtFits'
      BY <3>4, <3>6, Zenon DEF MadtInv, MadtFits
    <3> QED
      BY <3>1, <3>4, <3>5, <3>6, <3>7 DEF MadtInv
  <2> QED
    BY <1>4, <2>1, <2>2, Zenon DEF parse_madt, Wire
<1>5. CASE madt_entry
  BY <1>5, MadtEntryStep, Zenon
<1>6. CASE forget_walk
  <2>1. acpi' = NoWalk /\ <<>> \in Seq(EntryTypes) /\ Len(<<>>) = 0
    BY <1>6 DEF forget_walk
  <2> QED
    BY <2>1, AcpiAssumption DEF NoWalk, NoMadt, MadtInv, MadtFits
<1>7. CASE UNCHANGED acpi
  BY <1>7, Zenon DEF MadtInv, MadtFits
<1> QED
  BY <1>1, <1>2, <1>3, <1>4, <1>5, <1>6, <1>7 DEF AcpiNext

\* Whatever the firmware's MADT holds, it is read only up to its own length, and no more of
\* it is kept than madt_info has room for (madt.cpp:39-114).
THEOREM MadtWalkInside == AcpiSpec => [](MadtReadInside /\ MadtFits)
<1>1. MadtInv => MadtReadInside /\ MadtFits
  BY Zenon DEF MadtInv, MadtReadInside
<1> QED
  BY <1>1, AcpiInitInv, AcpiStepInv, PTL DEF AcpiSpec
-----------------------------------------------------------------------------
(***************************************************************************)
(* The kernel's own address space: multiples of a page size, the direct    *)
(* map, and the protection of the image.                                   *)
(***************************************************************************)

\* Two multiples of d are at least d apart.
LEMMA MultiplesApart ==
    ASSUME NEW d \in Nat \ {0}, NEW p \in Nat, NEW q \in Nat, p % d = 0, q % d = 0, p < q
    PROVE  p + d <= q
<1>1. PICK x \in Int : p = d * x
  BY p = d * (p \div d) + (p % d), p \div d \in Int
<1>2. PICK y \in Int : q = d * y
  BY q = d * (q \div d) + (q % d), q \div d \in Int
<1>3. x < y
  <2> SUFFICES ASSUME ~(x < y) PROVE FALSE
    BY Zenon
  <2>1. PICK k \in Nat : x = y + k
    BY x - y \in Nat
  <2>2. d * x = d * y + d * k
    BY <2>1
  <2>3. d * k \in Nat
    OBVIOUS
  <2> QED
    BY <1>1, <1>2, <2>2, <2>3
<1>4. PICK k \in Nat : y = x + 1 + k
  BY <1>3, y - x - 1 \in Nat
<1>5. d * y = d * x + d + d * k
  BY <1>4
<1>6. d * k \in Nat
  OBVIOUS
<1> QED
  BY <1>1, <1>2, <1>5, <1>6

\* align_down and align_up return the nearest multiples.
LEMMA DownIs ==
    ASSUME NEW d \in Nat \ {0}, NEW a \in Nat
    PROVE  /\ align_down(a, d) \in Nat /\ align_down(a, d) % d = 0
           /\ align_down(a, d) <= a /\ a < align_down(a, d) + d
<1>1. PICK x \in Nat, r \in 0 .. d - 1 : x = a \div d /\ a = d * x + r
  BY a = d * (a \div d) + (a % d), a \div d \in Nat, a % d \in 0 .. d - 1, Zenon
<1>2. PICK w \in Nat : w = d * x /\ w = x * d
  OBVIOUS
<1>3. PICK y \in Nat, s \in 0 .. d - 1 : s = w % d /\ w = d * y + s
  BY w = d * (w \div d) + (w % d), w \div d \in Nat, w % d \in 0 .. d - 1, Zenon
<1>4. ~(x < y)
  <2> SUFFICES ASSUME x < y PROVE FALSE
    BY Zenon
  <2>1. PICK k \in Nat : y = x + 1 + k
    BY y - x - 1 \in Nat
  <2>2. d * y = d * x + d + d * k
    BY <2>1
  <2>3. d * k \in Nat
    OBVIOUS
  <2> QED
    BY <1>2, <1>3, <2>2, <2>3
<1>5. ~(y < x)
  <2> SUFFICES ASSUME y < x PROVE FALSE
    BY Zenon
  <2>1. PICK k \in Nat : x = y + 1 + k
    BY x - y - 1 \in Nat
  <2>2. d * x = d * y + d + d * k
    BY <2>1
  <2>3. d * k \in Nat
    OBVIOUS
  <2> QED
    BY <1>2, <1>3, <2>2, <2>3
<1>6. x = y /\ s = 0
  <2>1. x = y
    BY <1>4, <1>5
  <2> QED
    BY <1>2, <1>3, <2>1
<1>7. align_down(a, d) = w
  BY <1>1, <1>2, Zenon DEF align_down
<1> QED
  BY <1>1, <1>2, <1>3, <1>6, <1>7

LEMMA UpIs ==
    ASSUME NEW d \in Nat \ {0}, NEW a \in Nat
    PROVE  /\ align_up(a, d) \in Nat /\ align_up(a, d) % d = 0
           /\ a <= align_up(a, d) /\ align_up(a, d) < a + d
<1>1. PICK b \in Nat : b = a + d - 1
  OBVIOUS
<1>2. align_up(a, d) = align_down(b, d)
  BY <1>1, Zenon DEF align_up
<1>3. PICK p \in Nat : p = align_down(b, d) /\ p % d = 0 /\ p <= b /\ b < p + d
  BY DownIs, Zenon
<1> QED
  BY <1>1, <1>2, <1>3

\* A multiple is its own nearest multiple.
LEMMA WholeIs ==
    ASSUME NEW d \in Nat \ {0}, NEW a \in Nat, a % d = 0
    PROVE  align_down(a, d) = a /\ align_up(a, d) = a
<1>1. PICK p \in Nat : p = align_down(a, d) /\ p % d = 0 /\ p <= a /\ a < p + d
  BY DownIs, Zenon
<1>2. ~(p < a)
  BY <1>1, MultiplesApart
<1>3. PICK q \in Nat : q = align_up(a, d) /\ q % d = 0 /\ a <= q /\ q < a + d
  BY UpIs, Zenon
<1>4. ~(a < q)
  BY <1>3, MultiplesApart
<1> QED
  BY <1>1, <1>2, <1>3, <1>4

\* The end of the part of a region that the direct map can hold.
RegionEnd(region) ==
    IF region.length > DirectMapSize - region.base THEN DirectMapSize ELSE region.base + region.length

LEMMA RegionPagesIs ==
    ASSUME NEW region, region.base \in Nat, region.length \in Nat
    PROVE  /\ region.kind = "DEFECTIVE" \/ region.length = 0 \/ region.base >= DirectMapSize =>
                 region_pages(region) = {}
           /\ ~(region.kind = "DEFECTIVE" \/ region.length = 0 \/ region.base >= DirectMapSize) =>
                 region_pages(region) = {pa \in align_down(region.base, Page2M) .. align_up(RegionEnd(region), Page2M) - 1 :
                                           pa % Page2M = 0}
BY Zenon DEF region_pages, RegionEnd

\* Whatever memory map the boot loader hands over, with regions that overlap, are empty or
\* reach past the end of the direct map: every described address for which phy_to_vrt has
\* an answer is mapped, and no page is mapped that holds no described address
\* (mmu.cpp:95-116).
THEOREM DirectMapSound ==
    ASSUME NEW memory_map,
           \A i \in DOMAIN memory_map : memory_map[i].base \in Nat /\ memory_map[i].length \in Nat
    PROVE  DirectMapCovers(memory_map)
<1> PICK d \in Nat \ {0}, size \in Nat : d = Page2M /\ size = DirectMapSize
  BY KernelSpaceAssumption, Zenon
<1>1. ASSUME NEW i \in DOMAIN memory_map, memory_map[i].kind # "DEFECTIVE",
             NEW a \in Bytes(memory_map[i]), phy_to_vrt(a) # nullptr
      PROVE  align_down(a, d) \in region_pages(memory_map[i])
  <2> PICK region : region = memory_map[i]
    BY Zenon
  <2> PICK base \in Nat, length \in Nat : base = region.base /\ length = region.length
    BY Zenon
  <2>1. a \in Nat /\ base <= a /\ a < base + length
    BY <1>1 DEF Bytes
  <2>2. a < size /\ length # 0 /\ base < size
    BY <1>1, <2>1 DEF phy_to_vrt
  <2>3. PICK end \in Nat : end = RegionEnd(region) /\ a < end
    BY <2>1, <2>2 DEF RegionEnd
  <2>4. PICK p \in Nat : p = align_down(a, d) /\ p % d = 0 /\ p <= a /\ a < p + d
    BY <2>1, DownIs, Zenon
  <2>5. PICK first \in Nat : first = align_down(base, d) /\ first % d = 0 /\ first <= base
    BY DownIs, Zenon
  <2>6. PICK last \in Nat : last = align_up(end, d) /\ end <= last
    BY UpIs, Zenon
  <2>7. ~(p < first)
    <3> SUFFICES ASSUME p < first PROVE FALSE
      BY Zenon
    <3>1. p + d <= first
      BY <2>4, <2>5, MultiplesApart, Zenon
    <3> QED
      BY <2>1, <2>4, <2>5, <3>1
  <2>8. p \in first .. last - 1
    <3>1. a < end /\ p <= a /\ end <= last
      BY <2>3, <2>4, <2>6, Zenon
    <3>2. p < last
      BY <2>1, <3>1
    <3> QED
      BY <2>7, <3>2
  <2>9. region_pages(region) = {pa \in first .. last - 1 : pa % d = 0}
    BY <1>1, <2>2, <2>3, <2>5, <2>6, RegionPagesIs
  <2> QED
    BY <2>4, <2>8, <2>9, Zenon
<1>2. ASSUME NEW i \in DOMAIN memory_map, NEW page \in region_pages(memory_map[i])
      PROVE  /\ memory_map[i].kind # "DEFECTIVE"
             /\ \E a \in page .. page + d - 1 : a \in Bytes(memory_map[i])
  <2> PICK region : region = memory_map[i]
    BY Zenon
  <2> PICK base \in Nat, length \in Nat : base = region.base /\ length = region.length
    BY Zenon
  <2>1. region.kind # "DEFECTIVE" /\ length # 0 /\ base < size
    BY <1>2, RegionPagesIs
  <2>2. PICK end \in Nat : end = RegionEnd(region) /\ end <= base + length
    BY <2>1 DEF RegionEnd
  <2>3. PICK first \in Nat : first = align_down(base, d) /\ base < first + d
    BY DownIs, Zenon
  <2>4. PICK last \in Nat : last = align_up(end, d) /\ last % d = 0 /\ last < end + d
    BY UpIs, Zenon
  <2>5. page \in Nat /\ first <= page /\ page < last /\ page % d = 0
    BY <1>2, <2>1, <2>2, <2>3, <2>4, RegionPagesIs
  <2>6. page + d <= last
    BY <2>4, <2>5, MultiplesApart, Zenon
  <2>7. CASE page <= base
    <3>1. base \in page .. page + d - 1 /\ base \in base .. base + length - 1
      BY <2>1, <2>3, <2>5, <2>7
    <3> QED
      BY <2>1, <3>1, Zenon DEF Bytes
  <2>8. CASE base < page
    <3>1. page \in page .. page + d - 1 /\ page \in base .. base + length - 1
      BY <2>2, <2>4, <2>5, <2>6, <2>8
    <3> QED
      BY <2>1, <3>1, Zenon DEF Bytes
  <2> QED
    BY <2>5, <2>7, <2>8
<1>3. ASSUME NEW a \in Described(memory_map), phy_to_vrt(a) # nullptr
      PROVE  align_down(a, Page2M) \in fill_direct_map(memory_map)
  <2>1. PICK i \in DOMAIN memory_map : memory_map[i].kind # "DEFECTIVE" /\ a \in Bytes(memory_map[i])
    BY <1>3, Zenon DEF Described
  <2>2. align_down(a, d) \in region_pages(memory_map[i])
    BY <1>1, <1>3, <2>1, Zenon
  <2> QED
    BY <2>2, Zenon DEF fill_direct_map
<1>4. ASSUME NEW page \in fill_direct_map(memory_map)
      PROVE  \E a \in page .. page + Page2M - 1 : a \in Described(memory_map)
  <2>1. PICK i \in DOMAIN memory_map : page \in region_pages(memory_map[i])
    BY <1>4, Zenon DEF fill_direct_map
  <2>2. PICK a \in page .. page + d - 1 : a \in Bytes(memory_map[i]) /\ memory_map[i].kind # "DEFECTIVE"
    BY <1>2, <2>1, Zenon
  <2>3. a \in Described(memory_map)
    BY <2>2, Zenon DEF Described
  <2> QED
    BY <2>2, <2>3, Zenon
<1> QED
  BY <1>3, <1>4, Zenon DEF DirectMapCovers

\* What protect_image has made of the page p of the window after its first k steps.
Protected(image, k, p) ==
    IF k >= 1 /\ image.data_rel_ro_start <= p /\ p < image.kernel_end THEN {"WRITE"}
    ELSE IF k >= 2 /\ image.rodata_start <= p /\ p < image.data_rel_ro_start THEN {}
    ELSE IF k >= 3 /\ image.text_start <= p /\ p < image.rodata_start THEN {"EXEC"}
    ELSE IF k >= 4 /\ p < image.text_start THEN Unmapped
    ELSE IF k >= 5 /\ image.kernel_end <= p THEN Unmapped
    ELSE {"WRITE", "EXEC"}

\* The bounds of the sections lie in order on the pages of the window.
LEMMA LayoutIs ==
    ASSUME NEW image, LaidOut(image)
    PROVE  \E t \in Nat, r \in Nat, dt \in Nat, k \in Nat, w \in Nat :
             /\ t = image.text_start /\ r = image.rodata_start /\ dt = image.data_rel_ro_start
             /\ k = image.kernel_end /\ w = kernel_window_size(image)
             /\ t % Page4K = 0 /\ r % Page4K = 0 /\ dt % Page4K = 0 /\ k % Page4K = 0
             /\ image.text_end \in Nat /\ image.rodata_end \in Nat
             /\ t <= image.text_end /\ image.text_end <= r /\ r <= image.rodata_end
             /\ image.rodata_end <= dt /\ dt <= k /\ k <= w
             /\ align_down(t, Page4K) = t /\ align_down(r, Page4K) = r /\ align_down(dt, Page4K) = dt
             /\ align_up(image.text_end, Page4K) = r /\ align_up(image.rodata_end, Page4K) = dt
             /\ align_up(k, Page4K) = k
<1> PICK d \in Nat \ {0}, e \in Nat \ {0} : d = Page4K /\ e = Page2M
  BY KernelSpaceAssumption, Zenon
<1>1. PICK t \in Nat, te \in Nat, r \in Nat, re \in Nat, dt \in Nat, k \in Nat :
         /\ t = image.text_start /\ te = image.text_end /\ r = image.rodata_start
         /\ re = image.rodata_end /\ dt = image.data_rel_ro_start /\ k = image.kernel_end
  BY Zenon DEF LaidOut
<1>2. /\ t % d = 0 /\ k % d = 0 /\ t <= te /\ r <= re /\ dt <= k
      /\ r = align_up(te, d) /\ dt = align_up(re, d)
  BY <1>1, Zenon DEF LaidOut
<1>3. r % d = 0 /\ te <= r
  BY <1>2, UpIs, Zenon
<1>4. dt % d = 0 /\ re <= dt
  BY <1>2, UpIs, Zenon
<1>5. align_down(t, d) = t /\ align_up(k, d) = k
  BY <1>2, WholeIs, Zenon
<1>6. align_down(r, d) = r /\ align_down(dt, d) = dt
  BY <1>3, <1>4, WholeIs, Zenon
<1>7. PICK w \in Nat : w = align_up(k, e) /\ k <= w
  BY UpIs, Zenon
<1>8. w = kernel_window_size(image)
  BY <1>1, <1>7, Zenon DEF kernel_window_size
<1>9. /\ t = image.text_start /\ r = image.rodata_start /\ dt = image.data_rel_ro_start
      /\ k = image.kernel_end /\ w = kernel_window_size(image)
      /\ t % Page4K = 0 /\ r % Page4K = 0 /\ dt % Page4K = 0 /\ k % Page4K = 0
      /\ image.text_end \in Nat /\ image.rodata_end \in Nat
      /\ t <= image.text_end /\ image.text_end <= r /\ r <= image.rodata_end
      /\ image.rodata_end <= dt /\ dt <= k /\ k <= w
      /\ align_down(t, Page4K) = t /\ align_down(r, Page4K) = r /\ align_down(dt, Page4K) = dt
      /\ align_up(image.text_end, Page4K) = r /\ align_up(image.rodata_end, Page4K) = dt
      /\ align_up(k, Page4K) = k
  BY <1>1, <1>2, <1>3, <1>4, <1>5, <1>6, <1>7, <1>8, Zenon
<1> QED
  BY <1>9, Zenon

\* The pages of a section lie between its bounds.
LEMMA PagesBetween ==
    ASSUME NEW first \in Nat, NEW last \in Nat, first % Page4K = 0, NEW p \in PagesWith(first, last)
    PROVE  p \in Nat /\ first <= p /\ p < last /\ p % Page4K = 0
<1> PICK d \in Nat \ {0} : d = Page4K
  BY KernelSpaceAssumption, Zenon
<1>1. PICK a \in first .. last - 1 : p = align_down(a, d)
  BY Zenon DEF PagesWith
<1>2. a \in Nat /\ first <= a /\ a < last
  BY <1>1
<1>3. p \in Nat /\ p % d = 0 /\ p <= a /\ a < p + d
  BY <1>1, <1>2, DownIs, Zenon
<1>4. ~(p < first)
  <2> SUFFICES ASSUME p < first PROVE FALSE
    BY Zenon
  <2>1. p + d <= first
    BY <1>3, MultiplesApart, Zenon
  <2> QED
    BY <1>2, <1>3, <2>1
<1> QED
  BY <1>2, <1>3, <1>4

\* A step of protect_image changes the pages between two bounds.
LEMMA StepIs ==
    ASSUME NEW image, LaidOut(image), NEW pages
    PROVE  /\ protect_image(image, pages, "data") =
                set_range(pages, image.data_rel_ro_start, image.kernel_end, {"WRITE"})
           /\ protect_image(image, pages, "rodata") =
                set_range(pages, image.rodata_start, image.data_rel_ro_start, {})
           /\ protect_image(image, pages, "text") =
                set_range(pages, image.text_start, image.rodata_start, {"EXEC"})
           /\ protect_image(image, pages, "before") = set_range(pages, 0, image.text_start, Unmapped)
           /\ protect_image(image, pages, "behind") =
                set_range(pages, image.kernel_end, kernel_window_size(image), Unmapped)
<1>1. /\ align_down(image.text_start, Page4K) = image.text_start
      /\ align_down(image.rodata_start, Page4K) = image.rodata_start
      /\ align_down(image.data_rel_ro_start, Page4K) = image.data_rel_ro_start
      /\ align_up(image.text_end, Page4K) = image.rodata_start
      /\ align_up(image.rodata_end, Page4K) = image.data_rel_ro_start
      /\ align_up(image.kernel_end, Page4K) = image.kernel_end
  BY LayoutIs
<1> QED
  BY <1>1, Zenon DEF protect_image, protect_region

\* The rights of the pages of the window after k steps.
RightsAfter(image, k) == [p \in WindowPages(image) |-> Protected(image, k, p)]

\* One step after the other: the pages are as Protected says.
LEMMA ProtectedIs ==
    ASSUME NEW image, LaidOut(image), NEW k \in 1 .. 5
    PROVE  protect_image(image, RightsAfter(image, k - 1), Steps[k]) = RightsAfter(image, k)
<1>0. PICK pages : pages = RightsAfter(image, k - 1)
  BY Zenon
<1> DEFINE Changes(first, last, entry) ==
              \A p \in WindowPages(image) :
                 Protected(image, k, p) =
                   IF first <= p /\ p < last THEN entry ELSE Protected(image, k - 1, p)
<1> HIDE DEF Changes
<1>1. PICK t \in Nat, r \in Nat, dt \in Nat, e \in Nat, w \in Nat :
         /\ t = image.text_start /\ r = image.rodata_start /\ dt = image.data_rel_ro_start
         /\ e = image.kernel_end /\ w = kernel_window_size(image)
         /\ t <= r /\ r <= dt /\ dt <= e /\ e <= w
  BY LayoutIs
<1>2. PICK P : P = WindowPages(image)
  BY Zenon
<1>3. ASSUME NEW p \in P, NEW first \in Nat, NEW last \in Nat
      PROVE  p \in Nat /\ p < w /\ (p \in PagesOf(first, last) <=> first <= p /\ p < last)
  <2>1. p \in 0 .. w - 1 /\ p % Page4K = 0
    BY <1>1, <1>2, <1>3, Zenon DEF WindowPages, PagesOf
  <2>2. p \in Nat /\ p < w
    BY <2>1
  <2>3. p \in first .. last - 1 <=> first <= p /\ p < last
    BY <2>2
  <2> QED
    BY <2>1, <2>2, <2>3, Zenon DEF PagesOf
<1>4. ASSUME NEW first \in Nat, NEW last \in Nat, NEW entry, Changes(first, last, entry)
      PROVE  set_range(pages, first, last, entry) = RightsAfter(image, k)
  <2>1. DOMAIN pages = P /\ \A p \in P : pages[p] = Protected(image, k - 1, p)
    BY <1>0, <1>2, Zenon DEF RightsAfter
  <2>2. \A p \in P : Protected(image, k, p) =
                       IF first <= p /\ p < last THEN entry ELSE Protected(image, k - 1, p)
    BY <1>2, <1>4, Zenon DEF Changes
  <2>3. \A p \in P : (IF p \in PagesOf(first, last) THEN entry ELSE pages[p]) = Protected(image, k, p)
    BY <1>3, <2>1, <2>2, Zenon
  <2> QED
    BY <1>2, <2>1, <2>3, Zenon DEF set_range, RightsAfter
<1>5. CASE k = 1
  <2>1. \A p \in P : Protected(image, 1, p) = IF dt <= p /\ p < e THEN {"WRITE"} ELSE Protected(image, 0, p)
    BY <1>1, <1>3 DEF Protected
  <2>2. Steps[k] = "data"
    BY <1>5, Zenon DEF Steps
  <2>3. protect_image(image, pages, "data") = set_range(pages, dt, e, {"WRITE"})
    BY <1>1, StepIs, Zenon
  <2>4. set_range(pages, dt, e, {"WRITE"}) = RightsAfter(image, k)
    <3>1. k - 1 = 0
      BY <1>5
    <3>2. Changes(dt, e, {"WRITE"})
      BY <1>2, <1>5, <2>1, <3>1, Zenon DEF Changes
    <3> QED
      BY <1>1, <1>4, <3>2, Zenon
  <2> QED
    BY <1>0, <2>2, <2>3, <2>4, Zenon
<1>6. CASE k = 2
  <2>1. \A p \in P : Protected(image, 2, p) = IF r <= p /\ p < dt THEN {} ELSE Protected(image, 1, p)
    BY <1>1, <1>3 DEF Protected
  <2>2. Steps[k] = "rodata"
    BY <1>6, Zenon DEF Steps
  <2>3. protect_image(image, pages, "rodata") = set_range(pages, r, dt, {})
    BY <1>1, StepIs, Zenon
  <2>4. set_range(pages, r, dt, {}) = RightsAfter(image, k)
    <3>1. k - 1 = 1
      BY <1>6
    <3>2. Changes(r, dt, {})
      BY <1>2, <1>6, <2>1, <3>1, Zenon DEF Changes
    <3> QED
      BY <1>1, <1>4, <3>2, Zenon
  <2> QED
    BY <1>0, <2>2, <2>3, <2>4, Zenon
<1>7. CASE k = 3
  <2>1. \A p \in P : Protected(image, 3, p) = IF t <= p /\ p < r THEN {"EXEC"} ELSE Protected(image, 2, p)
    BY <1>1, <1>3 DEF Protected
  <2>2. Steps[k] = "text"
    BY <1>7, Zenon DEF Steps
  <2>3. protect_image(image, pages, "text") = set_range(pages, t, r, {"EXEC"})
    BY <1>1, StepIs, Zenon
  <2>4. set_range(pages, t, r, {"EXEC"}) = RightsAfter(image, k)
    <3>1. k - 1 = 2
      BY <1>7
    <3>2. Changes(t, r, {"EXEC"})
      BY <1>2, <1>7, <2>1, <3>1, Zenon DEF Changes
    <3> QED
      BY <1>1, <1>4, <3>2, Zenon
  <2> QED
    BY <1>0, <2>2, <2>3, <2>4, Zenon
<1>8. CASE k = 4
  <2>1. \A p \in P : Protected(image, 4, p) = IF 0 <= p /\ p < t THEN Unmapped ELSE Protected(image, 3, p)
    BY <1>1, <1>3 DEF Protected
  <2>2. Steps[k] = "before"
    BY <1>8, Zenon DEF Steps
  <2>3. protect_image(image, pages, "before") = set_range(pages, 0, t, Unmapped)
    BY <1>1, StepIs, Zenon
  <2>4. set_range(pages, 0, t, Unmapped) = RightsAfter(image, k)
    <3>1. k - 1 = 3
      BY <1>8
    <3>2. Changes(0, t, Unmapped)
      BY <1>2, <1>8, <2>1, <3>1, Zenon DEF Changes
    <3> QED
      BY <1>1, <1>4, <3>2, Zenon
  <2> QED
    BY <1>0, <2>2, <2>3, <2>4, Zenon
<1>9. CASE k = 5
  <2>1. \A p \in P : Protected(image, 5, p) = IF e <= p /\ p < w THEN Unmapped ELSE Protected(image, 4, p)
    BY <1>1, <1>3 DEF Protected
  <2>2. Steps[k] = "behind"
    BY <1>9, Zenon DEF Steps
  <2>3. protect_image(image, pages, "behind") = set_range(pages, e, w, Unmapped)
    BY <1>1, StepIs, Zenon
  <2>4. set_range(pages, e, w, Unmapped) = RightsAfter(image, k)
    <3>1. k - 1 = 4
      BY <1>9
    <3>2. Changes(e, w, Unmapped)
      BY <1>2, <1>9, <2>1, <3>1, Zenon DEF Changes
    <3> QED
      BY <1>1, <1>4, <3>2, Zenon
  <2> QED
    BY <1>0, <2>2, <2>3, <2>4, Zenon
<1> QED
  BY <1>5, <1>6, <1>7, <1>8, <1>9

\* However the linker script lays out the image, wherever its sections end in a page: after
\* every step of protect_image the code that runs it is still executable and the data still
\* writable, and when it is done no page of the window is both, nothing but the image is
\* mapped, and the read-only section is read-only (mmu.cpp:118-145).
THEOREM ImageProtected ==
    ASSUME NEW image, LaidOut(image), NEW run,
           run[0] = fill_window(image),
           \A k \in 1 .. 5 : run[k] = protect_image(image, run[k - 1], Steps[k])
    PROVE  /\ \A k \in 0 .. 5 : ImageStaysUsable(image, run[k])
           /\ WriteXorExecute(image, run[5])
<1>0. PICK te, re : te = image.text_end /\ re = image.rodata_end
  BY Zenon
<1>1. PICK t \in Nat, r \in Nat, dt \in Nat, e \in Nat, w \in Nat :
         /\ t = image.text_start /\ r = image.rodata_start /\ dt = image.data_rel_ro_start
         /\ e = image.kernel_end /\ w = kernel_window_size(image)
         /\ te = image.text_end /\ re = image.rodata_end /\ te \in Nat /\ re \in Nat
         /\ t <= te /\ te <= r /\ r <= re /\ re <= dt /\ dt <= e /\ e <= w
  BY <1>0, LayoutIs
<1>2. t % Page4K = 0 /\ r % Page4K = 0 /\ dt % Page4K = 0
  BY <1>1, LayoutIs
<1>3. PICK P : P = WindowPages(image)
  BY Zenon
<1>4. \A k \in 0 .. 5 : run[k] = RightsAfter(image, k)
  <2>1. run[0] = RightsAfter(image, 0)
    <3>1. \A p \in WindowPages(image) : Protected(image, 0, p) = {"WRITE", "EXEC"}
      BY DEF Protected
    <3> QED
      BY <3>1, Zenon DEF fill_window, RightsAfter
  <2>2. ASSUME NEW k \in 1 .. 5, run[k - 1] = RightsAfter(image, k - 1)
        PROVE  run[k] = RightsAfter(image, k)
    BY <2>2, ProtectedIs, Zenon
  <2>3. ASSUME NEW j, NEW k \in 1 .. 5, j = k - 1, run[j] = RightsAfter(image, j)
        PROVE  run[k] = RightsAfter(image, k)
    BY <2>2, <2>3, Zenon
  <2>4. /\ 1 \in 1 .. 5 /\ 2 \in 1 .. 5 /\ 3 \in 1 .. 5 /\ 4 \in 1 .. 5 /\ 5 \in 1 .. 5
        /\ 0 = 1 - 1 /\ 1 = 2 - 1 /\ 2 = 3 - 1 /\ 3 = 4 - 1 /\ 4 = 5 - 1
    OBVIOUS
  <2>5. run[1] = RightsAfter(image, 1)
    BY <2>1, <2>3, <2>4, Zenon
  <2>6. run[2] = RightsAfter(image, 2)
    BY <2>3, <2>4, <2>5, Zenon
  <2>7. run[3] = RightsAfter(image, 3)
    BY <2>3, <2>4, <2>6, Zenon
  <2>8. run[4] = RightsAfter(image, 4)
    BY <2>3, <2>4, <2>7, Zenon
  <2>9. run[5] = RightsAfter(image, 5)
    BY <2>3, <2>4, <2>8, Zenon
  <2>10. ASSUME NEW k \in 0 .. 5 PROVE k = 0 \/ k = 1 \/ k = 2 \/ k = 3 \/ k = 4 \/ k = 5
    BY <2>10
  <2> QED
    BY <2>1, <2>5, <2>6, <2>7, <2>8, <2>9, <2>10, Zenon
<1>5. ASSUME NEW p \in Nat, p < w, p % Page4K = 0 PROVE p \in P
  <2>1. p \in 0 .. w - 1
    BY <1>5
  <2> QED
    BY <1>1, <1>3, <1>5, <2>1, Zenon DEF WindowPages, PagesOf
<1>6. ASSUME NEW p \in P PROVE p \in Nat /\ p < w /\ p % Page4K = 0
  <2>1. p \in 0 .. w - 1 /\ p % Page4K = 0
    BY <1>1, <1>3, <1>6, Zenon DEF WindowPages, PagesOf
  <2>2. p \in Nat /\ p < w
    BY <2>1
  <2> QED
    BY <2>1, <2>2, Zenon
<1>7. ASSUME NEW p \in PagesWith(t, te) PROVE p \in P /\ t <= p /\ p < r
  <2>1. p \in Nat /\ t <= p /\ p < te /\ p % Page4K = 0
    BY <1>1, <1>2, <1>7, PagesBetween, Zenon
  <2>2. p < r /\ p < w
    BY <1>1, <2>1
  <2> QED
    BY <1>5, <2>1, <2>2, Zenon
<1>8. ASSUME NEW p \in PagesWith(r, re) PROVE p \in P /\ r <= p /\ p < dt
  <2>1. p \in Nat /\ r <= p /\ p < re /\ p % Page4K = 0
    BY <1>1, <1>2, <1>8, PagesBetween, Zenon
  <2>2. p < dt /\ p < w
    BY <1>1, <2>1
  <2> QED
    BY <1>5, <2>1, <2>2, Zenon
<1>9. ASSUME NEW p \in PagesWith(dt, e) PROVE p \in P /\ dt <= p /\ p < e
  <2>1. p \in Nat /\ dt <= p /\ p < e /\ p % Page4K = 0
    BY <1>2, <1>9, PagesBetween, Zenon
  <2>2. p < w
    BY <1>1, <2>1
  <2> QED
    BY <1>5, <2>1, <2>2, Zenon
<1>10. ASSUME NEW p \in PagesWith(t, e) PROVE p \in P /\ t <= p /\ p < e
  <2>1. p \in Nat /\ t <= p /\ p < e /\ p % Page4K = 0
    BY <1>2, <1>10, PagesBetween, Zenon
  <2>2. p < w
    BY <1>1, <2>1
  <2> QED
    BY <1>5, <2>1, <2>2, Zenon
<1>11. ASSUME NEW p \in P, t <= p, p < e PROVE p \in PagesWith(t, e)
  <2>1. p \in Nat /\ p % Page4K = 0
    BY <1>6, <1>11, Zenon
  <2>2. p \in t .. e - 1
    BY <1>11, <2>1
  <2>3. align_down(p, Page4K) = p
    BY <2>1, WholeIs, KernelSpaceAssumption, Zenon
  <2> QED
    BY <2>2, <2>3, Zenon DEF PagesWith
<1>12. ASSUME NEW k \in 0 .. 5 PROVE ImageStaysUsable(image, run[k])
  <2>1. \A p \in P : run[k][p] = Protected(image, k, p)
    BY <1>3, <1>4, Zenon DEF RightsAfter
  <2>2. ASSUME NEW p \in PagesWith(t, te) PROVE "EXEC" \in run[k][p]
    <3>1. p \in P /\ p \in Nat /\ t <= p /\ p < r
      BY <1>6, <1>7, <2>2, Zenon
    <3>2. "EXEC" \in Protected(image, k, p)
      BY <1>1, <3>1 DEF Protected
    <3> QED
      BY <2>1, <3>1, <3>2, Zenon
  <2>3. ASSUME NEW p \in PagesWith(dt, e) PROVE "WRITE" \in run[k][p]
    <3>1. p \in P /\ p \in Nat /\ dt <= p /\ p < e
      BY <1>6, <1>9, <2>3, Zenon
    <3>2. "WRITE" \in Protected(image, k, p)
      BY <1>1, <3>1 DEF Protected
    <3> QED
      BY <2>1, <3>1, <3>2, Zenon
  <2>4. ASSUME NEW p \in PagesWith(r, re) PROVE run[k][p] # Unmapped
    <3>1. p \in P /\ p \in Nat /\ r <= p /\ p < dt
      BY <1>6, <1>8, <2>4, Zenon
    <3>2. Protected(image, k, p) \in {{}, {"WRITE", "EXEC"}}
      BY <1>1, <3>1 DEF Protected
    <3>3. "none" \notin Protected(image, k, p)
      BY <3>2
    <3> QED
      BY <2>1, <3>1, <3>3, Zenon DEF Unmapped
  <2> QED
    BY <1>1, <2>2, <2>3, <2>4, Zenon DEF ImageStaysUsable
<1>13. WriteXorExecute(image, run[5])
  <2>1. DOMAIN run[5] = P /\ \A p \in P : run[5][p] = Protected(image, 5, p)
    <3>1. 5 \in 0 .. 5
      OBVIOUS
    <3>2. run[5] = RightsAfter(image, 5)
      BY <1>4, <3>1, Zenon
    <3> QED
      BY <1>3, <3>2, Zenon DEF RightsAfter
  <2>2. ASSUME NEW p \in P
        PROVE  /\ ~({"WRITE", "EXEC"} \subseteq run[5][p])
               /\ run[5][p] # Unmapped <=> p \in PagesWith(t, e)
    <3>1. p \in Nat /\ p < w
      BY <1>6, <2>2, Zenon
    <3>2. CASE t <= p /\ p < e
      <4>1. Protected(image, 5, p) \in {{"WRITE"}, {}, {"EXEC"}}
        BY <1>1, <3>1, <3>2 DEF Protected
      <4>2. ~({"WRITE", "EXEC"} \subseteq Protected(image, 5, p)) /\ "none" \notin Protected(image, 5, p)
        BY <4>1, Zenon
      <4> QED
        BY <1>11, <2>1, <2>2, <3>2, <4>2, Zenon DEF Unmapped
    <3>3. CASE ~(t <= p /\ p < e)
      <4>1. Protected(image, 5, p) = Unmapped
        BY <1>1, <3>1, <3>3 DEF Protected
      <4>2. p \notin PagesWith(t, e)
        BY <1>10, <3>3, Zenon
      <4> QED
        BY <2>1, <2>2, <4>1, <4>2 DEF Unmapped
    <3> QED
      BY <3>2, <3>3, Zenon
  <2>3. ASSUME NEW p \in PagesWith(r, re) PROVE run[5][p] = {}
    <3>1. p \in P /\ p \in Nat /\ r <= p /\ p < dt
      BY <1>6, <1>8, <2>3, Zenon
    <3>2. Protected(image, 5, p) = {}
      BY <1>1, <3>1 DEF Protected
    <3> QED
      BY <2>1, <3>1, <3>2, Zenon
  <2> QED
    BY <1>1, <2>1, <2>2, <2>3, Zenon DEF WriteXorExecute
<1> QED
  BY <1>12, <1>13, Zenon
=============================================================================
