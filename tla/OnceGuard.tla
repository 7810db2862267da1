----------------------------- MODULE OnceGuard -----------------------------
(***************************************************************************)
(* The guard of a function's static object, kernel/runtime/cxx_abi.cpp:    *)
(* __cxa_guard_acquire, __cxa_guard_release and __cxa_guard_abort, each    *)
(* atomic access a step.                                                   *)
(*                                                                         *)
(* The guard word holds 0, IN_USE or INITIALIZED.  Memory orders count:    *)
(* sees is the set of cores to which the finished object is visible, and   *)
(* carried says whether the word's last value was stored with a release   *)
(* by one of them, so that an acquire that reads it makes it visible.      *)
(***************************************************************************)
EXTENDS Atomic, Processors

VARIABLES word, at, sees, carried

guard_vars == <<word, at, sees, carried>>

GuardInit ==
    /\ word = "0"
    /\ at = [c \in Cores |-> "away"]
    /\ sees = {}
    /\ carried = FALSE

\* An access with an order that acquires makes visible what the guard carries.
Observe(c, order) == sees' = IF carried /\ Acquires(order) THEN sees \cup {c} ELSE sees

Store(c, value, order) ==
    /\ word' = value
    /\ carried' = (Releases(order) /\ c \in sees)

\* A core reaches the declaration of the object.
declare(c) ==
    /\ at[c] = "away"
    /\ at' = [at EXCEPT ![c] = "load"]
    /\ UNCHANGED <<word, sees, carried>>

\* Faulty: the flag is looked at with a relaxed load.
acquire_load_Relaxed(c) ==
    /\ at[c] = "load"
    /\ Observe(c, to_load_order("RELAXED"))
    /\ at' = [at EXCEPT ![c] = IF word = "INITIALIZED" THEN "using" ELSE "cas"]
    /\ UNCHANGED <<word, carried>>

\* The load in front of the loop of __cxa_guard_acquire.
acquire_load(c) ==
    /\ at[c] = "load"
    /\ Observe(c, to_load_order("ACQUIRE"))
    /\ at' = [at EXCEPT ![c] = IF word = "INITIALIZED" THEN "using" ELSE "cas"]
    /\ UNCHANGED <<word, carried>>

\* One round of the loop: the compare-and-exchange and what follows a failure.
acquire_cas(c) ==
    /\ at[c] = "cas"
    /\ \/ /\ word = "0"
          /\ Observe(c, "ACQ_REL")
          /\ word' = "IN_USE" /\ carried' = (c \in sees')
          /\ at' = [at EXCEPT ![c] = "constructing"]
       \/ /\ word # "0"
          /\ Observe(c, to_failure_order("ACQUIRE"))
          /\ at' = [at EXCEPT ![c] = IF word = "INITIALIZED" THEN "using" ELSE "cas"]
          /\ UNCHANGED <<word, carried>>

\* The constructor ends; nobody else has seen what it wrote.
construct(c) ==
    /\ at[c] = "constructing"
    /\ at' = [at EXCEPT ![c] = "constructed"]
    /\ sees' = {c}
    /\ UNCHANGED <<word, carried>>

guard_release(c) ==
    /\ at[c] = "constructed"
    /\ Store(c, "INITIALIZED", to_store_order("RELEASE"))
    /\ at' = [at EXCEPT ![c] = "using"]
    /\ UNCHANGED sees

\* Faulty: the guard stays in use.
guard_abort_Keep(c) ==
    /\ at[c] = "constructing"
    /\ at' = [at EXCEPT ![c] = "away"]
    /\ UNCHANGED <<word, sees, carried>>

\* Faulty: an aborted construction counts as a finished one.
guard_abort_Done(c) ==
    /\ at[c] = "constructing"
    /\ Store(c, "INITIALIZED", to_store_order("RELEASE"))
    /\ at' = [at EXCEPT ![c] = "away"]
    /\ UNCHANGED sees

\* The constructor does not end: the guard is given back, and the caller does not use
\* the object.
guard_abort(c) ==
    /\ at[c] = "constructing"
    /\ Store(c, "0", to_store_order("RELEASE"))
    /\ at' = [at EXCEPT ![c] = "away"]
    /\ UNCHANGED sees

\* The caller leaves the function.
leave(c) ==
    /\ at[c] = "using"
    /\ at' = [at EXCEPT ![c] = "away"]
    /\ UNCHANGED <<word, sees, carried>>

guard_step(c) == acquire_load(c) \/ acquire_cas(c)
GuardNext ==
    \E c \in Cores : \/ declare(c) \/ guard_step(c) \/ construct(c)
                     \/ guard_release(c) \/ guard_abort(c) \/ leave(c)

GuardSpec == GuardInit /\ [][GuardNext]_guard_vars
-----------------------------------------------------------------------------
\* Every variable keeps its type.
GuardTypeOK ==
    /\ word \in {"0", "IN_USE", "INITIALIZED"}
    /\ at \in [Cores -> {"away", "load", "cas", "constructing", "constructed", "using"}]
    /\ sees \subseteq Cores
    /\ carried \in BOOLEAN

\* One core constructs, and only while the guard says so.
OneConstructs ==
    /\ \A c \in Cores : at[c] \in {"constructing", "constructed"} => word = "IN_USE"
    /\ \A c, d \in Cores :
          {at[c], at[d]} \subseteq {"constructing", "constructed"} => c = d

\* A core that uses the object sees it finished, whichever way it got past the guard: the
\* first load, a failed compare-and-exchange, or its own construction.
UserSeesObject == \A c \in Cores : at[c] = "using" => c \in sees

\* One core constructs at a time and whoever passes the guard sees the finished object,
\* because the word that says so carries it (cxx_abi.cpp).  The inductive invariant.
GuardInv ==
    /\ GuardTypeOK
    /\ OneConstructs
    /\ UserSeesObject
    /\ \A c \in Cores : at[c] = "constructed" => c \in sees
    /\ word = "INITIALIZED" => carried
    /\ \A c \in Cores : at[c] = "using" => word = "INITIALIZED"

\* What a value of the word and a core's position mean in OnceInit.
Object == IF word = "0" THEN "absent" ELSE IF word = "IN_USE" THEN "underway" ELSE "ready"
PhaseAt(p) ==
    IF p \in {"load", "cas"} THEN "asking"
    ELSE IF p \in {"constructing", "constructed"} THEN "building" ELSE p
Phase == [c \in Cores |-> PhaseAt(at[c])]

Once == INSTANCE OnceInit WITH object <- Object, phase <- Phase

\* The three functions implement once-only construction: in particular an object that is
\* ready is never constructed again, and an aborted construction starts over.
ImplementsOnceInit == Once!Spec

\* Nobody waits in vain: after an abort one of the cores that wait takes the guard, and
\* once the object is there every core gets out of the loop.
WaitersProceed ==
    /\ ((\E c \in Cores : at[c] = "cas") /\ word = "0") ~> (word # "0")
    /\ \A c \in Cores : (at[c] = "cas" /\ word = "INITIALIZED") ~> (at[c] = "using")
=============================================================================
