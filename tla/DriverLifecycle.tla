-------------------------- MODULE DriverLifecycle --------------------------
(***************************************************************************)
(* Start and stop of the drivers, kernel/device/lifecycle.cpp.             *)
(*                                                                         *)
(* The linker collects the records that the macros of uk/module.hpp write  *)
(* into sections: a registry.  init_all checks it once (build_registry)    *)
(* and then visits the drivers depth first, dependencies before the driver *)
(* that needs them; exit_all stops them in reverse.  A step is a call, one *)
(* turn of visit, one entry point, one resolver or one exit: entry points  *)
(* and resolvers of drivers are foreign code, which may fail.              *)
(*                                                                         *)
(* A record is the tuple of its fields, of which NULL is a null pointer:   *)
(*    init, exit    <<driver, function>>                                   *)
(*    provides      <<driver, capability, resolve>>                        *)
(*    requires      <<driver, dependency>>                                 *)
(*    needs         <<driver, capability>>                                 *)
(* drivers is the sequence of driver names.  Names stand for their strings.*)
(***************************************************************************)
EXTENDS Integers, Sequences, FiniteSets

CONSTANTS
    Registries,             \* the registries a kernel may be linked with
    Multiple,               \* the capabilities of multiplicity MULTIPLE
    MaxDrivers,             \* MAX_DRIVERS, 128 in the kernel
    MaxCapabilities,        \* MAX_REGISTERED_CAPABILITIES, 256 in the kernel
    NULL,
    Restart                 \* whether init_all is ever called after exit_all

IsSequence(s) == s \in Seq({s[k] : k \in DOMAIN s})

\* The sections of the linker are arrays of records.
ASSUME RegistriesAssumption ==
    /\ MaxDrivers \in Nat /\ MaxCapabilities \in Nat /\ Restart \in BOOLEAN
    /\ \A r \in Registries :
         /\ IsSequence(r.drivers) /\ IsSequence(r.init) /\ IsSequence(r.exit)
         /\ IsSequence(r.provides) /\ IsSequence(r.requires) /\ IsSequence(r.needs)
         /\ \A k \in DOMAIN r.provides : DOMAIN r.provides[k] = 1 .. 3
         /\ \A k \in DOMAIN r.requires : DOMAIN r.requires[k] = 1 .. 2
         /\ \A k \in DOMAIN r.needs : DOMAIN r.needs[k] = 1 .. 2

VARIABLES
    registry,
    built, initialized_all, \* the flags of m_state
    visit,                  \* nodes[i].visit, by driver
    initialized,            \* the drivers whose node is marked initialized
    order,                  \* the array m_state.initialized
    capabilities,           \* the array m_state.capabilities, of <<driver, capability>>
    op,                     \* the call in progress and its place in the list of drivers
    stack,                  \* the calls of visit in progress
    answer, exited          \* what init_all returned; whether exit_all was called

vars == <<registry, built, initialized_all, visit, initialized, order, capabilities, op, stack,
          answer, exited>>

Idle == [kind |-> "idle", at |-> 0]
Names(r) == {r.drivers[k] : k \in DOMAIN r.drivers}
Smallest(S) == CHOOSE k \in S : \A j \in S : k <= j

\* What a loop answers that stops at the first result that is an error.
FirstError(results) ==
    LET bad == {k \in DOMAIN results : results[k] # "ok"}
    IN  IF bad = {} THEN "ok" ELSE results[Smallest(bad)]
-----------------------------------------------------------------------------
(***************************************************************************)
(* build_registry                                                          *)
(***************************************************************************)
Invalid(record) == \E k \in DOMAIN record : record[k] = NULL
Repeated(records, k) == \E j \in 1 .. k - 1 : records[j][1] = records[k][1]

add_driver(r, k) ==
    IF r.drivers[k] = NULL THEN "INVALID_RECORD"
    ELSE IF \E j \in 1 .. k - 1 : r.drivers[j] = r.drivers[k] THEN "DUPLICATE_DRIVER"
    ELSE IF k > MaxDrivers THEN "CAPACITY_EXCEEDED"
    ELSE "ok"

\* attach_init_records and attach_exit_records
attach(r, records, k, duplicate) ==
    IF Invalid(records[k]) THEN "INVALID_RECORD"
    ELSE IF records[k][1] \notin Names(r) THEN "UNKNOWN_DRIVER"
    ELSE IF Repeated(records, k) THEN duplicate
    ELSE "ok"

provider_records(r, cap) == {k \in DOMAIN r.provides : r.provides[k][2] = cap}

validate_provider_count(r, cap) ==
    IF cap \notin Multiple /\ Cardinality(provider_records(r, cap)) > 1
    THEN "MULTIPLE_CAPABILITY_PROVIDERS" ELSE "ok"

validate_provider(r, k) ==
    IF Invalid(r.provides[k]) THEN "INVALID_RECORD"
    ELSE IF r.provides[k][1] \notin Names(r) THEN "UNKNOWN_DRIVER"
    ELSE validate_provider_count(r, r.provides[k][2])

validate_driver_dependency(r, k) ==
    IF Invalid(r.requires[k]) THEN "INVALID_RECORD"
    ELSE IF r.requires[k][1] \notin Names(r) THEN "UNKNOWN_DRIVER"
    ELSE IF r.requires[k][2] \notin Names(r) THEN "UNKNOWN_DRIVER_DEPENDENCY"
    ELSE "ok"

validate_capability_dependency(r, k) ==
    IF Invalid(r.needs[k]) THEN "INVALID_RECORD"
    ELSE IF r.needs[k][1] \notin Names(r) THEN "UNKNOWN_DRIVER"
    ELSE IF validate_provider_count(r, r.needs[k][2]) # "ok" THEN validate_provider_count(r, r.needs[k][2])
    ELSE IF provider_records(r, r.needs[k][2]) = {} THEN "MISSING_CAPABILITY_PROVIDER"
    ELSE "ok"

\* The passes in their order.
build_registry(r) ==
    FirstError(<<FirstError([k \in DOMAIN r.drivers |-> add_driver(r, k)]),
                 FirstError([k \in DOMAIN r.init |-> attach(r, r.init, k, "DUPLICATE_DRIVER_ENTRY")]),
                 FirstError([k \in DOMAIN r.exit |-> attach(r, r.exit, k, "DUPLICATE_DRIVER_EXIT")]),
                 FirstError([k \in DOMAIN r.provides |-> validate_provider(r, k)]),
                 FirstError([k \in DOMAIN r.requires |-> validate_driver_dependency(r, k)]),
                 FirstError([k \in DOMAIN r.needs |-> validate_capability_dependency(r, k)])>>)
-----------------------------------------------------------------------------
\* The turns of the loops of visit_driver_dependencies and visit_capability_dependencies:
\* one for each requires record, then for each needs record one for each provides record.
Turns == 1 .. Len(registry.requires) + Len(registry.needs) * Len(registry.provides)

\* The driver that a turn is for and the one it visits.  The checks that the loops repeat
\* have been passed in build_registry.
edge(n) ==
    LET P == Len(registry.provides)
        m == n - Len(registry.requires) - 1
        needed == registry.needs[(m \div P) + 1]
        provided == registry.provides[(m % P) + 1]
    IN  IF m < 0 THEN registry.requires[n]
        ELSE IF needed[2] = provided[2] THEN <<needed[1], provided[1]>>
        ELSE <<NULL, NULL>>

\* The turns that a call of visit has still to take; it is in the first of them.
pending(call) == {n \in Turns : call.next <= n /\ edge(n)[1] = call.node}
DependsOn(d) == {edge(n)[2] : n \in {m \in Turns : edge(m)[1] = d}}

Init ==
    /\ registry \in Registries
    /\ built = FALSE /\ initialized_all = FALSE
    /\ visit = [d \in Names(registry) |-> "NOT_VISITED"]
    /\ initialized = {}
    /\ order = <<>>
    /\ capabilities = <<>>
    /\ op = Idle
    /\ stack = <<>>
    /\ answer = "none"
    /\ exited = FALSE

init_all ==
    /\ op = Idle
    /\ exited => Restart
    /\ UNCHANGED <<registry, initialized_all, visit, initialized, order, capabilities, stack, exited>>
    /\ IF initialized_all THEN answer' = "ok" /\ UNCHANGED <<built, op>>
       ELSE IF ~built /\ build_registry(registry) # "ok"
       THEN answer' = build_registry(registry) /\ UNCHANGED <<built, op>>
       ELSE /\ built' = TRUE
            /\ op' = [kind |-> "init", at |-> 1]
            /\ answer' = "none"

\* Faulty: the drivers on the way stay marked as being visited.
Unwind_KeepMarks(error) ==
    /\ stack' = <<>>
    /\ op' = Idle
    /\ answer' = error
    /\ UNCHANGED visit

\* An error returns through all calls of visit, each of which resets its node.
Unwind(error) ==
    /\ visit' = [d \in DOMAIN visit |->
                   IF \E k \in DOMAIN stack : stack[k].node = d THEN "NOT_VISITED" ELSE visit[d]]
    /\ stack' = <<>>
    /\ op' = Idle
    /\ answer' = error

Top == stack[Len(stack)]
Below == SubSeq(stack, 1, Len(stack) - 1)

\* The rest of the caller's loop: the call at the end goes on behind the turn it is in.
Resume(calls) ==
    [k \in DOMAIN calls |-> IF k = Len(calls) THEN [calls[k] EXCEPT !.next = Smallest(pending(calls[k])) + 1]
                            ELSE calls[k]]

Call(d) == [node |-> d, next |-> 1, record |-> 0]

\* Faulty: a driver that is being visited counts as visited.
Enter_NoCycle(d, calls) ==
    IF visit[d] # "NOT_VISITED"
    THEN /\ stack' = Resume(calls)
         /\ UNCHANGED <<visit, op, answer>>
    ELSE /\ visit' = [visit EXCEPT ![d] = "VISITING"]
         /\ stack' = Append(calls, Call(d))
         /\ UNCHANGED <<op, answer>>

\* Faulty: after a driver that is visited already, the same dependency again.
Enter_NoProgress(d, calls) ==
    IF visit[d] = "VISITED"
    THEN UNCHANGED <<stack, visit, op, answer>>
    ELSE IF visit[d] = "VISITING"
    THEN Unwind("DEPENDENCY_CYCLE")
    ELSE /\ visit' = [visit EXCEPT ![d] = "VISITING"]
         /\ stack' = Append(calls, Call(d))
         /\ UNCHANGED <<op, answer>>

\* visit(d) up to its first dependency, called from the last frame of calls.
Enter(d, calls) ==
    IF visit[d] = "VISITED"
    THEN /\ stack' = Resume(calls)
         /\ UNCHANGED <<visit, op, answer>>
    ELSE IF visit[d] = "VISITING"
    THEN Unwind("DEPENDENCY_CYCLE")
    ELSE /\ visit' = [visit EXCEPT ![d] = "VISITING"]
         /\ stack' = Append(calls, Call(d))
         /\ UNCHANGED <<op, answer>>

\* The loop of init_all over the nodes.
visit_next ==
    /\ op.kind = "init" /\ stack = <<>>
    /\ UNCHANGED <<registry, built, initialized, order, capabilities, exited>>
    /\ IF op.at > Len(registry.drivers)
       THEN /\ initialized_all' = TRUE
            /\ op' = Idle
            /\ answer' = "ok"
            /\ UNCHANGED <<visit, stack>>
       ELSE IF visit[registry.drivers[op.at]] = "VISITED"
       THEN /\ op' = [op EXCEPT !.at = @ + 1]
            /\ UNCHANGED <<initialized_all, visit, stack, answer>>
       ELSE /\ Enter(registry.drivers[op.at], <<>>)
            /\ UNCHANGED initialized_all

\* A call of visit from visit_driver_dependencies or visit_capability_providers.
visit_dependency ==
    /\ op.kind = "init" /\ stack # <<>> /\ pending(Top) # {}
    /\ Enter(edge(Smallest(pending(Top)))[2], stack)
    /\ UNCHANGED <<registry, built, initialized_all, initialized, order, capabilities, exited>>

\* Faulty: the driver is up but not marked as visited.
Succeed_NotVisited(d) ==
    /\ initialized' = initialized \cup {d}
    /\ order' = Append(order, d)
    /\ visit' = [visit EXCEPT ![d] = "NOT_VISITED"]
    /\ stack' = Resume(Below)
    /\ UNCHANGED <<op, answer>>

\* The end of run_driver and of visit: the driver is up.
Succeed(d) ==
    /\ initialized' = initialized \cup {d}
    /\ order' = Append(order, d)
    /\ visit' = [visit EXCEPT ![d] = "VISITED"]
    /\ stack' = Resume(Below)
    /\ UNCHANGED <<op, answer>>

\* run_driver up to register_capabilities: the driver's entry point, if it has one.
run_driver ==
    /\ op.kind = "init" /\ stack # <<>> /\ pending(Top) = {} /\ Top.record = 0
    /\ UNCHANGED <<registry, built, initialized_all, initialized, order, capabilities, exited>>
    /\ \/ /\ \E k \in DOMAIN registry.init : registry.init[k][1] = Top.node
          /\ Unwind("UNSPECIFIED")
       \/ /\ stack' = Append(Below, [Top EXCEPT !.record = 1])
          /\ UNCHANGED <<visit, op, answer>>

\* The provides records of the driver that its call has still to register.
unregistered == {k \in DOMAIN registry.provides : Top.record <= k /\ registry.provides[k][1] = Top.node}

\* One resolver of register_capabilities.  What is registered before an error stays.
register_capability(k) ==
    \/ /\ Unwind("CAPABILITY_RESOLVE_FAILED")
       /\ UNCHANGED capabilities
    \/ /\ Len(capabilities) = MaxCapabilities
       /\ Unwind("CAPACITY_EXCEEDED")
       /\ UNCHANGED capabilities
    \/ /\ Len(capabilities) # MaxCapabilities
       /\ capabilities' = Append(capabilities, <<Top.node, registry.provides[k][2]>>)
       /\ stack' = Append(Below, [Top EXCEPT !.record = k + 1])
       /\ UNCHANGED <<visit, op, answer>>

\* A turn of register_capabilities, behind the last one the end of run_driver and of visit.
register_capabilities ==
    /\ op.kind = "init" /\ stack # <<>> /\ Top.record > 0
    /\ UNCHANGED <<registry, built, initialized_all, exited>>
    /\ IF unregistered # {}
       THEN register_capability(Smallest(unregistered)) /\ UNCHANGED <<initialized, order>>
       ELSE Succeed(Top.node) /\ UNCHANGED capabilities

exit_all ==
    /\ op = Idle
    /\ op' = [kind |-> "exit", at |-> Len(order)]
    /\ exited' = TRUE
    /\ UNCHANGED <<registry, built, initialized_all, visit, initialized, order, capabilities, stack,
                   answer>>

\* One round of the loop of exit_all, or what follows it.  The marks of visit stay.
exit_next ==
    /\ op.kind = "exit"
    /\ IF op.at > 0
       THEN /\ initialized' = initialized \ {order[op.at]}
            /\ op' = [op EXCEPT !.at = @ - 1]
            /\ UNCHANGED <<initialized_all, order, capabilities>>
       ELSE /\ order' = <<>>
            /\ capabilities' = <<>>
            /\ initialized_all' = FALSE
            /\ op' = Idle
            /\ UNCHANGED initialized
    /\ UNCHANGED <<registry, built, visit, stack, answer, exited>>

Step == visit_next \/ visit_dependency \/ run_driver \/ register_capabilities \/ exit_next
Next == init_all \/ exit_all \/ Step
Spec == Init /\ [][Next]_vars

\* A call is executed to its return, if the drivers' own functions return.
FairSpec == Spec /\ WF_vars(Step)
-----------------------------------------------------------------------------
find_capability(cap) ==
    LET found == {k \in DOMAIN capabilities : capabilities[k][2] = cap}
    IN  IF found = {} THEN NULL ELSE capabilities[Smallest(found)][1]

\* Every variable keeps its type, and the arrays of m_state their length.
TypeOK ==
    /\ visit \in [Names(registry) -> {"NOT_VISITED", "VISITING", "VISITED"}]
    /\ initialized \subseteq Names(registry)
    /\ Len(order) <= MaxDrivers /\ Len(capabilities) <= MaxCapabilities
    /\ \A k \in DOMAIN order : order[k] \in Names(registry)
    /\ op \in [kind : {"idle", "init", "exit"}, at : Nat]
    /\ \A k \in DOMAIN stack : stack[k] \in [node : Names(registry), next : Nat, record : Nat]

\* visit: a driver is up only while everything it depends on is up, through start, failed
\* starts, repeated calls of init_all and the reverse order of exit_all.
DependenciesUp ==
    \A d \in initialized : DependsOn(d) \subseteq initialized

\* The array that exit_all walks lists each driver that is up exactly once (run_driver
\* does not check its bound); during exit_all, up to its place in the array.
OrderListsInitialized ==
    LET listed == IF op.kind = "exit" THEN 1 .. op.at ELSE DOMAIN order
    IN  /\ {order[k] : k \in listed} = initialized
        /\ \A j, k \in DOMAIN order : order[j] = order[k] => j = k

\* The arrays of m_state stay in their bounds and exit_all meets every driver that is up
\* once, after any sequence of starts, failures and stops.
OrderSound == TypeOK /\ OrderListsInitialized

\* While init_all's success stands, every driver is up and every capability that a driver
\* needs is found, at a provider that is up.
OkMeansAllUp ==
    initialized_all /\ op = Idle =>
       /\ initialized = Names(registry)
       /\ \A k \in DOMAIN registry.needs : find_capability(registry.needs[k][2]) \in initialized

\* A registry has a cycle when there are drivers each of which depends on one of them.
Cyclic(S) == S # {} /\ \A d \in S : DependsOn(d) \cap S # {}

\* DEPENDENCY_CYCLE is reported only of a registry with a cycle, also by an init_all that
\* follows a failed one: Unwind leaves no mark behind.
CycleIsReal ==
    answer = "DEPENDENCY_CYCLE" => \E S \in SUBSET Names(registry) : Cyclic(S)

\* What init_all answers is true of the drivers, its success as well as its refusal, also if
\* an earlier call has failed half way.
AnswersAreTrue == OkMeansAllUp /\ CycleIsReal

\* init_all and exit_all return, for every registry, cyclic ones included.
CallsReturn == (op.kind \in {"init", "exit"}) ~> (op = Idle)
=============================================================================
