----------------------- MODULE DriverLifecycleProofs -----------------------
(***************************************************************************)
(* The drivers are started and stopped in the right order, and what        *)
(* init_all answers is true, for every set of registries, any number of    *)
(* drivers and records and any failures, as long as init_all is not called *)
(* again after exit_all.  First come the inductive invariant, what         *)
(* build_registry checks, and the calls of visit in progress; then the     *)
(* steps of init_all and exit_all; then what follows.                      *)
(***************************************************************************)
EXTENDS DriverLifecycle, FiniteSetTheorems, WellFoundedInduction, TLAPS

Visited(d) == d \in Names(registry) /\ visit[d] = "VISITED"
Recorded(d, k) == \E c \in DOMAIN capabilities : capabilities[c] = <<d, registry.provides[k][2]>>

\* What a call of visit has behind it: the turns before next, then the records before record.
CallInv(call) ==
    /\ call \in [node : Names(registry), next : Nat, record : Nat]
    /\ \A n \in Turns : n < call.next /\ edge(n)[1] = call.node => Visited(edge(n)[2])
    /\ call.record > 0 => pending(call) = {}
    /\ \A k \in DOMAIN registry.provides :
         k < call.record /\ registry.provides[k][1] = call.node => Recorded(call.node, k)

\* The calls of visit in progress: each but the last waits for the next one, and the
\* drivers being visited are those of the calls.
Calls(places) ==
    /\ \A k \in places : CallInv(stack[k])
    /\ \A k \in places : k + 1 \in places =>
         pending(stack[k]) # {} /\ edge(Smallest(pending(stack[k])))[2] = stack[k + 1].node
    /\ \A j, k \in places : stack[j].node = stack[k].node => j = k
    /\ \A d \in Names(registry) : visit[d] = "VISITING" <=> \E k \in places : stack[k].node = d

StackInv == IsSequence(stack) /\ (stack # <<>> => op.kind = "init") /\ Calls(DOMAIN stack)

\* The array of the drivers that are up is in an order in which dependencies come first.
OrderInv ==
    /\ IsSequence(order)
    /\ \A k \in DOMAIN order : DependsOn(order[k]) \subseteq {order[j] : j \in 1 .. k - 1}

\* Until exit_all, the marks of visit tell which drivers are up, and their capabilities are
\* in the array.
UpInv ==
    ~exited =>
      /\ \A d \in Names(registry) : Visited(d) <=> d \in initialized
      /\ \A k \in DOMAIN registry.provides : registry.provides[k][1] \in initialized
                                               => Recorded(registry.provides[k][1], k)

\* Where init_all and exit_all are.
CallsInv ==
    /\ built => build_registry(registry) = "ok"
    /\ op.kind = "init" => built /\ ~exited /\ ~initialized_all /\ op.at # 0
    /\ op.kind = "init" => \A k \in DOMAIN registry.drivers : k < op.at => Visited(registry.drivers[k])
    /\ op.kind = "exit" => exited /\ op.at <= Len(order)
    /\ op.kind = "idle" => op = Idle
    /\ exited /\ op = Idle => ~initialized_all
    /\ initialized # {} \/ order # <<>> \/ initialized_all => built
    /\ initialized_all => initialized = Names(registry) \/ op.kind = "exit"
    /\ IsSequence(capabilities)
    /\ \A c \in DOMAIN capabilities : capabilities[c][1] \in Names(registry)

IInv ==
    /\ registry \in Registries
    /\ OrderSound /\ StackInv /\ OrderInv /\ UpInv /\ CallsInv
    /\ CycleIsReal
-----------------------------------------------------------------------------
(***************************************************************************)
(* Sequences, smallest elements and the checks of build_registry.          *)
(***************************************************************************)

\* A set of natural numbers has the smallest element that the loops stop at.
LEMMA SmallestIs ==
    ASSUME NEW S, S \subseteq Nat, S # {}
    PROVE  Smallest(S) \in S /\ \A j \in S : Smallest(S) <= j
<1>1. PICK k \in S : \A j \in S : <<j, k>> \notin OpToRel(<, Nat)
  BY NatLessThanWellFounded, WFMin, Zenon
<1>2. ASSUME NEW j \in S PROVE ~ (j < k)
  <2>1. j \in Nat /\ k \in Nat
    BY Zenon
  <2>2. j < k => <<j, k>> \in OpToRel(<, Nat)
    BY <2>1, ZenonT(30) DEF OpToRel
  <2> QED
    BY <1>1, <2>2, Zenon
<1>3. \A j \in S : k <= j
  BY <1>2
<1> QED
  BY <1>3, Zenon DEF Smallest

\* A sequence is a function on 1 .. Len.
LEMMA SequenceDomain ==
    ASSUME NEW s, IsSequence(s)
    PROVE  /\ Len(s) \in Nat /\ DOMAIN s = 1 .. Len(s)
           /\ s = [k \in 1 .. Len(s) |-> s[k]]
           /\ s = <<>> <=> Len(s) = 0
BY DEF IsSequence

\* A function on 1 .. n is a sequence.
LEMMA FunctionIsSequence ==
    ASSUME NEW s, NEW n \in Nat, s = [k \in 1 .. n |-> s[k]]
    PROVE  IsSequence(s) /\ Len(s) = n /\ DOMAIN s = 1 .. n
<1>1. DOMAIN s = 1 .. n
  BY Zenon
<1>2. s \in [1 .. n -> {s[k] : k \in DOMAIN s}]
  BY <1>1, Zenon
<1>3. s \in Seq({s[k] : k \in DOMAIN s})
  BY <1>2
<1> QED
  BY <1>1, <1>3 DEF IsSequence

\* So is any element of Seq(T).
LEMMA InSeq ==
    ASSUME NEW T, NEW s \in Seq(T)
    PROVE  IsSequence(s)
<1>1. Len(s) \in Nat /\ s = [k \in 1 .. Len(s) |-> s[k]]
  OBVIOUS
<1> QED
  BY <1>1, FunctionIsSequence, Zenon

\* A call of Append.
LEMMA Appended ==
    ASSUME NEW s, IsSequence(s), NEW x
    PROVE  /\ IsSequence(Append(s, x)) /\ Len(Append(s, x)) = Len(s) + 1
           /\ DOMAIN Append(s, x) = 1 .. Len(s) + 1
           /\ \A k \in 1 .. Len(s) : Append(s, x)[k] = s[k]
           /\ Append(s, x)[Len(s) + 1] = x
<1> DEFINE T == {s[k] : k \in DOMAIN s} \cup {x}
<1>1. s \in Seq(T)
  BY DEF IsSequence
<1>2. /\ Append(s, x) \in Seq(T) /\ Len(Append(s, x)) = Len(s) + 1
      /\ DOMAIN Append(s, x) = 1 .. Len(s) + 1
      /\ \A k \in 1 .. Len(s) : Append(s, x)[k] = s[k]
      /\ Append(s, x)[Len(s) + 1] = x
  BY <1>1
<1> HIDE DEF T
<1> QED
  BY <1>2, InSeq, Zenon

\* A loop answers ok only if every turn did.
LEMMA NoError ==
    ASSUME NEW results, DOMAIN results \subseteq Nat, FirstError(results) = "ok"
    PROVE  \A k \in DOMAIN results : results[k] = "ok"
<1> DEFINE bad == {k \in DOMAIN results : results[k] # "ok"}
<1>1. CASE bad # {}
  <2>1. Smallest(bad) \in bad
    BY <1>1, SmallestIs, Zenon
  <2> QED
    BY <1>1, <2>1, Zenon DEF FirstError
<1> QED
  BY <1>1, Zenon

\* What a registry that build_registry accepts is known to satisfy.
Accepted(r) ==
    /\ NULL \notin Names(r)
    /\ \A j, k \in DOMAIN r.drivers : r.drivers[j] = r.drivers[k] => j = k
    /\ Len(r.drivers) <= MaxDrivers
    /\ \A k \in DOMAIN r.provides : r.provides[k][1] \in Names(r)
    /\ \A k \in DOMAIN r.requires : r.requires[k][1] \in Names(r) /\ r.requires[k][2] \in Names(r)
    /\ \A k \in DOMAIN r.needs : \E j \in DOMAIN r.provides : r.provides[j][2] = r.needs[k][2]

\* The sections of the linker are sequences.
LEMMA Sections ==
    ASSUME NEW r \in Registries
    PROVE  /\ Len(r.drivers) \in Nat /\ DOMAIN r.drivers = 1 .. Len(r.drivers)
           /\ Len(r.provides) \in Nat /\ DOMAIN r.provides = 1 .. Len(r.provides)
           /\ Len(r.requires) \in Nat /\ DOMAIN r.requires = 1 .. Len(r.requires)
           /\ Len(r.needs) \in Nat /\ DOMAIN r.needs = 1 .. Len(r.needs)
           /\ DOMAIN r.init \subseteq Nat /\ DOMAIN r.exit \subseteq Nat
           /\ \A k \in DOMAIN r.requires : DOMAIN r.requires[k] = 1 .. 2
<1>1. /\ IsSequence(r.drivers) /\ IsSequence(r.init) /\ IsSequence(r.exit)
      /\ IsSequence(r.provides) /\ IsSequence(r.requires) /\ IsSequence(r.needs)
      /\ \A k \in DOMAIN r.requires : DOMAIN r.requires[k] = 1 .. 2
  BY RegistriesAssumption, Zenon
<1>2. ASSUME NEW s, IsSequence(s) PROVE Len(s) \in Nat /\ DOMAIN s = 1 .. Len(s) /\ DOMAIN s \subseteq Nat
  BY <1>2, SequenceDomain
<1> QED
  BY <1>1, <1>2, Zenon

LEMMA PlacesNat ==
    ASSUME NEW r \in Registries
    PROVE  DOMAIN r.provides \subseteq Nat \ {0} /\ DOMAIN r.drivers \subseteq Nat \ {0}
<1>1. \A i : 1 .. i \subseteq Nat \ {0}
  OBVIOUS
<1> QED
  BY <1>1, Sections, Zenon

\* Every pass of build_registry has accepted each of its records.
LEMMA PassesOk ==
    ASSUME NEW r \in Registries, build_registry(r) = "ok"
    PROVE  /\ \A k \in DOMAIN r.drivers : add_driver(r, k) = "ok"
           /\ \A k \in DOMAIN r.provides : validate_provider(r, k) = "ok"
           /\ \A k \in DOMAIN r.requires : validate_driver_dependency(r, k) = "ok"
           /\ \A k \in DOMAIN r.needs : validate_capability_dependency(r, k) = "ok"
<1> DEFINE p1 == [k \in DOMAIN r.drivers |-> add_driver(r, k)]
           p2 == [k \in DOMAIN r.init |-> attach(r, r.init, k, "DUPLICATE_DRIVER_ENTRY")]
           p3 == [k \in DOMAIN r.exit |-> attach(r, r.exit, k, "DUPLICATE_DRIVER_EXIT")]
           p4 == [k \in DOMAIN r.provides |-> validate_provider(r, k)]
           p5 == [k \in DOMAIN r.requires |-> validate_driver_dependency(r, k)]
           p6 == [k \in DOMAIN r.needs |-> validate_capability_dependency(r, k)]
           passes == <<FirstError(p1), FirstError(p2), FirstError(p3),
                       FirstError(p4), FirstError(p5), FirstError(p6)>>
<1>1. DOMAIN passes \subseteq Nat /\ {1, 4, 5, 6} \subseteq DOMAIN passes
  OBVIOUS
<1>2. FirstError(passes) = "ok"
  BY Zenon DEF build_registry
<1>3. passes[1] = "ok" /\ passes[4] = "ok" /\ passes[5] = "ok" /\ passes[6] = "ok"
  <2> HIDE DEF passes
  <2> QED
    BY <1>1, <1>2, NoError, Zenon
<1>4. FirstError(p1) = "ok" /\ FirstError(p4) = "ok" /\ FirstError(p5) = "ok" /\ FirstError(p6) = "ok"
  <2> HIDE DEF p1, p2, p3, p4, p5, p6
  <2> QED
    BY <1>3, Zenon
<1>5. DOMAIN p1 \subseteq Nat /\ DOMAIN p4 \subseteq Nat /\ DOMAIN p5 \subseteq Nat /\ DOMAIN p6 \subseteq Nat
  <2>1. \A n : 1 .. n \subseteq Nat
    OBVIOUS
  <2>2. DOMAIN p1 = DOMAIN r.drivers /\ DOMAIN p4 = DOMAIN r.provides /\ DOMAIN p5 = DOMAIN r.requires
        /\ DOMAIN p6 = DOMAIN r.needs
    BY Zenon
  <2> HIDE DEF p1, p4, p5, p6
  <2> QED
    BY <2>1, <2>2, Sections, Zenon
<1>6. /\ \A k \in DOMAIN p1 : p1[k] = "ok" 
      /\ \A k \in DOMAIN p4 : p4[k] = "ok" 
      /\ \A k \in DOMAIN p5 : p5[k] = "ok" 
      /\ \A k \in DOMAIN p6 : p6[k] = "ok"
  <2> HIDE DEF p1, p4, p5, p6
  <2> QED
    BY <1>4, <1>5, NoError, Zenon
<1> QED
  BY <1>6, Zenon

\* build_registry does not look for cycles.
LEMMA BuildAnswers ==
    ASSUME NEW r \in Registries
    PROVE  build_registry(r) # "DEPENDENCY_CYCLE"
<1> DEFINE p1 == [k \in DOMAIN r.drivers |-> add_driver(r, k)]
           p2 == [k \in DOMAIN r.init |-> attach(r, r.init, k, "DUPLICATE_DRIVER_ENTRY")]
           p3 == [k \in DOMAIN r.exit |-> attach(r, r.exit, k, "DUPLICATE_DRIVER_EXIT")]
           p4 == [k \in DOMAIN r.provides |-> validate_provider(r, k)]
           p5 == [k \in DOMAIN r.requires |-> validate_driver_dependency(r, k)]
           p6 == [k \in DOMAIN r.needs |-> validate_capability_dependency(r, k)]
           passes == <<FirstError(p1), FirstError(p2), FirstError(p3),
                       FirstError(p4), FirstError(p5), FirstError(p6)>>
<1>1. ASSUME NEW results, DOMAIN results \subseteq Nat,
             \A k \in DOMAIN results : results[k] # "DEPENDENCY_CYCLE"
      PROVE  FirstError(results) # "DEPENDENCY_CYCLE"
  <2> DEFINE bad == {k \in DOMAIN results : results[k] # "ok"}
  <2>1. CASE bad = {}
    BY <2>1, Zenon DEF FirstError
  <2>2. CASE bad # {}
    <3>1. Smallest(bad) \in bad
      BY <1>1, <2>2, SmallestIs, Zenon
    <3> QED
      BY <1>1, <2>2, <3>1, Zenon DEF FirstError
  <2> QED
    BY <2>1, <2>2, Zenon
<1>2. /\ DOMAIN r.drivers \subseteq Nat /\ DOMAIN r.init \subseteq Nat /\ DOMAIN r.exit \subseteq Nat
      /\ DOMAIN r.provides \subseteq Nat /\ DOMAIN r.requires \subseteq Nat /\ DOMAIN r.needs \subseteq Nat
  <2>1. \A i : 1 .. i \subseteq Nat
    OBVIOUS
  <2> QED
    BY <2>1, Sections, Zenon
<1>3. FirstError(p1) # "DEPENDENCY_CYCLE"
  <2>1. \A k : add_driver(r, k) # "DEPENDENCY_CYCLE"
    BY Zenon DEF add_driver
  <2> QED
    BY <1>1, <1>2, <2>1, Zenon
<1>4. FirstError(p2) # "DEPENDENCY_CYCLE" /\ FirstError(p3) # "DEPENDENCY_CYCLE"
  <2>1. \A s, k : /\ attach(r, s, k, "DUPLICATE_DRIVER_ENTRY") # "DEPENDENCY_CYCLE"
                  /\ attach(r, s, k, "DUPLICATE_DRIVER_EXIT") # "DEPENDENCY_CYCLE"
    BY Zenon DEF attach
  <2> QED
    BY <1>1, <1>2, <2>1, Zenon
<1>5. \A cap : validate_provider_count(r, cap) # "DEPENDENCY_CYCLE"
  BY Zenon DEF validate_provider_count
<1>6. FirstError(p4) # "DEPENDENCY_CYCLE"
  <2>1. \A k : validate_provider(r, k) # "DEPENDENCY_CYCLE"
    BY <1>5, Zenon DEF validate_provider
  <2> QED
    BY <1>1, <1>2, <2>1, Zenon
<1>7. FirstError(p5) # "DEPENDENCY_CYCLE"
  <2>1. \A k : validate_driver_dependency(r, k) # "DEPENDENCY_CYCLE"
    BY Zenon DEF validate_driver_dependency
  <2> QED
    BY <1>1, <1>2, <2>1, Zenon
<1>8. FirstError(p6) # "DEPENDENCY_CYCLE"
  <2>1. \A k : validate_capability_dependency(r, k) # "DEPENDENCY_CYCLE"
    BY <1>5, Zenon DEF validate_capability_dependency
  <2> QED
    BY <1>1, <1>2, <2>1, Zenon
<1>9. build_registry(r) = FirstError(passes)
  BY Zenon DEF build_registry
<1>10. DOMAIN passes \subseteq Nat /\ \A k \in DOMAIN passes : passes[k] # "DEPENDENCY_CYCLE"
  <2> HIDE DEF p1, p2, p3, p4, p5, p6
  <2> QED
    BY <1>3, <1>4, <1>6, <1>7, <1>8
<1> HIDE DEF passes
<1> QED
  BY <1>1, <1>9, <1>10, Zenon

LEMMA AcceptedIs ==
    ASSUME NEW r \in Registries, build_registry(r) = "ok"
    PROVE  Accepted(r)
<1>1. \A k \in DOMAIN r.drivers : /\ r.drivers[k] # NULL /\ k <= MaxDrivers
                                  /\ \A j \in 1 .. k - 1 : r.drivers[j] # r.drivers[k]
  <2> SUFFICES ASSUME NEW k \in DOMAIN r.drivers
               PROVE  /\ r.drivers[k] # NULL /\ k <= MaxDrivers
                      /\ \A j \in 1 .. k - 1 : r.drivers[j] # r.drivers[k]
    BY Zenon
  <2>1. add_driver(r, k) = "ok"
    BY PassesOk, Zenon
  <2>2. k \in Nat /\ MaxDrivers \in Nat
    BY Sections, RegistriesAssumption
  <2> QED
    BY <2>1, <2>2 DEF add_driver
<1>2. NULL \notin Names(r)
  BY <1>1, Zenon DEF Names
<1>3. \A j, k \in DOMAIN r.drivers : r.drivers[j] = r.drivers[k] => j = k
  <2> SUFFICES ASSUME NEW j \in DOMAIN r.drivers, NEW k \in DOMAIN r.drivers, j # k
               PROVE  r.drivers[j] # r.drivers[k]
    BY Zenon
  <2>1. j \in 1 .. k - 1 \/ k \in 1 .. j - 1
    BY Sections
  <2> QED
    BY <1>1, <2>1, Zenon
<1>4. Len(r.drivers) <= MaxDrivers
  <2>1. CASE Len(r.drivers) = 0
    BY <2>1, RegistriesAssumption
  <2>2. CASE Len(r.drivers) # 0
    <3>1. Len(r.drivers) \in DOMAIN r.drivers
      BY <2>2, Sections
    <3> QED
      BY <1>1, <3>1, Zenon
  <2> QED
    BY <2>1, <2>2, Zenon
<1>5. \A k \in DOMAIN r.provides : r.provides[k][1] \in Names(r)
  BY PassesOk, Zenon DEF validate_provider
<1>6. \A k \in DOMAIN r.requires : r.requires[k][1] \in Names(r) /\ r.requires[k][2] \in Names(r)
  BY PassesOk, Zenon DEF validate_driver_dependency
<1>7. ASSUME NEW k \in DOMAIN r.needs
      PROVE  \E j \in DOMAIN r.provides : r.provides[j][2] = r.needs[k][2]
  <2>1. validate_capability_dependency(r, k) = "ok"
    BY PassesOk, Zenon
  <2>2. provider_records(r, r.needs[k][2]) # {}
    BY <2>1, Zenon DEF validate_capability_dependency
  <2> QED
    BY <2>2, Zenon DEF provider_records
<1> QED
  BY <1>2, <1>3, <1>4, <1>5, <1>6, <1>7, Zenon DEF Accepted

\* A call of visit from a dependency loop is for a driver of the registry.
LEMMA EdgeEnds ==
    ASSUME registry \in Registries, Accepted(registry), NEW n \in Turns, edge(n)[1] \in Names(registry)
    PROVE  edge(n)[2] \in Names(registry)
<1> DEFINE P == Len(registry.provides)
           Q == Len(registry.requires)
           N == Len(registry.needs)
           m == n - Q - 1
           needed == registry.needs[(m \div P) + 1]
           provided == registry.provides[(m % P) + 1]
<1>1. /\ P \in Nat /\ Q \in Nat /\ N \in Nat
      /\ DOMAIN registry.provides = 1 .. P /\ DOMAIN registry.requires = 1 .. Q
  BY Sections, Zenon
<1>2. edge(n) = IF m < 0 THEN registry.requires[n]
                ELSE IF needed[2] = provided[2] THEN <<needed[1], provided[1]>>
                ELSE <<NULL, NULL>>
  BY Zenon DEF edge
<1>3. n \in 1 .. Q + N * P
  BY Zenon DEF Turns
<1> HIDE DEF P, Q, N
<1>4. CASE m < 0
  <2>1. n \in 1 .. Q
    BY <1>1, <1>3, <1>4
  <2>2. edge(n) = registry.requires[n]
    BY <1>2, <1>4, Zenon
  <2> QED
    BY <1>1, <2>1, <2>2, Zenon DEF Accepted
<1>5. CASE ~ (m < 0)
  <2>1. N * P \in Nat /\ m \in Nat
    BY <1>1, <1>3, <1>5
  <2>2. P # 0
    <3>1. P = 0 => N * P = 0
      BY <1>1
    <3> QED
      BY <1>1, <1>3, <1>5, <3>1
  <2>3. (m % P) + 1 \in 1 .. P
    BY <1>1, <2>1, <2>2
  <2>4. provided[1] \in Names(registry) /\ NULL \notin Names(registry)
    BY <1>1, <2>3, Zenon DEF Accepted
  <2> HIDE DEF m, needed, provided
  <2>5. edge(n) = <<needed[1], provided[1]>> \/ edge(n) = <<NULL, NULL>>
    BY <1>2, <1>5, Zenon
  <2>6. edge(n)[1] # NULL
    BY <2>4, Zenon
  <2> QED
    BY <2>4, <2>5, <2>6
<1> QED
  BY <1>4, <1>5, Zenon

\* The loops of visit depend on the registry alone, which no step changes.
LEMMA Steady ==
    ASSUME registry' = registry
    PROVE  /\ Names(registry') = Names(registry) /\ Turns' = Turns
           /\ \A n : edge(n)' = edge(n)
           /\ \A call : pending(call)' = pending(call)
           /\ \A d : DependsOn(d)' = DependsOn(d)
           /\ (\E S \in SUBSET Names(registry) : Cyclic(S))' <=> \E S \in SUBSET Names(registry) : Cyclic(S)
<1>1. Turns' = Turns /\ Names(registry') = Names(registry)
  BY Zenon DEF Turns
<1>2. \A n : edge(n)' = edge(n)
  BY Zenon DEF edge
<1>3. \A call : pending(call)' = pending(call)
  BY <1>1, <1>2, Zenon DEF pending
<1>4. ASSUME NEW d PROVE DependsOn(d)' = DependsOn(d)
  BY <1>1, <1>2, Zenon DEF DependsOn
<1>5. \A S : Cyclic(S)' <=> Cyclic(S)
  BY <1>4, Zenon DEF Cyclic
<1> QED
  BY <1>1, <1>2, <1>3, <1>4, <1>5, Zenon

\* The turn that a call of visit is in.
LEMMA CurrentTurn ==
    ASSUME registry \in Registries, NEW call, pending(call) # {}
    PROVE  LET n == Smallest(pending(call))
           IN  /\ n \in Turns /\ n \in Nat /\ call.next <= n /\ edge(n)[1] = call.node
               /\ edge(n)[2] \in DependsOn(call.node)
               /\ \A i \in pending(call) : n <= i
<1> DEFINE n == Smallest(pending(call))
<1>1. Turns \subseteq Nat
  <2>1. \A i : 1 .. i \subseteq Nat
    OBVIOUS
  <2> QED
    BY <2>1, Zenon DEF Turns
<1>2. pending(call) \subseteq Nat
  BY <1>1, Zenon DEF pending
<1>3. n \in pending(call) /\ \A i \in pending(call) : n <= i
  BY <1>2, SmallestIs, Zenon
<1> HIDE DEF n
<1>4. n \in Turns /\ call.next <= n /\ edge(n)[1] = call.node
  BY <1>3, Zenon DEF pending
<1>5. edge(n)[2] \in DependsOn(call.node)
  BY <1>4, Zenon DEF DependsOn
<1> QED
  BY <1>1, <1>3, <1>4, <1>5, Zenon DEF n

\* An array of different drivers has room in m_state.
LEMMA FewEnough ==
    ASSUME registry \in Registries, Accepted(registry), NEW s, IsSequence(s),
           \A k \in DOMAIN s : s[k] \in Names(registry), \A j, k \in DOMAIN s : s[j] = s[k] => j = k
    PROVE  Len(s) <= MaxDrivers
<1> DEFINE n == Len(s)
           L == Len(registry.drivers)
           f == [k \in 1 .. n |-> CHOOSE i \in 1 .. L : registry.drivers[i] = s[k]]
<1>1. n \in Nat /\ DOMAIN s = 1 .. n /\ L \in Nat /\ DOMAIN registry.drivers = 1 .. L
  BY SequenceDomain, Sections, Zenon
<1> HIDE DEF n, L
<1>2. ASSUME NEW k \in 1 .. n PROVE f[k] \in 1 .. L /\ registry.drivers[f[k]] = s[k]
  <2>1. \E i \in 1 .. L : registry.drivers[i] = s[k]
    BY <1>1, Zenon DEF Names
  <2> QED
    BY <2>1, Zenon
<1>3. f \in [1 .. n -> 1 .. L] /\ \A j, k \in 1 .. n : f[j] = f[k] => j = k
  <2>1. f \in [1 .. n -> 1 .. L]
    BY <1>2, Zenon
  <2>2. ASSUME NEW j \in 1 .. n, NEW k \in 1 .. n, f[j] = f[k] PROVE j = k
    <3> HIDE DEF f
    <3>1. s[j] = s[k]
      BY <1>2, <2>2, Zenon
    <3> QED
      BY <1>1, <3>1, Zenon
  <2> QED
    BY <2>1, <2>2, Zenon
<1> HIDE DEF f
<1>4. f \in Injection(1 .. n, 1 .. L)
  BY <1>3, Zenon DEF Injection, IsInjective
<1>5. Cardinality(1 .. n) <= Cardinality(1 .. L) /\ Cardinality(1 .. n) = n /\ Cardinality(1 .. L) = L
  <2>1. IsFiniteSet(1 .. L) /\ Cardinality(1 .. L) = L /\ Cardinality(1 .. n) = n
    BY <1>1, FS_Interval
  <2> QED
    BY <1>4, <2>1, FS_Injection, Zenon
<1> QED
  BY <1>1, <1>5, RegistriesAssumption DEF Accepted, n, L
-----------------------------------------------------------------------------
(***************************************************************************)
(* The calls of visit in progress.                                         *)
(***************************************************************************)

\* What a call of visit has behind it stays behind it while no mark and no record is lost.
LEMMA CallKept ==
    ASSUME registry' = registry, \A d : Visited(d) => Visited(d)',
           \A d, k : Recorded(d, k) => Recorded(d, k)', NEW call, CallInv(call)
    PROVE  CallInv(call)'
<1>1. /\ call \in [node : Names(registry), next : Nat, record : Nat]
      /\ \A n \in Turns : n < call.next /\ edge(n)[1] = call.node => Visited(edge(n)[2])
      /\ call.record > 0 => pending(call) = {}
      /\ \A k \in DOMAIN registry.provides :
           k < call.record /\ registry.provides[k][1] = call.node => Recorded(call.node, k)
  BY Zenon DEF CallInv
<1>2. \A n \in Turns' : n < call.next /\ edge(n)'[1] = call.node => Visited(edge(n)[2])'
  <2>1. ASSUME NEW n, Visited(edge(n)[2]) PROVE Visited(edge(n)[2])'
    <3> DEFINE e == edge(n)[2]
    <3>1. edge(n)' = edge(n)
      BY Steady, Zenon
    <3>2. e \in Names(registry)' /\ visit'[e] = "VISITED"
      BY <2>1, Zenon DEF Visited
    <3> QED
      BY <3>1, <3>2, Zenon DEF Visited
  <2> QED
    BY <1>1, <2>1, Steady, Zenon
<1> QED
  BY <1>1, <1>2, Steady, Zenon DEF CallInv

\* A call of visit goes on behind a turn whose driver is visited.
LEMMA TurnTaken ==
    ASSUME registry \in Registries, NEW call, CallInv(call), pending(call) # {},
           Visited(edge(Smallest(pending(call)))[2])
    PROVE  CallInv([call EXCEPT !.next = Smallest(pending(call)) + 1])
<1> DEFINE n == Smallest(pending(call))
           later == [call EXCEPT !.next = n + 1]
<1>1. /\ n \in Turns /\ n \in Nat /\ call.next <= n /\ edge(n)[1] = call.node
      /\ \A i \in pending(call) : n <= i
  BY CurrentTurn, Zenon
<1>2. Visited(edge(n)[2])
  BY Zenon
<1> HIDE DEF n
<1>3. /\ call \in [node : Names(registry), next : Nat, record : Nat]
      /\ \A i \in Turns : i < call.next /\ edge(i)[1] = call.node => Visited(edge(i)[2])
      /\ call.record > 0 => pending(call) = {}
      /\ \A k \in DOMAIN registry.provides :
           k < call.record /\ registry.provides[k][1] = call.node => Recorded(call.node, k)
  BY Zenon DEF CallInv
<1>4. /\ later \in [node : Names(registry), next : Nat, record : Nat]
      /\ later.node = call.node /\ later.next = n + 1 /\ later.record = call.record
  BY <1>1, <1>3
<1> HIDE DEF later
<1>5. ASSUME NEW i \in Turns, i < n + 1, edge(i)[1] = call.node PROVE Visited(edge(i)[2])
  <2>1. i \in Nat /\ call.next \in Nat
    <3>1. \A k : 1 .. k \subseteq Nat
      OBVIOUS
    <3> QED
      BY <1>3, <3>1, Zenon DEF Turns
  <2>2. CASE i < call.next
    BY <1>3, <1>5, <2>2, Zenon
  <2>3. CASE ~ (i < call.next)
    <3>1. i \in pending(call)
      BY <1>5, <2>1, <2>3 DEF pending
    <3>2. i = n
      BY <1>1, <1>5, <2>1, <3>1
    <3> QED
      BY <1>2, <3>2, Zenon
  <2> QED
    BY <2>2, <2>3, Zenon
<1>6. CallInv(later)
  BY <1>3, <1>4, <1>5, Zenon DEF CallInv
<1> QED
  BY <1>6, Zenon DEF later, n

LEMMA TurnsTaken ==
    \A call : /\ registry \in Registries /\ CallInv(call) /\ pending(call) # {}
              /\ Visited(edge(Smallest(pending(call)))[2])
              => CallInv([call EXCEPT !.next = Smallest(pending(call)) + 1])
BY TurnTaken, Zenon

\* A call of visit at its beginning has nothing behind it.
LEMMA CallBegins ==
    ASSUME registry \in Registries, NEW d \in Names(registry)
    PROVE  CallInv(Call(d))
<1>1. /\ Call(d) \in [node : Names(registry), next : Nat, record : Nat]
      /\ Call(d).next = 1 /\ Call(d).record = 0
  BY Zenon DEF Call
<1>2. Turns \subseteq Nat \ {0} /\ DOMAIN registry.provides \subseteq Nat \ {0}
  <2>1. \A i : 1 .. i \subseteq Nat \ {0}
    OBVIOUS
  <2> QED
    BY <2>1, Sections, Zenon DEF Turns
<1>3. ~ (Call(d).record > 0)
  BY <1>1
<1>4. (\A n \in Turns : ~ (n < Call(d).next)) /\ \A k \in DOMAIN registry.provides : ~ (k < Call(d).record)
  BY <1>1, <1>2
<1> QED
  BY <1>1, <1>3, <1>4, Zenon DEF CallInv

\* Resume changes the last call only.
LEMMA ResumeIs ==
    ASSUME NEW calls, IsSequence(calls)
    PROVE  /\ IsSequence(Resume(calls)) /\ Len(Resume(calls)) = Len(calls)
           /\ \A k \in 1 .. Len(calls) - 1 : Resume(calls)[k] = calls[k]
           /\ Len(calls) # 0 => Resume(calls)[Len(calls)]
                = [calls[Len(calls)] EXCEPT !.next = Smallest(pending(calls[Len(calls)])) + 1]
<1>1. Len(calls) \in Nat /\ DOMAIN calls = 1 .. Len(calls)
  BY SequenceDomain, Zenon
<1>2. Resume(calls) = [k \in 1 .. Len(calls) |->
                         IF k = Len(calls) THEN [calls[k] EXCEPT !.next = Smallest(pending(calls[k])) + 1]
                         ELSE calls[k]]
  BY <1>1, Zenon DEF Resume
<1>3. Resume(calls) = [k \in 1 .. Len(calls) |-> Resume(calls)[k]]
  BY <1>2, Zenon
<1>4. IsSequence(Resume(calls)) /\ Len(Resume(calls)) = Len(calls)
  BY <1>1, <1>3, FunctionIsSequence, Zenon
<1>5. \A L \in Nat : (\A k \in 1 .. L - 1 : k \in 1 .. L /\ k # L) /\ (L # 0 => L \in 1 .. L)
  OBVIOUS
<1>6. ASSUME NEW k \in 1 .. Len(calls) - 1 PROVE Resume(calls)[k] = calls[k]
  <2>1. k \in 1 .. Len(calls) /\ k # Len(calls)
    BY <1>1, <1>5, Zenon
  <2> QED
    BY <1>2, <2>1, Zenon
<1>7. ASSUME Len(calls) # 0
      PROVE  Resume(calls)[Len(calls)]
               = [calls[Len(calls)] EXCEPT !.next = Smallest(pending(calls[Len(calls)])) + 1]
  <2>1. Len(calls) \in 1 .. Len(calls)
    BY <1>1, <1>5, <1>7, Zenon
  <2> QED
    BY <1>2, <2>1, Zenon
<1> QED
  BY <1>4, <1>6, <1>7, Zenon

\* The calls below the last one.
LEMMA BelowIs ==
    ASSUME IsSequence(stack), stack # <<>>
    PROVE  /\ IsSequence(Below) /\ Len(Below) = Len(stack) - 1 /\ Len(stack) \in Nat \ {0}
           /\ \A k \in 1 .. Len(stack) - 1 : Below[k] = stack[k]
<1> DEFINE T == {stack[k] : k \in DOMAIN stack}
<1>1. stack \in Seq(T)
  BY Zenon DEF IsSequence
<1>2. Len(stack) \in Nat \ {0} /\ DOMAIN stack = 1 .. Len(stack)
  BY SequenceDomain, Zenon
<1> HIDE DEF T
<1>3. /\ Below \in Seq(T) /\ Len(Below) = Len(stack) - 1
      /\ \A k \in 1 .. Len(stack) - 1 : Below[k] = stack[k]
  BY <1>1, <1>2 DEF Below
<1> QED
  BY <1>2, <1>3, InSeq, Zenon

\* The call on top, and the driver that it is for.
LEMMA TopIs ==
    ASSUME StackInv, stack # <<>>
    PROVE  /\ Len(stack) \in Nat \ {0} /\ DOMAIN stack = 1 .. Len(stack) /\ Len(stack) \in DOMAIN stack
           /\ CallInv(Top) /\ Top.node \in Names(registry) /\ visit[Top.node] = "VISITING"
<1>1. /\ Len(stack) \in Nat \ {0} /\ DOMAIN stack = 1 .. Len(stack)
  BY SequenceDomain, Zenon DEF StackInv
<1>2. Len(stack) \in DOMAIN stack
  BY <1>1
<1>3. CallInv(Top)
  BY <1>2, Zenon DEF StackInv, Calls, Top
<1>4. Top.node \in Names(registry)
  BY <1>3, Zenon DEF CallInv
<1> QED
  BY <1>1, <1>2, <1>3, <1>4, Zenon DEF StackInv, Calls, Top

\* A call of visit makes progress: all others stay as they are.
LEMMA StackReplaced ==
    ASSUME StackInv, stack # <<>>, registry' = registry, op' = op, visit' = visit,
           \A d, k : Recorded(d, k) => Recorded(d, k)',
           NEW call, CallInv(call)', call.node = Top.node,
           IsSequence(stack'), Len(stack') = Len(stack),
           \A k \in 1 .. Len(stack) - 1 : stack'[k] = stack[k], stack'[Len(stack)] = call
    PROVE  StackInv'
<1> PICK L : L = Len(stack)
  BY Zenon
<1>0. Calls(1 .. L)
  <2>1. DOMAIN stack = 1 .. L
    BY SequenceDomain, Zenon DEF StackInv
  <2> QED
    BY <2>1, Zenon DEF StackInv
<1>1. /\ L \in Nat \ {0} /\ DOMAIN stack = 1 .. L /\ DOMAIN stack' = 1 .. L
  BY TopIs, SequenceDomain, Zenon
<1>11. \A k \in 1 .. L : (k \in 1 .. L - 1 \/ k = L) /\ (k + 1 \in 1 .. L => k \in 1 .. L - 1)
  <2>1. L \in Nat
    BY <1>1, Zenon
  <2> QED
    BY <2>1
<1>2. /\ \A k \in 1 .. L - 1 : stack'[k] = stack[k]
      /\ stack'[L] = call /\ stack[L].node = call.node
  BY Zenon DEF Top
<1>3. \A k \in 1 .. L : stack'[k].node = stack[k].node
  BY <1>2, <1>11, Zenon
<1>4. \A d : Visited(d) => Visited(d)'
  BY Zenon DEF Visited
<1>5. ASSUME NEW k \in 1 .. L PROVE CallInv(stack[k])'
  <2>1. CASE k \in 1 .. L - 1
    <3>0. CallInv(stack[k])
      BY <1>0, Zenon DEF Calls
    <3>1. PICK c : c = stack[k] /\ c = stack'[k]
      BY <1>2, <2>1, Zenon
    <3>2. CallInv(c)
      BY <3>0, <3>1, Zenon
    <3>3. CallInv(c)'
      BY <1>4, <3>2, CallKept, Zenon
    <3> QED
      BY <3>1, <3>3, Zenon
  <2>2. CASE k = L
    BY <1>2, <2>2, Zenon
  <2> QED
    BY <1>11, <2>1, <2>2, Zenon
<1>6. ASSUME NEW k \in 1 .. L, k + 1 \in 1 .. L
      PROVE  pending(stack[k])' # {} /\ edge(Smallest(pending(stack[k])))'[2] = stack'[k + 1].node
  <2>0. pending(stack[k]) # {} /\ edge(Smallest(pending(stack[k])))[2] = stack[k + 1].node
    BY <1>0, <1>6, Zenon DEF Calls
  <2>1. k \in 1 .. L - 1
    BY <1>6, <1>11, Zenon
  <2>2. PICK c : c = stack[k] /\ c = stack'[k]
    BY <1>2, <2>1, Zenon
  <2>3. pending(c) # {} /\ edge(Smallest(pending(c)))[2] = stack[k + 1].node
    BY <2>0, <2>2, Zenon
  <2>4. pending(c)' = pending(c) /\ edge(Smallest(pending(c)))' = edge(Smallest(pending(c)))
    BY Steady, Zenon
  <2> QED
    BY <1>3, <1>6, <2>2, <2>3, <2>4, Zenon
<1>7. \A j, k \in 1 .. L : stack'[j].node = stack'[k].node => j = k
  BY <1>0, <1>3, Steady, Zenon DEF Calls
<1>8. \A d \in Names(registry)' : visit'[d] = "VISITING" <=> \E k \in 1 .. L : stack'[k].node = d
  <2>1. \A d \in Names(registry) : visit[d] = "VISITING" <=> \E k \in 1 .. L : stack[k].node = d
    BY <1>0, Zenon DEF Calls
  <2>2. \A d : (\E k \in 1 .. L : stack'[k].node = d) <=> \E k \in 1 .. L : stack[k].node = d
    BY <1>3, Zenon
  <2> QED
    BY <2>1, <2>2, Steady, Zenon
<1>9. op'.kind = "init"
  BY Zenon DEF StackInv
<1>10. Calls(1 .. L)'
  BY <1>5, <1>6, <1>7, <1>8, Zenon DEF Calls
<1> QED
  BY <1>1, <1>9, <1>10, Zenon DEF StackInv

\* visit enters a driver that has not been visited.
LEMMA StackPushed ==
    ASSUME StackInv, registry \in Registries, registry' = registry, op' = op, op.kind = "init",
           capabilities' = capabilities, NEW d \in Names(registry), visit[d] = "NOT_VISITED",
           DOMAIN visit = Names(registry), visit' = [visit EXCEPT ![d] = "VISITING"],
           stack' = Append(stack, Call(d)),
           stack # <<>> => pending(Top) # {} /\ edge(Smallest(pending(Top)))[2] = d
    PROVE  StackInv' /\ \A e : Visited(e)' <=> Visited(e)
<1> PICK L : L = Len(stack)
  BY Zenon
<1>0. Calls(1 .. L)
  <2>1. DOMAIN stack = 1 .. L
    BY SequenceDomain, Zenon DEF StackInv
  <2> QED
    BY <2>1, Zenon DEF StackInv
<1>1. /\ L \in Nat /\ DOMAIN stack = 1 .. L /\ DOMAIN stack' = 1 .. L + 1 /\ IsSequence(stack')
      /\ \A k \in 1 .. L : stack'[k] = stack[k]
      /\ stack'[L + 1] = Call(d)
  BY SequenceDomain, Appended DEF StackInv
<1>2. stack # <<>> => L \in 1 .. L /\ Top = stack[L]
  BY TopIs, Zenon DEF Top
<1>3. \A k \in 1 .. L + 1 : k \in 1 .. L \/ k = L + 1
  BY <1>1
<1>4. \A e : Visited(e)' <=> Visited(e)
  BY Zenon DEF Visited
<1>5. \A e, k : Recorded(e, k) => Recorded(e, k)'
  BY Zenon DEF Recorded
<1>6. ASSUME NEW k \in 1 .. L + 1 PROVE CallInv(stack[k])'
  <2>1. PICK c : c = stack'[k] /\ (k \in 1 .. L => c = stack[k])
    BY <1>1, Zenon
  <2>2. CallInv(c)
    <3>1. CASE k \in 1 .. L
      BY <1>0, <2>1, <3>1, Zenon DEF Calls
    <3>2. CASE k = L + 1
      BY <1>1, <2>1, <3>2, CallBegins, Zenon
    <3> QED
      BY <1>3, <3>1, <3>2, Zenon
  <2>3. CallInv(c)'
    BY <1>4, <1>5, <2>2, CallKept, Zenon
  <2> QED
    BY <2>1, <2>3, Zenon
<1>7. ASSUME NEW k \in 1 .. L + 1, k + 1 \in 1 .. L + 1
      PROVE  pending(stack[k])' # {} /\ edge(Smallest(pending(stack[k])))'[2] = stack'[k + 1].node
  <2>1. k \in 1 .. L /\ (k + 1 \in 1 .. L \/ k = L)
    BY <1>1, <1>7
  <2>2. PICK c : c = stack[k] /\ c = stack'[k]
    BY <1>1, <2>1, Zenon
  <2>3. pending(c) # {} /\ edge(Smallest(pending(c)))[2] = stack'[k + 1].node
    <3>1. CASE k + 1 \in 1 .. L
      <4>1. pending(stack[k]) # {} /\ edge(Smallest(pending(stack[k])))[2] = stack[k + 1].node
        BY <1>0, <2>1, <3>1, Zenon DEF Calls
      <4> QED
        BY <1>1, <2>2, <3>1, <4>1, Zenon
    <3>2. CASE k = L
      <4>1. stack # <<>>
        BY <1>1, <2>1, <3>2
      <4>2. stack'[k + 1].node = d
        BY <1>1, <3>2 DEF Call
      <4> QED
        BY <1>2, <2>2, <3>2, <4>1, <4>2, Zenon
    <3> QED
      BY <2>1, <3>1, <3>2, Zenon
  <2>4. pending(c)' = pending(c) /\ edge(Smallest(pending(c)))' = edge(Smallest(pending(c)))
    BY Steady, Zenon
  <2> QED
    BY <2>2, <2>3, <2>4, Zenon
<1>8. ~ \E k \in 1 .. L : stack[k].node = d
  <2>1. visit[d] # "VISITING"
    BY Zenon
  <2> QED
    BY <1>0, <2>1, Zenon DEF Calls
<1>9. stack'[L + 1].node = d
  BY <1>1 DEF Call
<1>10. \A j, k \in 1 .. L + 1 : stack'[j].node = stack'[k].node => j = k
  <2>1. \A j, k \in 1 .. L : stack[j].node = stack[k].node => j = k
    BY <1>0, Zenon DEF Calls
  <2> QED
    BY <1>1, <1>3, <1>8, <1>9, <2>1
<1>11. \A e \in Names(registry)' : visit'[e] = "VISITING" <=> \E k \in 1 .. L + 1 : stack'[k].node = e
  <2>1. \A e \in Names(registry) : visit[e] = "VISITING" <=> \E k \in 1 .. L : stack[k].node = e
    BY <1>0, Zenon DEF Calls
  <2>2. \A e \in Names(registry) : visit'[e] = "VISITING" <=> (e = d \/ visit[e] = "VISITING")
    BY Zenon
  <2>3. 1 .. L \subseteq 1 .. L + 1 /\ L + 1 \in 1 .. L + 1
    BY <1>1
  <2>4. \A e : (\E k \in 1 .. L + 1 : stack'[k].node = e) <=> (e = d \/ \E k \in 1 .. L : stack[k].node = e)
    BY <1>1, <1>3, <1>9, <2>3, Zenon
  <2>5. Names(registry)' = Names(registry)
    BY Steady, Zenon
  <2> QED
    BY <2>1, <2>2, <2>4, <2>5
<1>12. Calls(1 .. L + 1)'
  BY <1>6, <1>7, <1>10, <1>11, Zenon DEF Calls
<1> QED
  BY <1>1, <1>4, <1>12, Zenon DEF StackInv

\* The driver of the call on top is up, and the call below goes on behind it.
LEMMA StackPopped ==
    ASSUME StackInv, stack # <<>>, registry \in Registries, registry' = registry, op' = op,
           capabilities' = capabilities, DOMAIN visit = Names(registry),
           visit' = [visit EXCEPT ![Top.node] = "VISITED"], stack' = Resume(Below)
    PROVE  StackInv' /\ \A e : Visited(e)' <=> (Visited(e) \/ e = Top.node)
<1> PICK L : L = Len(stack)
  BY Zenon
<1> PICK d : d = Top.node
  BY Zenon
<1>0. Calls(1 .. L) /\ stack[L].node = d /\ d \in Names(registry) /\ op.kind = "init"
  <2>1. DOMAIN stack = 1 .. L
    BY SequenceDomain, Zenon DEF StackInv
  <2> QED
    BY <2>1, TopIs, Zenon DEF StackInv, Top
<1>1. /\ L \in Nat \ {0} /\ IsSequence(Below) /\ Len(Below) = L - 1
      /\ \A k \in 1 .. L - 1 : Below[k] = stack[k]
  BY BelowIs, Zenon DEF StackInv
<1>2. \A k \in 1 .. L - 1 : /\ k \in 1 .. L /\ k # L /\ k + 1 \in 1 .. L
                            /\ k \in 1 .. L - 2 \/ k = L - 1
                            /\ k + 1 \in 1 .. L - 1 => k \in 1 .. L - 2
  <2>1. L \in Nat \ {0}
    BY <1>1, Zenon
  <2> QED
    BY <2>1
<1>3. /\ IsSequence(stack') /\ DOMAIN stack' = 1 .. L - 1
      /\ \A k \in 1 .. L - 2 : stack'[k] = stack[k]
      /\ L - 1 # 0 => stack'[L - 1] = [stack[L - 1] EXCEPT !.next = Smallest(pending(stack[L - 1])) + 1]
  <2>1. /\ IsSequence(stack') /\ Len(stack') = L - 1
        /\ \A k \in 1 .. (L - 1) - 1 : stack'[k] = Below[k]
        /\ L - 1 # 0 => stack'[L - 1] = [Below[L - 1] EXCEPT !.next = Smallest(pending(Below[L - 1])) + 1]
    <3> PICK calls : calls = Below
      BY Zenon
    <3>1. IsSequence(calls) /\ Len(calls) = L - 1 /\ stack' = Resume(calls)
      BY <1>1, Zenon
    <3>2. /\ IsSequence(Resume(calls)) /\ Len(Resume(calls)) = Len(calls)
          /\ \A k \in 1 .. Len(calls) - 1 : Resume(calls)[k] = calls[k]
          /\ Len(calls) # 0 => Resume(calls)[Len(calls)]
               = [calls[Len(calls)] EXCEPT !.next = Smallest(pending(calls[Len(calls)])) + 1]
      BY <3>1, ResumeIs
    <3> QED
      BY <3>1, <3>2, Zenon
  <2>2. DOMAIN stack' = 1 .. L - 1
    BY <2>1, SequenceDomain, Zenon
  <2>3. L - 1 # 0 => L - 1 \in 1 .. L - 1
    BY <1>1
  <2>4. \A k \in 1 .. L - 2 : k \in 1 .. (L - 1) - 1 /\ k \in 1 .. L - 1
    BY <1>1
  <2> QED
    BY <1>1, <2>1, <2>2, <2>3, <2>4, Zenon
<1>4. \A e : Visited(e)' <=> (Visited(e) \/ e = d)
  BY <1>0, Zenon DEF Visited
<1>5. \A e, k : Recorded(e, k) => Recorded(e, k)'
  BY Zenon DEF Recorded
<1>6. ASSUME NEW k \in 1 .. L - 1 PROVE CallInv(stack[k])' /\ stack'[k].node = stack[k].node
  <2>1. CallInv(stack[k])
    BY <1>0, <1>2, Zenon DEF Calls
  <2>2. PICK c : c = stack[k]
    BY Zenon
  <2>3. CallInv(c)'
    BY <1>4, <1>5, <2>1, <2>2, CallKept, Zenon
  <2>4. CASE k \in 1 .. L - 2
    <3>1. stack'[k] = c
      BY <1>3, <2>2, <2>4, Zenon
    <3> QED
      BY <2>2, <2>3, <3>1, Zenon
  <2>5. CASE k = L - 1
    <3>1. pending(stack[k]) # {} /\ edge(Smallest(pending(stack[k])))[2] = stack[k + 1].node /\ k + 1 = L
      <4>1. k + 1 \in 1 .. L /\ k \in 1 .. L
        BY <1>2, Zenon
      <4>2. pending(stack[k]) # {} /\ edge(Smallest(pending(stack[k])))[2] = stack[k + 1].node
        BY <1>0, <4>1, Zenon DEF Calls
      <4> QED
        BY <1>1, <2>5, <4>2
    <3>2. PICK n : n = Smallest(pending(c)) /\ pending(c) # {} /\ edge(n)[2] = d
      BY <1>0, <2>2, <3>1, Zenon
    <3>3. stack'[k] = [c EXCEPT !.next = n + 1]
      BY <1>1, <1>3, <2>2, <2>5, <3>2
    <3>4. pending(c)' = pending(c) /\ edge(n)' = edge(n)
      BY Steady, Zenon
    <3>5. Visited(edge(n)[2])'
      BY <1>4, <3>2, <3>4, Zenon DEF Visited
    <3>6. Smallest(pending(c))' = n
      BY <3>2, <3>4, Zenon
    <3>7. CallInv([c EXCEPT !.next = n + 1])'
      <4>1. (\A call : /\ registry \in Registries /\ CallInv(call) /\ pending(call) # {}
                       /\ Visited(edge(Smallest(pending(call)))[2])
                       => CallInv([call EXCEPT !.next = Smallest(pending(call)) + 1]))'
        BY TurnsTaken, PTL
      <4> QED
        BY <2>3, <3>2, <3>4, <3>5, <3>6, <4>1, Zenon
    <3>8. c \in [node : Names(registry), next : Nat, record : Nat]
      BY <2>1, <2>2, Zenon DEF CallInv
    <3>9. [c EXCEPT !.next = n + 1].node = c.node
      BY <3>8, Zenon
    <3> QED
      BY <2>2, <3>3, <3>7, <3>9, Zenon
  <2> QED
    BY <1>2, <2>4, <2>5, Zenon
<1>7. ASSUME NEW k \in 1 .. L - 1, k + 1 \in 1 .. L - 1
      PROVE  pending(stack[k])' # {} /\ edge(Smallest(pending(stack[k])))'[2] = stack'[k + 1].node
  <2>1. k \in 1 .. L - 2 /\ k \in 1 .. L /\ k + 1 \in 1 .. L
    BY <1>2, <1>7, Zenon
  <2>2. pending(stack[k]) # {} /\ edge(Smallest(pending(stack[k])))[2] = stack[k + 1].node
    BY <1>0, <2>1, Zenon DEF Calls
  <2>3. PICK c : c = stack[k] /\ c = stack'[k]
    BY <1>3, <2>1, Zenon
  <2>4. pending(c)' = pending(c) /\ edge(Smallest(pending(c)))' = edge(Smallest(pending(c)))
    BY Steady, Zenon
  <2>5. stack'[k + 1].node = stack[k + 1].node
    BY <1>6, <1>7, Zenon
  <2> QED
    BY <2>2, <2>3, <2>4, <2>5, Zenon
<1>8. \A j, k \in 1 .. L : stack[j].node = stack[k].node => j = k
  BY <1>0, Zenon DEF Calls
<1>9. \A j, k \in 1 .. L - 1 : stack'[j].node = stack'[k].node => j = k
  BY <1>2, <1>6, <1>8
<1>10. \A e \in Names(registry)' : visit'[e] = "VISITING" <=> \E k \in 1 .. L - 1 : stack'[k].node = e
  <2>1. \A e \in Names(registry) : visit[e] = "VISITING" <=> \E k \in 1 .. L : stack[k].node = e
    BY <1>0, Zenon DEF Calls
  <2>2. \A e \in Names(registry) : visit'[e] = "VISITING" <=> (e # d /\ visit[e] = "VISITING")
    BY Zenon
  <2>3. \A k \in 1 .. L : k \in 1 .. L - 1 \/ k = L
    BY <1>1
  <2>4. L \in 1 .. L
    BY <1>1
  <2>5. \A k \in 1 .. L - 1 : stack[k].node # d
    BY <1>0, <1>2, <1>8, <2>4, Zenon
  <2>6. \A e : (\E k \in 1 .. L - 1 : stack'[k].node = e) <=> (e # d /\ \E k \in 1 .. L : stack[k].node = e)
    BY <1>0, <1>2, <1>6, <2>3, <2>5, Zenon
  <2> QED
    BY <2>1, <2>2, <2>6, Steady, Zenon
<1>11. Calls(1 .. L - 1)'
  BY <1>6, <1>7, <1>9, <1>10, Zenon DEF Calls
<1> QED
  BY <1>0, <1>3, <1>4, <1>11, Zenon DEF StackInv

\* An error returns through all calls of visit and leaves no mark of them.
LEMMA StackUnwound ==
    ASSUME StackInv, registry' = registry, DOMAIN visit = Names(registry), NEW error, Unwind(error)
    PROVE  StackInv' /\ \A e : Visited(e)' <=> Visited(e)
<1>1. visit' = [e \in Names(registry) |->
                  IF \E k \in DOMAIN stack : stack[k].node = e THEN "NOT_VISITED" ELSE visit[e]]
  BY Zenon DEF Unwind
<1>2. \A e \in Names(registry) : visit[e] = "VISITING" <=> \E k \in DOMAIN stack : stack[k].node = e
  BY Zenon DEF StackInv, Calls
<1>3. \A e : Visited(e)' <=> Visited(e)
  BY <1>1, <1>2, Zenon DEF Visited
<1>4. \A e \in Names(registry)' : visit'[e] # "VISITING"
  BY <1>1, <1>2, Zenon
<1>5. stack' = <<>>
  BY Zenon DEF Unwind
<1>6. IsSequence(stack)' /\ DOMAIN stack' = {}
  BY <1>5 DEF IsSequence
<1>7. Calls({})'
  BY <1>4, Zenon DEF Calls
<1> QED
  BY <1>3, <1>5, <1>6, <1>7, Zenon DEF StackInv
-----------------------------------------------------------------------------
(***************************************************************************)
(* The steps of init_all and exit_all keep the invariant.                  *)
(***************************************************************************)

\* Parts of the invariant that only the registry, the order or the answer can disturb.
LEMMA OrderKept ==
    ASSUME OrderInv, registry' = registry, order' = order
    PROVE  OrderInv'
<1>1. \A k \in DOMAIN order : DependsOn(order[k])' = DependsOn(order[k])
  <2> SUFFICES ASSUME NEW k \in DOMAIN order PROVE DependsOn(order[k])' = DependsOn(order[k])
    BY Zenon
  <2>1. PICK d : d = order[k]
    BY Zenon
  <2>2. DependsOn(d)' = DependsOn(d)
    BY Steady, Zenon
  <2> QED
    BY <2>1, <2>2, Zenon
<1>2. /\ IsSequence(order)
      /\ \A k \in DOMAIN order : DependsOn(order[k]) \subseteq {order[j] : j \in 1 .. k - 1}
  BY Zenon DEF OrderInv
<1>3. \A k \in DOMAIN order' : DependsOn(order[k])' \subseteq {order'[j] : j \in 1 .. k - 1}
  BY <1>1, <1>2
<1> QED
  BY <1>2, <1>3, Zenon DEF OrderInv

LEMMA CycleKept ==
    ASSUME CycleIsReal, registry' = registry, answer' = answer \/ answer' # "DEPENDENCY_CYCLE"
    PROVE  CycleIsReal'
BY Steady, Zenon DEF CycleIsReal

LEMMA RecordsKept ==
    ASSUME UpInv, registry' = registry, initialized' = initialized, exited' = exited,
           \A d, k : Recorded(d, k) => Recorded(d, k)', \A d : Visited(d)' <=> Visited(d)
    PROVE  UpInv'
<1>1. ASSUME NEW k \in DOMAIN registry.provides, ~exited, registry.provides[k][1] \in initialized
      PROVE  Recorded(registry.provides[k][1], k)'
  <2>1. PICK d : d = registry.provides[k][1]
    BY Zenon
  <2>2. Recorded(d, k)
    BY <1>1, <2>1, Zenon DEF UpInv
  <2>3. Recorded(d, k)'
    BY <2>2, Zenon
  <2> QED
    BY <2>1, <2>3, Zenon
<1>2. ~exited => \A d \in Names(registry) : Visited(d) <=> d \in initialized
  BY Zenon DEF UpInv
<1> QED
  BY <1>1, <1>2, Steady, Zenon DEF UpInv

LEMMA StackTypes ==
    StackInv => \A k \in DOMAIN stack : stack[k] \in [node : Names(registry), next : Nat, record : Nat]
BY Zenon DEF StackInv, Calls, CallInv

\* A step of visit that leaves the drivers that are up as they are.
LEMMA InnerKeeps ==
    ASSUME IInv, op.kind = "init",
           UNCHANGED <<registry, built, initialized_all, initialized, order, op, answer, exited>>,
           StackInv', visit' \in [Names(registry) -> {"NOT_VISITED", "VISITING", "VISITED"}],
           IsSequence(capabilities'), Len(capabilities') <= MaxCapabilities,
           \A c \in DOMAIN capabilities' : capabilities'[c][1] \in Names(registry),
           \A d, k : Recorded(d, k) => Recorded(d, k)', \A d : Visited(d)' <=> Visited(d)
    PROVE  IInv'
<1>1. Names(registry)' = Names(registry)
  BY Steady, Zenon
<1>2. TypeOK'
  <2>1. (StackInv => \A k \in DOMAIN stack : stack[k] \in [node : Names(registry), next : Nat, record : Nat])'
    BY StackTypes, PTL
  <2>2. /\ initialized' \subseteq Names(registry) /\ Len(order') <= MaxDrivers
        /\ \A k \in DOMAIN order' : order'[k] \in Names(registry)
        /\ op' \in [kind : {"idle", "init", "exit"}, at : Nat]
    BY Zenon DEF IInv, OrderSound, TypeOK
  <2> QED
    BY <1>1, <2>1, <2>2, Zenon DEF TypeOK
<1>3. OrderListsInitialized'
  BY Zenon DEF IInv, OrderSound, OrderListsInitialized
<1>4. OrderInv' /\ CycleIsReal' /\ UpInv'
  BY OrderKept, CycleKept, RecordsKept, Zenon DEF IInv
<1>5. CallsInv'
  <2>1. \A k \in DOMAIN registry.drivers : k < op.at => Visited(registry.drivers[k])'
    <3> SUFFICES ASSUME NEW k \in DOMAIN registry.drivers, k < op.at PROVE Visited(registry.drivers[k])'
      BY Zenon
    <3>1. PICK d : d = registry.drivers[k]
      BY Zenon
    <3>2. Visited(d)'
      BY <3>1, Zenon DEF IInv, CallsInv
    <3> QED
      BY <3>1, <3>2, Zenon
  <2> QED
    BY <1>1, <2>1, Zenon DEF IInv, CallsInv
<1> QED
  BY <1>2, <1>3, <1>4, <1>5, Zenon DEF IInv, OrderSound

\* A step of visit that fails.
LEMMA UnwindKeeps ==
    ASSUME IInv, op.kind = "init", NEW error, Unwind(error),
           UNCHANGED <<registry, built, initialized_all, initialized, order, capabilities, exited>>,
           error = "DEPENDENCY_CYCLE" => \E S \in SUBSET Names(registry) : Cyclic(S)
    PROVE  IInv'
<1>1. Names(registry)' = Names(registry) /\ DOMAIN visit = Names(registry)
  BY Steady, Zenon DEF IInv, OrderSound, TypeOK
<1>2. StackInv' /\ \A e : Visited(e)' <=> Visited(e)
  BY <1>1, StackUnwound, Zenon DEF IInv
<1>3. op' = Idle /\ stack' = <<>> /\ answer' = error
  BY Zenon DEF Unwind
<1>4. visit' \in [Names(registry) -> {"NOT_VISITED", "VISITING", "VISITED"}]
  <2>1. visit' = [e \in Names(registry) |->
                    IF \E k \in DOMAIN stack : stack[k].node = e THEN "NOT_VISITED" ELSE visit[e]]
    BY <1>1, Zenon DEF Unwind
  <2>2. visit \in [Names(registry) -> {"NOT_VISITED", "VISITING", "VISITED"}]
    BY Zenon DEF IInv, OrderSound, TypeOK
  <2> QED
    BY <2>1, <2>2, Zenon
<1>5. Idle \in [kind : {"idle", "init", "exit"}, at : Nat] /\ Idle.kind = "idle"
  BY Zenon DEF Idle
<1>6. TypeOK'
  <2>1. (StackInv => \A k \in DOMAIN stack : stack[k] \in [node : Names(registry), next : Nat, record : Nat])'
    BY StackTypes, PTL
  <2>2. /\ initialized' \subseteq Names(registry) /\ Len(order') <= MaxDrivers
        /\ Len(capabilities') <= MaxCapabilities
        /\ \A k \in DOMAIN order' : order'[k] \in Names(registry)
    BY Zenon DEF IInv, OrderSound, TypeOK
  <2> QED
    BY <1>1, <1>2, <1>3, <1>4, <1>5, <2>1, <2>2, Zenon DEF TypeOK
<1>7. OrderListsInitialized'
  BY <1>3, <1>5, Zenon DEF IInv, OrderSound, OrderListsInitialized
<1>8. OrderInv' /\ UpInv'
  <2>1. \A d, k : Recorded(d, k) => Recorded(d, k)'
    BY Zenon DEF Recorded
  <2> QED
    BY <1>2, <2>1, OrderKept, RecordsKept, Zenon DEF IInv
<1>9. CallsInv'
  BY <1>1, <1>3, <1>5, Zenon DEF IInv, CallsInv
<1>10. CycleIsReal'
  BY <1>3, Steady, Zenon DEF CycleIsReal
<1> QED
  BY <1>2, <1>6, <1>7, <1>8, <1>9, <1>10, Zenon DEF IInv, OrderSound

\* A driver that is being visited when it is needed: the calls from it on make a cycle.
LEMMA CycleFound ==
    ASSUME registry \in Registries, StackInv, stack # <<>>, pending(Top) # {}, NEW d \in Names(registry),
           d = edge(Smallest(pending(Top)))[2], visit[d] = "VISITING"
    PROVE  \E S \in SUBSET Names(registry) : Cyclic(S)
<1> PICK L : L = Len(stack)
  BY Zenon
<1>0. Calls(1 .. L) /\ L \in Nat \ {0} /\ Top = stack[L]
  BY TopIs, Zenon DEF StackInv, Top
<1>1. PICK j \in 1 .. L : stack[j].node = d
  BY <1>0, Zenon DEF Calls
<1> DEFINE S == {stack[k].node : k \in j .. L}
<1>2. \A k \in j .. L : k \in 1 .. L /\ (k = L \/ (k + 1 \in 1 .. L /\ k + 1 \in j .. L))
  <2>1. L \in Nat /\ j \in Nat /\ 1 <= j
    BY <1>0
  <2> QED
    BY <2>1
<1>3. j \in j .. L
  BY <1>0
<1>4. \A k \in 1 .. L : stack[k].node \in Names(registry)
  BY <1>0, Zenon DEF Calls, CallInv
<1>5. S \in SUBSET Names(registry) /\ d \in S
  BY <1>1, <1>2, <1>3, <1>4, Zenon
<1>6. ASSUME NEW e \in S PROVE DependsOn(e) \cap S # {}
  <2>1. PICK k \in j .. L : e = stack[k].node
    BY Zenon
  <2>2. CASE k = L
    <3>1. d \in DependsOn(e)
      BY <1>0, <2>1, <2>2, CurrentTurn, Zenon
    <3> QED
      BY <1>5, <3>1, Zenon
  <2>3. CASE k + 1 \in 1 .. L /\ k + 1 \in j .. L
    <3>1. pending(stack[k]) # {} /\ edge(Smallest(pending(stack[k])))[2] = stack[k + 1].node
      BY <1>0, <1>2, <2>3, Zenon DEF Calls
    <3>2. stack[k + 1].node \in DependsOn(e)
      BY <2>1, <3>1, CurrentTurn, Zenon
    <3>3. stack[k + 1].node \in S
      BY <2>3, Zenon
    <3> HIDE DEF S
    <3> QED
      BY <3>2, <3>3, Zenon
  <2> QED
    BY <1>2, <2>2, <2>3, Zenon
<1> HIDE DEF S
<1>7. Cyclic(S)
  BY <1>5, <1>6, Zenon DEF Cyclic
<1> QED
  BY <1>5, <1>7, Zenon

\* visit enters a driver that has not been visited: no driver comes up by that.
LEMMA PushKeeps ==
    ASSUME IInv, op.kind = "init", NEW d \in Names(registry), visit[d] = "NOT_VISITED",
           visit' = [visit EXCEPT ![d] = "VISITING"], stack' = Append(stack, Call(d)),
           UNCHANGED <<registry, built, initialized_all, initialized, order, capabilities, op, answer, exited>>,
           stack # <<>> => pending(Top) # {} /\ edge(Smallest(pending(Top)))[2] = d
    PROVE  IInv'
<1>1. /\ visit \in [Names(registry) -> {"NOT_VISITED", "VISITING", "VISITED"}]
      /\ Len(capabilities) <= MaxCapabilities /\ registry \in Registries /\ StackInv
      /\ IsSequence(capabilities) /\ \A c \in DOMAIN capabilities : capabilities[c][1] \in Names(registry)
  BY Zenon DEF IInv, OrderSound, TypeOK, CallsInv
<1>2. DOMAIN visit = Names(registry)
  BY <1>1, Zenon
<1>3. StackInv' /\ \A e : Visited(e)' <=> Visited(e)
  BY <1>1, <1>2, StackPushed, Zenon
<1>4. visit' \in [Names(registry) -> {"NOT_VISITED", "VISITING", "VISITED"}]
  BY <1>1, Zenon
<1>5. \A e, k : Recorded(e, k) => Recorded(e, k)'
  BY Zenon DEF Recorded
<1> QED
  BY <1>1, <1>3, <1>4, <1>5, InnerKeeps, Zenon

\* A call of visit from a dependency loop.
LEMMA VisitDependencyKeeps ==
    ASSUME IInv, visit_dependency
    PROVE  IInv'
<1> PICK d : d = edge(Smallest(pending(Top)))[2]
  BY Zenon
<1>1. /\ op.kind = "init" /\ stack # <<>> /\ pending(Top) # {} /\ Enter(d, stack)
      /\ UNCHANGED <<registry, built, initialized_all, initialized, order, capabilities, exited>>
  BY Zenon DEF visit_dependency
<1>2. /\ visit \in [Names(registry) -> {"NOT_VISITED", "VISITING", "VISITED"}]
      /\ Len(capabilities) <= MaxCapabilities /\ registry \in Registries /\ StackInv
      /\ IsSequence(capabilities) /\ \A c \in DOMAIN capabilities : capabilities[c][1] \in Names(registry)
  BY Zenon DEF IInv, OrderSound, TypeOK, CallsInv
<1>3. Accepted(registry)
  BY <1>1, <1>2, AcceptedIs, Zenon DEF IInv, CallsInv
<1>4. d \in Names(registry)
  <2>1. Top.node \in Names(registry)
    BY <1>1, <1>2, TopIs, Zenon
  <2>2. Smallest(pending(Top)) \in Turns /\ edge(Smallest(pending(Top)))[1] = Top.node
    BY <1>1, <1>2, CurrentTurn, Zenon
  <2> QED
    BY <1>2, <1>3, <2>1, <2>2, EdgeEnds, Zenon
<1>5. CASE visit[d] = "VISITED"
  <2>1. stack' = Resume(stack) /\ UNCHANGED <<visit, op, answer>>
    BY <1>1, <1>5, Zenon DEF Enter
  <2>2. PICK L, n : L = Len(stack) /\ n = Smallest(pending(Top))
    BY Zenon
  <2>3. /\ IsSequence(stack') /\ Len(stack') = L
        /\ \A k \in 1 .. L - 1 : stack'[k] = stack[k]
        /\ stack'[L] = [Top EXCEPT !.next = n + 1]
    <3>1. L # 0 /\ IsSequence(stack)
      BY <1>1, <1>2, <2>2, TopIs, Zenon DEF StackInv
    <3> QED
      BY <2>1, <2>2, <3>1, ResumeIs, Zenon DEF Top
  <2>4. PICK call : call = [Top EXCEPT !.next = n + 1]
    BY Zenon
  <2>5. CallInv(Top) /\ Visited(d)
    BY <1>1, <1>2, <1>4, <1>5, TopIs, Zenon DEF Visited
  <2>6. CallInv(call) /\ call.node = Top.node
    <3>1. CallInv(call)
      BY <1>1, <1>2, <2>2, <2>4, <2>5, TurnTaken, Zenon
    <3> QED
      BY <2>4, <2>5, <3>1, Zenon DEF CallInv
  <2>7. (\A e : Visited(e)' <=> Visited(e)) /\ \A e, k : Recorded(e, k) => Recorded(e, k)'
    BY <1>1, <2>1, Zenon DEF Visited, Recorded
  <2>8. CallInv(call)'
    BY <1>1, <2>6, <2>7, CallKept, Zenon
  <2>9. StackInv'
    BY <1>1, <1>2, <2>1, <2>2, <2>3, <2>4, <2>6, <2>7, <2>8, StackReplaced, Zenon
  <2> QED
    BY <1>1, <1>2, <2>1, <2>7, <2>9, InnerKeeps, Zenon
<1>6. CASE visit[d] = "VISITING"
  <2>1. Unwind("DEPENDENCY_CYCLE")
    BY <1>1, <1>6, Zenon DEF Enter
  <2>2. \E S \in SUBSET Names(registry) : Cyclic(S)
    BY <1>1, <1>2, <1>4, <1>6, CycleFound, Zenon
  <2> QED
    BY <1>1, <2>1, <2>2, UnwindKeeps, Zenon
<1>7. CASE visit[d] = "NOT_VISITED"
  <2>1. /\ visit' = [visit EXCEPT ![d] = "VISITING"] /\ stack' = Append(stack, Call(d))
        /\ UNCHANGED <<op, answer>>
    BY <1>1, <1>7, Zenon DEF Enter
  <2> QED
    BY <1>1, <1>4, <1>7, <2>1, PushKeeps, Zenon
<1> QED
  BY <1>2, <1>4, <1>5, <1>6, <1>7, Zenon

\* The loop of init_all: the next driver, or the end.
LEMMA VisitNextKeeps ==
    ASSUME IInv, visit_next
    PROVE  IInv'
<1>1. /\ op.kind = "init" /\ stack = <<>>
      /\ UNCHANGED <<registry, built, initialized, order, capabilities, exited>>
  BY Zenon DEF visit_next
<1>2. /\ registry \in Registries /\ built /\ ~exited /\ ~initialized_all /\ op.at # 0
      /\ op \in [kind : {"idle", "init", "exit"}, at : Nat]
      /\ \A k \in DOMAIN registry.drivers : k < op.at => Visited(registry.drivers[k])
  BY <1>1, Zenon DEF IInv, CallsInv, OrderSound, TypeOK
<1>3. Len(registry.drivers) \in Nat /\ DOMAIN registry.drivers = 1 .. Len(registry.drivers)
  BY <1>2, Sections, Zenon
<1>4. CASE op.at > Len(registry.drivers)
  <2>1. initialized_all' = TRUE /\ op' = Idle /\ answer' = "ok" /\ UNCHANGED <<visit, stack>>
    BY <1>4, Zenon DEF visit_next
  <2>2. Idle \in [kind : {"idle", "init", "exit"}, at : Nat] /\ Idle.kind = "idle"
    BY Zenon DEF Idle
  <2>3. initialized = Names(registry)
    <3>1. \A k \in DOMAIN registry.drivers : registry.drivers[k] \in initialized
      <4>1. \A k \in DOMAIN registry.drivers : k < op.at
        BY <1>2, <1>3, <1>4
      <4> QED
        BY <1>2, <4>1, Zenon DEF IInv, UpInv, Visited
    <3>2. initialized \subseteq Names(registry)
      BY Zenon DEF IInv, OrderSound, TypeOK
    <3> QED
      BY <3>1, <3>2, Zenon DEF Names
  <2>4. \A d : Visited(d)' <=> Visited(d)
    BY <1>1, <2>1, Zenon DEF Visited
  <2>5. \A d, k : Recorded(d, k) => Recorded(d, k)'
    BY <1>1, Zenon DEF Recorded
  <2>6. TypeOK' /\ OrderListsInitialized'
    <3>1. TypeOK'
      BY <1>1, <2>1, <2>2, Zenon DEF IInv, OrderSound, TypeOK
    <3>2. OrderListsInitialized'
      BY <1>1, <2>1, <2>2, Zenon DEF IInv, OrderSound, OrderListsInitialized
    <3> QED
      BY <3>1, <3>2, Zenon
  <2>7. OrderInv' /\ UpInv' /\ CycleIsReal'
    BY <1>1, <2>1, <2>4, <2>5, OrderKept, RecordsKept, CycleKept, Zenon DEF IInv
  <2>8. CallsInv'
    BY <1>1, <1>2, <2>1, <2>2, <2>3, Zenon DEF IInv, CallsInv
  <2>9. StackInv'
    <3>1. DOMAIN stack = {} /\ DOMAIN stack' = {}
      BY <1>1, <2>1
    <3>2. Calls({})'
      BY <1>1, <2>1, <3>1, Zenon DEF IInv, StackInv, Calls
    <3> QED
      BY <1>1, <2>1, <3>1, <3>2, Zenon DEF IInv, StackInv
  <2> QED
    BY <1>1, <1>2, <2>6, <2>7, <2>8, <2>9, Zenon DEF IInv, OrderSound
<1> PICK d : d = registry.drivers[op.at]
  BY Zenon
<1>5. CASE ~ (op.at > Len(registry.drivers)) /\ visit[d] = "VISITED"
  <2>1. op' = [op EXCEPT !.at = @ + 1] /\ UNCHANGED <<initialized_all, visit, stack, answer>>
    BY <1>5, Zenon DEF visit_next
  <2>2. /\ op' \in [kind : {"idle", "init", "exit"}, at : Nat] /\ op'.kind = "init" /\ op'.at = op.at + 1
    BY <1>1, <1>2, <2>1
  <2>3. op.at \in DOMAIN registry.drivers /\ d \in Names(registry)
    BY <1>2, <1>3, <1>5 DEF Names
  <2>4. \A e : Visited(e)' <=> Visited(e)
    BY <1>1, <2>1, Zenon DEF Visited
  <2>5. \A e, k : Recorded(e, k) => Recorded(e, k)'
    BY <1>1, Zenon DEF Recorded
  <2>6. TypeOK' /\ OrderListsInitialized'
    <3>1. TypeOK'
      BY <1>1, <2>1, <2>2, Zenon DEF IInv, OrderSound, TypeOK
    <3>2. OrderListsInitialized'
      BY <1>1, <2>1, <2>2 DEF IInv, OrderSound, OrderListsInitialized
    <3> QED
      BY <3>1, <3>2, Zenon
  <2>7. OrderInv' /\ UpInv' /\ CycleIsReal'
    BY <1>1, <2>1, <2>4, <2>5, OrderKept, RecordsKept, CycleKept, Zenon DEF IInv
  <2>8. \A k \in DOMAIN registry.drivers : k < op.at + 1 => Visited(registry.drivers[k])'
    <3> SUFFICES ASSUME NEW k \in DOMAIN registry.drivers, k < op.at + 1 PROVE Visited(registry.drivers[k])'
      BY Zenon
    <3>1. PICK e : e = registry.drivers[k]
      BY Zenon
    <3>2. k < op.at \/ k = op.at
      BY <1>2, <1>3
    <3>3. Visited(e)
      BY <1>2, <1>5, <2>3, <3>1, <3>2, Zenon DEF Visited
    <3> QED
      BY <1>1, <2>4, <3>1, <3>3, Zenon
  <2>9. CallsInv'
    <3>1. op'.at # 0 /\ op'.kind # "exit" /\ op'.kind # "idle" /\ op' # Idle
      BY <1>2, <2>2 DEF Idle
    <3> QED
      BY <1>1, <1>2, <2>1, <2>2, <2>8, <3>1, Zenon DEF IInv, CallsInv
  <2>10. StackInv'
    <3>1. DOMAIN stack = {} /\ DOMAIN stack' = {}
      BY <1>1, <2>1
    <3>2. Calls({})'
      BY <1>1, <2>1, <3>1, Zenon DEF IInv, StackInv, Calls
    <3> QED
      BY <1>1, <2>1, <3>1, <3>2, Zenon DEF IInv, StackInv
  <2> QED
    BY <1>1, <1>2, <2>6, <2>7, <2>9, <2>10, Zenon DEF IInv, OrderSound
<1>6. CASE ~ (op.at > Len(registry.drivers)) /\ visit[d] # "VISITED"
  <2>1. Enter(d, stack) /\ UNCHANGED initialized_all
    BY <1>1, <1>6, Zenon DEF visit_next
  <2>2. d \in Names(registry)
    BY <1>2, <1>3, <1>6 DEF Names
  <2>3. visit[d] = "NOT_VISITED"
    <3>1. DOMAIN stack = {}
      BY <1>1
    <3>2. visit[d] # "VISITING"
      BY <2>2, <3>1, Zenon DEF IInv, StackInv, Calls
    <3> QED
      BY <1>6, <2>2, <3>2, Zenon DEF IInv, OrderSound, TypeOK
  <2>4. /\ visit' = [visit EXCEPT ![d] = "VISITING"] /\ stack' = Append(stack, Call(d))
        /\ UNCHANGED <<op, answer>>
    BY <2>1, <2>3, Zenon DEF Enter
  <2> QED
    BY <1>1, <2>1, <2>2, <2>3, <2>4, PushKeeps, Zenon
<1> QED
  BY <1>4, <1>5, <1>6, Zenon

\* The call on top is replaced by one for the same driver.
LEMMA ReplaceKeeps ==
    ASSUME IInv, op.kind = "init", stack # <<>>,
           UNCHANGED <<registry, built, initialized_all, initialized, order, op, answer, exited, visit>>,
           NEW call, CallInv(call)', call.node = Top.node, stack' = Append(Below, call),
           IsSequence(capabilities'), Len(capabilities') <= MaxCapabilities,
           \A c \in DOMAIN capabilities' : capabilities'[c][1] \in Names(registry),
           \A d, k : Recorded(d, k) => Recorded(d, k)'
    PROVE  IInv'
<1>1. StackInv /\ IsSequence(stack)
  BY Zenon DEF IInv, StackInv
<1> PICK L : L = Len(stack)
  BY Zenon
<1>2. /\ IsSequence(Below) /\ Len(Below) = L - 1 /\ L \in Nat \ {0}
      /\ \A k \in 1 .. L - 1 : Below[k] = stack[k]
  BY <1>1, BelowIs, Zenon
<1>3. /\ IsSequence(stack') /\ Len(stack') = (L - 1) + 1
      /\ \A k \in 1 .. L - 1 : stack'[k] = Below[k]
      /\ stack'[(L - 1) + 1] = call
  BY <1>2, Appended
<1>4. /\ Len(stack') = L /\ stack'[L] = call
      /\ \A k \in 1 .. L - 1 : stack'[k] = stack[k]
  BY <1>2, <1>3
<1>5. StackInv'
  BY <1>1, <1>3, <1>4, StackReplaced, Zenon
<1>6. \A d : Visited(d)' <=> Visited(d)
  BY Zenon DEF Visited
<1>7. visit' \in [Names(registry) -> {"NOT_VISITED", "VISITING", "VISITED"}]
  BY Zenon DEF IInv, OrderSound, TypeOK
<1> QED
  BY <1>5, <1>6, <1>7, InnerKeeps, Zenon

\* The entry point of a driver.
LEMMA RunDriverKeeps ==
    ASSUME IInv, run_driver
    PROVE  IInv'
<1>1. /\ op.kind = "init" /\ stack # <<>> /\ pending(Top) = {} /\ Top.record = 0
      /\ UNCHANGED <<registry, built, initialized_all, initialized, order, capabilities, exited>>
  BY Zenon DEF run_driver
<1>2. CASE Unwind("UNSPECIFIED")
  BY <1>1, <1>2, UnwindKeeps, Zenon
<1>3. CASE stack' = Append(Below, [Top EXCEPT !.record = 1]) /\ UNCHANGED <<visit, op, answer>>
  <2>1. PICK call : call = [Top EXCEPT !.record = 1]
    BY Zenon
  <2>2. /\ Top \in [node : Names(registry), next : Nat, record : Nat]
        /\ \A n \in Turns : n < Top.next /\ edge(n)[1] = Top.node => Visited(edge(n)[2])
    BY <1>1, TopIs, Zenon DEF IInv, CallInv
  <2>3. /\ call \in [node : Names(registry), next : Nat, record : Nat]
        /\ call.node = Top.node /\ call.next = Top.next /\ call.record = 1
    BY <2>1, <2>2, Zenon
  <2>4. pending(call) = {}
    BY <1>1, <2>3, Zenon DEF pending
  <2>5. \A k \in DOMAIN registry.provides : ~ (k < call.record)
    <3>1. DOMAIN registry.provides \subseteq Nat \ {0}
      BY PlacesNat, Zenon DEF IInv
    <3> QED
      BY <2>3, <3>1
  <2>6. CallInv(call)
    BY <2>2, <2>3, <2>4, <2>5, Zenon DEF CallInv
  <2>7. (\A d : Visited(d) => Visited(d)') /\ \A d, k : Recorded(d, k) => Recorded(d, k)'
    BY <1>1, <1>3, Zenon DEF Visited, Recorded
  <2>8. CallInv(call)'
    BY <1>1, <2>6, <2>7, CallKept, Zenon
  <2>9. /\ Len(capabilities) <= MaxCapabilities /\ IsSequence(capabilities)
        /\ \A c \in DOMAIN capabilities : capabilities[c][1] \in Names(registry)
    BY Zenon DEF IInv, OrderSound, TypeOK, CallsInv
  <2> QED
    BY <1>1, <1>3, <2>1, <2>3, <2>7, <2>8, <2>9, ReplaceKeeps, Zenon
<1> QED
  BY <1>2, <1>3, Zenon DEF run_driver

\* The driver of the call on top is up.
LEMMA SucceedKeeps ==
    ASSUME IInv, op.kind = "init", stack # <<>>, Top.record > 0, unregistered = {}, Succeed(Top.node),
           UNCHANGED <<registry, built, initialized_all, capabilities, exited>>
    PROVE  IInv'
<1> PICK d : d = Top.node
  BY Zenon
<1>1. /\ initialized' = initialized \cup {d} /\ order' = Append(order, d)
      /\ visit' = [visit EXCEPT ![Top.node] = "VISITED"] /\ stack' = Resume(Below)
      /\ UNCHANGED <<op, answer>>
  BY Zenon DEF Succeed
<1>2. /\ registry \in Registries /\ StackInv /\ IsSequence(order) /\ IsSequence(capabilities)
      /\ built /\ ~exited /\ ~initialized_all /\ build_registry(registry) = "ok"
      /\ visit \in [Names(registry) -> {"NOT_VISITED", "VISITING", "VISITED"}]
      /\ \A k \in DOMAIN order : order[k] \in Names(registry)
      /\ initialized \subseteq Names(registry)
      /\ {order[k] : k \in DOMAIN order} = initialized
      /\ \A j, k \in DOMAIN order : order[j] = order[k] => j = k
  <2>1. op.kind # "exit"
    BY Zenon
  <2> QED
    BY <2>1, Zenon DEF IInv, OrderSound, TypeOK, OrderListsInitialized, OrderInv, CallsInv
<1>3. /\ \A e \in Names(registry) : Visited(e) <=> e \in initialized
      /\ \A k \in DOMAIN registry.provides : registry.provides[k][1] \in initialized
                                               => Recorded(registry.provides[k][1], k)
  BY <1>2, Zenon DEF IInv, UpInv
<1>4. DOMAIN visit = Names(registry)
  BY <1>2, Zenon
<1>5. StackInv' /\ \A e : Visited(e)' <=> (Visited(e) \/ e = d)
  BY <1>1, <1>2, <1>4, StackPopped, Zenon
<1>6. d \in Names(registry) /\ visit[d] = "VISITING" /\ CallInv(Top) /\ d \notin initialized
  <2>1. d \in Names(registry) /\ visit[d] = "VISITING" /\ CallInv(Top)
    BY <1>2, TopIs, Zenon
  <2> QED
    BY <1>3, <2>1, Zenon DEF Visited
<1>7. DependsOn(d) \subseteq initialized
  <2> SUFFICES ASSUME NEW n \in Turns, edge(n)[1] = d PROVE edge(n)[2] \in initialized
    BY Zenon DEF DependsOn
  <2>1. Top \in [node : Names(registry), next : Nat, record : Nat] /\ pending(Top) = {}
    BY <1>6, Zenon DEF CallInv
  <2>2. n \in Nat
    <3>1. \A i : 1 .. i \subseteq Nat
      OBVIOUS
    <3> QED
      BY <3>1, Zenon DEF Turns
  <2>3. ~ (Top.next <= n)
    BY <2>1, Zenon DEF pending
  <2>4. n < Top.next
    BY <2>1, <2>2, <2>3
  <2>5. Visited(edge(n)[2])
    BY <1>6, <2>4, Zenon DEF CallInv
  <2> QED
    BY <1>3, <2>5, Zenon DEF Visited
<1> PICK m : m = Len(order)
  BY Zenon
<1>8. /\ m \in Nat /\ DOMAIN order = 1 .. m /\ DOMAIN order' = 1 .. m + 1
      /\ IsSequence(order') /\ Len(order') = m + 1
      /\ \A k \in 1 .. m : order'[k] = order[k]
      /\ order'[m + 1] = d
  BY <1>1, <1>2, SequenceDomain, Appended
<1>9. \A k \in 1 .. m + 1 : k \in 1 .. m \/ k = m + 1
  BY <1>8
<1>10. OrderListsInitialized'
  <2>1. {order'[k] : k \in 1 .. m + 1} = initialized'
    <3>1. 1 .. m \subseteq 1 .. m + 1 /\ m + 1 \in 1 .. m + 1
      BY <1>8
    <3> QED
      BY <1>1, <1>2, <1>8, <1>9, <3>1
  <2>2. \A j, k \in 1 .. m + 1 : order'[j] = order'[k] => j = k
    <3>1. \A k \in 1 .. m : order[k] # d
      BY <1>2, <1>6, <1>8
    <3> QED
      BY <1>2, <1>8, <1>9, <3>1
  <2>3. op'.kind # "exit"
    BY <1>1, Zenon
  <2> QED
    BY <1>8, <2>1, <2>2, <2>3, Zenon DEF OrderListsInitialized
<1>11. (\A k \in DOMAIN order' : order'[k] \in Names(registry)) /\ initialized' \subseteq Names(registry)
  BY <1>1, <1>2, <1>6, <1>8, <1>9, Zenon
<1>12. Len(order') <= MaxDrivers
  <2>1. Accepted(registry)
    BY <1>2, AcceptedIs, Zenon
  <2>2. \A j, k \in DOMAIN order' : order'[j] = order'[k] => j = k
    BY <1>10, Zenon DEF OrderListsInitialized
  <2> QED
    BY <1>2, <1>8, <1>11, <2>1, <2>2, FewEnough, Zenon
<1>13. TypeOK'
  <2>1. (StackInv => \A k \in DOMAIN stack : stack[k] \in [node : Names(registry), next : Nat, record : Nat])'
    BY StackTypes, PTL
  <2>2. visit' \in [Names(registry) -> {"NOT_VISITED", "VISITING", "VISITED"}]
    BY <1>1, <1>2, Zenon
  <2>3. /\ Len(capabilities') <= MaxCapabilities
        /\ op' \in [kind : {"idle", "init", "exit"}, at : Nat]
    BY <1>1, Zenon DEF IInv, OrderSound, TypeOK
  <2> QED
    BY <1>5, <1>11, <1>12, <2>1, <2>2, <2>3, Steady, Zenon DEF TypeOK
<1>14. OrderInv'
  <2> SUFFICES ASSUME NEW k \in 1 .. m + 1 PROVE DependsOn(order[k])' \subseteq {order'[j] : j \in 1 .. k - 1}
    BY <1>8, Zenon DEF OrderInv
  <2>1. PICK e : e = order'[k]
    BY Zenon
  <2>2. DependsOn(e)' = DependsOn(e)
    BY Steady, Zenon
  <2>3. DependsOn(e) \subseteq {order'[j] : j \in 1 .. k - 1}
    <3>1. CASE k \in 1 .. m
      <4>1. DependsOn(order[k]) \subseteq {order[j] : j \in 1 .. k - 1} /\ e = order[k]
        BY <1>8, <2>1, <3>1, Zenon DEF IInv, OrderInv
      <4>2. \A j \in 1 .. k - 1 : order'[j] = order[j]
        BY <1>8, <3>1
      <4> QED
        BY <4>1, <4>2, Zenon
    <3>2. CASE k = m + 1
      <4>1. {order'[j] : j \in 1 .. k - 1} = initialized /\ e = d
        BY <1>2, <1>8, <2>1, <3>2
      <4> QED
        BY <1>7, <4>1, Zenon
    <3> QED
      BY <1>9, <3>1, <3>2, Zenon
  <2> QED
    BY <2>1, <2>2, <2>3, Zenon
<1>15. UpInv'
  <2>1. \A e \in Names(registry)' : Visited(e)' <=> e \in initialized'
    BY <1>1, <1>3, <1>5, Steady, Zenon
  <2>2. ASSUME NEW k \in DOMAIN registry.provides, registry.provides[k][1] \in initialized'
        PROVE  Recorded(registry.provides[k][1], k)'
    <3>1. PICK e : e = registry.provides[k][1]
      BY Zenon
    <3>2. Recorded(e, k)
      <4>1. CASE e \in initialized
        BY <1>3, <3>1, <4>1, Zenon
      <4>2. CASE e = d
        <5>1. ~ (Top.record <= k)
          BY <3>1, <4>2, Zenon DEF unregistered
        <5>2. k < Top.record
          <6>1. k \in Nat
            BY <1>2, PlacesNat, Zenon
          <6>2. Top.record \in Nat
            BY <1>6, Zenon DEF CallInv
          <6> QED
            BY <5>1, <6>1, <6>2
        <5> QED
          BY <1>6, <3>1, <4>2, <5>2, Zenon DEF CallInv
      <4> QED
        BY <1>1, <2>2, <3>1, <4>1, <4>2, Zenon
    <3>3. Recorded(e, k)'
      BY <3>2, Zenon DEF Recorded
    <3> QED
      BY <3>1, <3>3, Zenon
  <2> QED
    BY <2>1, <2>2, Zenon DEF UpInv
<1>16. CallsInv'
  <2>1. \A k \in DOMAIN registry.drivers : k < op.at => Visited(registry.drivers[k])'
    <3> SUFFICES ASSUME NEW k \in DOMAIN registry.drivers, k < op.at PROVE Visited(registry.drivers[k])'
      BY Zenon
    <3>1. PICK e : e = registry.drivers[k]
      BY Zenon
    <3>2. Visited(e)'
      BY <1>5, <3>1, Zenon DEF IInv, CallsInv
    <3> QED
      BY <3>1, <3>2, Zenon
  <2> QED
    BY <1>1, <1>2, <2>1, Steady, Zenon DEF IInv, CallsInv
<1>17. CycleIsReal'
  BY <1>1, CycleKept, Zenon DEF IInv
<1> QED
  BY <1>2, <1>5, <1>10, <1>13, <1>14, <1>15, <1>16, <1>17, Zenon DEF IInv, OrderSound

\* One resolver of a driver.
LEMMA RegisterKeeps ==
    ASSUME IInv, op.kind = "init", stack # <<>>, Top.record > 0, unregistered # {},
           register_capability(Smallest(unregistered)),
           UNCHANGED <<registry, built, initialized_all, initialized, order, exited>>
    PROVE  IInv'
<1> PICK k : k = Smallest(unregistered)
  BY Zenon
<1>1. /\ registry \in Registries /\ StackInv /\ IsSequence(capabilities)
      /\ Len(capabilities) <= MaxCapabilities
      /\ \A c \in DOMAIN capabilities : capabilities[c][1] \in Names(registry)
  BY Zenon DEF IInv, OrderSound, TypeOK, CallsInv
<1>2. /\ k \in DOMAIN registry.provides /\ Top.record <= k /\ registry.provides[k][1] = Top.node
      /\ \A j \in unregistered : k <= j
  <2>1. unregistered \subseteq Nat
    <3>1. DOMAIN registry.provides \subseteq Nat
      BY <1>1, PlacesNat, Zenon
    <3> QED
      BY <3>1, Zenon DEF unregistered
  <2>2. k \in unregistered /\ \A j \in unregistered : k <= j
    BY <2>1, SmallestIs, Zenon
  <2> QED
    BY <2>2, Zenon DEF unregistered
<1>3. CASE Unwind("CAPABILITY_RESOLVE_FAILED") /\ UNCHANGED capabilities
  BY <1>3, UnwindKeeps, Zenon
<1>4. CASE Unwind("CAPACITY_EXCEEDED") /\ UNCHANGED capabilities
  BY <1>4, UnwindKeeps, Zenon
<1>5. CASE /\ Len(capabilities) # MaxCapabilities
           /\ capabilities' = Append(capabilities, <<Top.node, registry.provides[k][2]>>)
           /\ stack' = Append(Below, [Top EXCEPT !.record = k + 1])
           /\ UNCHANGED <<visit, op, answer>>
  <2>1. PICK n, d, call : n = Len(capabilities) /\ d = Top.node /\ call = [Top EXCEPT !.record = k + 1]
    BY Zenon
  <2>2. /\ IsSequence(capabilities') /\ Len(capabilities') = n + 1
        /\ n \in Nat /\ DOMAIN capabilities = 1 .. n /\ DOMAIN capabilities' = 1 .. n + 1
        /\ \A c \in 1 .. n : capabilities'[c] = capabilities[c]
        /\ capabilities'[n + 1] = <<d, registry.provides[k][2]>>
    BY <1>1, <1>5, <2>1, SequenceDomain, Appended
  <2>3. Len(capabilities') <= MaxCapabilities
    BY <1>1, <1>5, <2>1, <2>2, RegistriesAssumption
  <2>4. d \in Names(registry) /\ CallInv(Top)
    BY <1>1, <2>1, TopIs, Zenon
  <2>5. /\ 1 .. n \subseteq 1 .. n + 1 /\ n + 1 \in 1 .. n + 1
        /\ \A c \in 1 .. n + 1 : c \in 1 .. n \/ c = n + 1
    BY <2>2
  <2>6. \A c \in DOMAIN capabilities' : capabilities'[c][1] \in Names(registry)
    BY <1>1, <2>2, <2>4, <2>5
  <2>7. \A e, j : Recorded(e, j) => Recorded(e, j)'
    BY <2>2, <2>5, Zenon DEF Recorded
  <2>8. Recorded(d, k)'
    BY <2>2, <2>5, Zenon DEF Recorded
  <2>9. /\ Top \in [node : Names(registry), next : Nat, record : Nat]
        /\ \A i \in Turns : i < Top.next /\ edge(i)[1] = Top.node => Visited(edge(i)[2])
        /\ pending(Top) = {}
        /\ \A j \in DOMAIN registry.provides :
             j < Top.record /\ registry.provides[j][1] = Top.node => Recorded(Top.node, j)
    BY <2>4, Zenon DEF CallInv
  <2>10. /\ call \in [node : Names(registry), next : Nat, record : Nat]
         /\ call.node = d /\ call.next = Top.next /\ call.record = k + 1
    <3>1. k \in Nat
      BY <1>1, <1>2, Sections
    <3> QED
      BY <2>1, <2>9, <3>1
  <2>11. CallInv(call)'
    <3>1. pending(call) = {}
      BY <2>1, <2>9, <2>10, Zenon DEF pending
    <3>2. \A i \in Turns : i < call.next /\ edge(i)[1] = call.node => Visited(edge(i)[2])
      BY <2>1, <2>9, <2>10, Zenon
    <3>3. ASSUME NEW i \in Turns', i < call.next, edge(i)'[1] = call.node PROVE Visited(edge(i)[2])'
      <4>1. edge(i)' = edge(i) /\ Turns' = Turns
        BY Steady, Zenon
      <4>2. Visited(edge(i)[2])
        BY <3>2, <3>3, <4>1, Zenon
      <4> QED
        BY <1>5, <4>1, <4>2, Zenon DEF Visited
    <3>4. ASSUME NEW j \in DOMAIN registry.provides, j < k + 1, registry.provides[j][1] = d
          PROVE  Recorded(d, j)'
      <4>1. j \in Nat /\ k \in Nat /\ Top.record \in Nat
        <5>1. DOMAIN registry.provides \subseteq Nat
          BY <1>1, PlacesNat, Zenon
        <5> QED
          BY <1>2, <2>9, <5>1, Zenon
      <4>2. CASE j < Top.record
        BY <2>1, <2>7, <2>9, <3>4, <4>2, Zenon
      <4>3. CASE ~ (j < Top.record)
        <5>1. Top.record <= j
          BY <4>1, <4>3
        <5>2. j \in unregistered
          BY <2>1, <3>4, <5>1, Zenon DEF unregistered
        <5>3. j = k
          BY <1>2, <3>4, <4>1, <5>2
        <5> QED
          BY <2>8, <5>3, Zenon
      <4> QED
        BY <4>2, <4>3, Zenon
    <3>5. pending(call)' = {}
      BY <3>1, Steady, Zenon
    <3> QED
      BY <2>10, <3>3, <3>4, <3>5, Steady, Zenon DEF CallInv
  <2> QED
    BY <1>5, <2>1, <2>2, <2>3, <2>6, <2>7, <2>10, <2>11, ReplaceKeeps, Zenon
<1> QED
  BY <1>3, <1>4, <1>5, Zenon DEF register_capability

LEMMA RegisterCapabilitiesKeeps ==
    ASSUME IInv, register_capabilities
    PROVE  IInv'
<1>1. /\ op.kind = "init" /\ stack # <<>> /\ Top.record > 0
      /\ UNCHANGED <<registry, built, initialized_all, exited>>
  BY Zenon DEF register_capabilities
<1>2. CASE unregistered # {}
  <2>1. register_capability(Smallest(unregistered)) /\ UNCHANGED <<initialized, order>>
    BY <1>2, Zenon DEF register_capabilities
  <2> QED
    BY <1>1, <1>2, <2>1, RegisterKeeps, Zenon
<1>3. CASE unregistered = {}
  <2>1. Succeed(Top.node) /\ UNCHANGED capabilities
    BY <1>3, Zenon DEF register_capabilities
  <2> QED
    BY <1>1, <1>3, <2>1, SucceedKeeps, Zenon
<1> QED
  BY <1>2, <1>3, Zenon

\* No call of visit is in progress while init_all is not.
LEMMA NoCalls ==
    ASSUME StackInv, op.kind # "init", registry' = registry, UNCHANGED <<visit, stack>>
    PROVE  StackInv' /\ stack = <<>>
<1>1. stack = <<>> /\ \A d \in Names(registry) : visit[d] # "VISITING"
  <2>1. stack = <<>>
    BY Zenon DEF StackInv
  <2>2. DOMAIN stack = {}
    BY <2>1
  <2> QED
    BY <2>1, <2>2, Zenon DEF StackInv, Calls
<1>2. IsSequence(stack)' /\ DOMAIN stack' = {} /\ stack' = <<>>
  BY <1>1 DEF StackInv
<1>3. Calls({})'
  BY <1>1, Zenon DEF Calls
<1> QED
  BY <1>1, <1>2, <1>3, Zenon DEF StackInv

\* A call of init_all: refused, done already, or begun.
LEMMA InitAllKeeps ==
    ASSUME ~Restart, IInv, init_all
    PROVE  IInv'
<1>1. /\ op = Idle /\ ~exited
      /\ UNCHANGED <<registry, initialized_all, visit, initialized, order, capabilities, stack, exited>>
  BY Zenon DEF init_all
<1>2. op.kind = "idle"
  BY <1>1, Zenon DEF Idle
<1>3. StackInv' /\ stack = <<>>
  BY <1>1, <1>2, NoCalls, Zenon DEF IInv
<1>4. \A d : Visited(d)' <=> Visited(d)
  BY <1>1, Zenon DEF Visited
<1>5. \A d, k : Recorded(d, k) => Recorded(d, k)'
  BY <1>1, Zenon DEF Recorded
<1>6. OrderInv' /\ UpInv'
  BY <1>1, <1>4, <1>5, OrderKept, RecordsKept, Zenon DEF IInv
<1>7. CASE UNCHANGED <<built, op>> /\ answer' # "DEPENDENCY_CYCLE"
  <2>1. OrderSound'
    BY <1>1, <1>7, Zenon DEF IInv, OrderSound, TypeOK, OrderListsInitialized
  <2>2. CallsInv'
    BY <1>1, <1>2, <1>7, Zenon DEF IInv, CallsInv
  <2> QED
    BY <1>1, <1>3, <1>6, <1>7, <2>1, <2>2, CycleKept, Zenon DEF IInv
<1>8. CASE ~initialized_all /\ (built \/ build_registry(registry) = "ok")
           /\ built' = TRUE /\ op' = [kind |-> "init", at |-> 1] /\ answer' = "none"
  <2>1. op' \in [kind : {"idle", "init", "exit"}, at : Nat] /\ op'.kind = "init" /\ op'.at = 1
    BY <1>8, Zenon
  <2>2. TypeOK'
    BY <1>1, <2>1, Zenon DEF IInv, OrderSound, TypeOK
  <2>3. OrderListsInitialized'
    BY <1>1, <1>2, <2>1, Zenon DEF IInv, OrderSound, OrderListsInitialized
  <2>4. \A k \in DOMAIN registry.drivers : ~ (k < op'.at)
    BY <2>1, Sections DEF IInv
  <2>5. op'.at # 0 /\ op'.kind # "exit" /\ op'.kind # "idle"
    BY <2>1
  <2>6. CallsInv'
    BY <1>1, <1>8, <2>4, <2>5, Zenon DEF IInv, CallsInv
  <2> QED
    BY <1>1, <1>3, <1>6, <1>8, <2>2, <2>3, <2>6, CycleKept, Zenon DEF IInv, OrderSound
<1>9. build_registry(registry) # "DEPENDENCY_CYCLE"
  BY BuildAnswers, Zenon DEF IInv
<1> QED
  BY <1>7, <1>8, <1>9, Zenon DEF init_all

\* A call of exit_all.
LEMMA ExitAllKeeps ==
    ASSUME IInv, exit_all
    PROVE  IInv'
<1>1. /\ op = Idle /\ op' = [kind |-> "exit", at |-> Len(order)] /\ exited' = TRUE
      /\ UNCHANGED <<registry, built, initialized_all, visit, initialized, order, capabilities, stack, answer>>
  BY Zenon DEF exit_all
<1>2. op.kind = "idle" /\ IsSequence(order)
  BY <1>1, Zenon DEF Idle, IInv, OrderInv
<1>3. Len(order) \in Nat /\ DOMAIN order = 1 .. Len(order)
  BY <1>2, SequenceDomain, Zenon
<1>4. op' \in [kind : {"idle", "init", "exit"}, at : Nat] /\ op'.kind = "exit" /\ op'.at = Len(order)
  BY <1>1, <1>3, Zenon
<1>5. StackInv'
  BY <1>1, <1>2, NoCalls, Zenon DEF IInv
<1>6. TypeOK'
  BY <1>1, <1>4, Zenon DEF IInv, OrderSound, TypeOK
<1>7. OrderListsInitialized'
  BY <1>1, <1>2, <1>3, <1>4, Zenon DEF IInv, OrderSound, OrderListsInitialized
<1>8. OrderInv' /\ CycleIsReal' /\ UpInv'
  BY <1>1, OrderKept, CycleKept, Zenon DEF IInv, UpInv
<1>9. CallsInv'
  <2>1. op'.kind # "init" /\ op'.kind # "idle" /\ op' # Idle /\ op'.at <= Len(order')
    <3>1. Idle.kind = "idle"
      BY Zenon DEF Idle
    <3>2. op'.at <= Len(order')
      BY <1>1, <1>3, <1>4
    <3> QED
      BY <1>4, <3>1, <3>2, Zenon
  <2> QED
    BY <1>1, <1>4, <2>1, Zenon DEF IInv, CallsInv
<1> QED
  BY <1>1, <1>5, <1>6, <1>7, <1>8, <1>9, Zenon DEF IInv, OrderSound

\* A round of the loop of exit_all, or its end.
LEMMA ExitNextKeeps ==
    ASSUME IInv, exit_next
    PROVE  IInv'
<1>1. op.kind = "exit" /\ UNCHANGED <<registry, built, visit, stack, answer, exited>>
  BY Zenon DEF exit_next
<1>2. /\ op \in [kind : {"idle", "init", "exit"}, at : Nat] /\ op.at <= Len(order) /\ exited
      /\ IsSequence(order) /\ {order[k] : k \in 1 .. op.at} = initialized
      /\ \A j, k \in DOMAIN order : order[j] = order[k] => j = k
  BY <1>1, Zenon DEF IInv, OrderSound, TypeOK, OrderListsInitialized, OrderInv, CallsInv
<1>3. Len(order) \in Nat /\ DOMAIN order = 1 .. Len(order) /\ op.at \in Nat
  BY <1>2, SequenceDomain, Zenon
<1>4. StackInv' /\ CycleIsReal' /\ UpInv'
  BY <1>1, <1>2, NoCalls, CycleKept, Zenon DEF IInv, UpInv
<1>5. CASE op.at > 0
  <2>1. /\ initialized' = initialized \ {order[op.at]} /\ op' = [op EXCEPT !.at = @ - 1]
        /\ UNCHANGED <<initialized_all, order, capabilities>>
    BY <1>5, Zenon DEF exit_next
  <2> PICK m : m = op.at
    BY Zenon
  <2>2. /\ op' \in [kind : {"idle", "init", "exit"}, at : Nat] /\ op'.kind = "exit" /\ op'.at = m - 1
    BY <1>1, <1>2, <1>3, <1>5, <2>1
  <2>3. TypeOK'
    BY <1>1, <2>1, <2>2, Zenon DEF IInv, OrderSound, TypeOK
  <2>4. {order[k] : k \in 1 .. m - 1} = initialized'
    <3>1. \A k \in 1 .. m : k \in 1 .. Len(order) /\ (k \in 1 .. m - 1 <=> k # m)
      BY <1>2, <1>3
    <3>2. m \in 1 .. m /\ 1 .. m - 1 \subseteq 1 .. m
      BY <1>3, <1>5
    <3>3. \A k \in 1 .. m : order[k] = order[m] => k = m
      BY <1>2, <1>3, <3>1, <3>2, Zenon
    <3> QED
      BY <1>2, <2>1, <3>1, <3>2, <3>3, Zenon
  <2>5. OrderListsInitialized'
    <3>1. {order'[k] : k \in 1 .. op'.at} = initialized'
      BY <2>1, <2>2, <2>4, Zenon
    <3> QED
      BY <1>2, <2>1, <2>2, <3>1, Zenon DEF OrderListsInitialized
  <2>6. OrderInv'
    BY <1>1, <2>1, OrderKept, Zenon DEF IInv
  <2>7. CallsInv'
    <3>1. op'.kind # "init" /\ op'.kind # "idle" /\ op' # Idle /\ op'.at <= Len(order')
      BY <1>2, <1>3, <2>1, <2>2 DEF Idle
    <3>2. initialized' # {} => initialized # {}
      BY <2>1, Zenon
    <3> QED
      BY <1>1, <1>2, <2>1, <2>2, <3>1, <3>2, Zenon DEF IInv, CallsInv
  <2> QED
    BY <1>1, <1>4, <2>3, <2>5, <2>6, <2>7, Zenon DEF IInv, OrderSound
<1>6. CASE ~ (op.at > 0)
  <2>1. /\ order' = <<>> /\ capabilities' = <<>> /\ initialized_all' = FALSE /\ op' = Idle
        /\ initialized' = initialized
    BY <1>6, Zenon DEF exit_next
  <2>2. Idle \in [kind : {"idle", "init", "exit"}, at : Nat] /\ Idle.kind = "idle"
    BY Zenon DEF Idle
  <2>3. initialized = {}
    <3>1. 1 .. op.at = {}
      BY <1>3, <1>6
    <3> QED
      BY <1>2, <3>1, Zenon
  <2>4. /\ IsSequence(<<>>) /\ DOMAIN <<>> = {} /\ Len(<<>>) = 0
    BY DEF IsSequence
  <2>5. TypeOK'
    <3>1. Len(order') <= MaxDrivers /\ Len(capabilities') <= MaxCapabilities
      BY <2>1, <2>4, RegistriesAssumption
    <3> QED
      BY <1>1, <2>1, <2>2, <2>4, <3>1, Zenon DEF IInv, OrderSound, TypeOK
  <2>6. OrderListsInitialized'
    <3>1. op'.kind # "exit" /\ {order'[k] : k \in DOMAIN order'} = {}
      BY <2>1, <2>2, <2>4, Zenon
    <3> QED
      BY <2>1, <2>3, <2>4, <3>1, Zenon DEF OrderListsInitialized
  <2>7. OrderInv'
    BY <2>1, <2>4, Zenon DEF OrderInv
  <2>8. CallsInv'
    BY <1>1, <1>2, <2>1, <2>2, <2>3, <2>4, Zenon DEF IInv, CallsInv
  <2> QED
    BY <1>1, <1>4, <2>5, <2>6, <2>7, <2>8, Zenon DEF IInv, OrderSound
<1> QED
  BY <1>5, <1>6, Zenon
-----------------------------------------------------------------------------
LEMMA InitIInv == Init => IInv
<1> SUFFICES ASSUME Init PROVE IInv
  BY Zenon
<1>1. /\ registry \in Registries /\ ~built /\ ~initialized_all /\ initialized = {} /\ order = <<>>
      /\ visit = [d \in Names(registry) |-> "NOT_VISITED"] /\ capabilities = <<>> /\ op = Idle
      /\ stack = <<>> /\ answer = "none" /\ ~exited
  BY Zenon DEF Init
<1>2. Idle \in [kind : {"idle", "init", "exit"}, at : Nat] /\ Idle.kind = "idle"
  BY Zenon DEF Idle
<1>3. IsSequence(<<>>) /\ DOMAIN <<>> = {} /\ Len(<<>>) = 0
  BY DEF IsSequence
<1>4. TypeOK
  <2>1. Len(order) <= MaxDrivers /\ Len(capabilities) <= MaxCapabilities
    BY <1>1, <1>3, RegistriesAssumption
  <2>2. visit \in [Names(registry) -> {"NOT_VISITED", "VISITING", "VISITED"}]
    BY <1>1, Zenon
  <2> QED
    BY <1>1, <1>2, <1>3, <2>1, <2>2, Zenon DEF TypeOK
<1>5. OrderListsInitialized
  <2>1. {order[k] : k \in DOMAIN order} = {} /\ op.kind # "exit"
    BY <1>1, <1>2, <1>3, Zenon
  <2> QED
    BY <1>1, <1>3, <2>1, Zenon DEF OrderListsInitialized
<1>6. StackInv
  <2>1. Calls({})
    BY <1>1, Zenon DEF Calls
  <2> QED
    BY <1>1, <1>3, <2>1, Zenon DEF StackInv
<1>7. OrderInv
  BY <1>1, <1>3, Zenon DEF OrderInv
<1>8. UpInv
  BY <1>1, Zenon DEF UpInv, Visited
<1>9. CallsInv
  BY <1>1, <1>2, <1>3, Zenon DEF CallsInv
<1>10. CycleIsReal
  BY <1>1, Zenon DEF CycleIsReal
<1> QED
  BY <1>1, <1>4, <1>5, <1>6, <1>7, <1>8, <1>9, <1>10, Zenon DEF IInv, OrderSound

LEMMA StutterKeeps ==
    ASSUME IInv, UNCHANGED vars
    PROVE  IInv'
<1>1. UNCHANGED <<registry, built, initialized_all, visit, initialized, order, capabilities, op, stack,
                  answer, exited>>
  BY Zenon DEF vars
<1>2. OrderSound'
  <2>1. TypeOK'
    BY <1>1, Zenon DEF IInv, OrderSound, TypeOK
  <2>2. OrderListsInitialized'
    BY <1>1, Zenon DEF IInv, OrderSound, OrderListsInitialized
  <2> QED
    BY <2>1, <2>2, Zenon DEF OrderSound
<1>3. (\A d : Visited(d)' <=> Visited(d)) /\ \A d, k : Recorded(d, k) => Recorded(d, k)'
  BY <1>1, Zenon DEF Visited, Recorded
<1>4. OrderInv' /\ UpInv' /\ CycleIsReal'
  BY <1>1, <1>3, OrderKept, RecordsKept, CycleKept, Zenon DEF IInv
<1>5. CallsInv'
  BY <1>1, Zenon DEF IInv, CallsInv, Visited
<1>6. StackInv'
  <2>1. Calls(DOMAIN stack)
    BY Zenon DEF IInv, StackInv
  <2>2. ASSUME NEW k \in DOMAIN stack PROVE CallInv(stack[k])' /\ pending(stack[k])' = pending(stack[k])
    <3>1. PICK call : call = stack[k] /\ call = stack'[k]
      BY <1>1, Zenon
    <3>2. CallInv(call)
      <4>1. CallInv(stack[k])
        BY <2>1, Zenon DEF Calls
      <4> QED
        BY <3>1, <4>1, Zenon
    <3>3. CallInv(call)' /\ pending(call)' = pending(call)
      BY <1>1, <1>3, <3>2, CallKept, Steady, Zenon
    <3> QED
      BY <3>1, <3>3, Zenon
  <2>3. ASSUME NEW k \in DOMAIN stack, k + 1 \in DOMAIN stack
        PROVE  pending(stack[k])' # {} /\ edge(Smallest(pending(stack[k])))'[2] = stack'[k + 1].node
    <3>1. PICK n : n = Smallest(pending(stack[k]))
      BY Zenon
    <3>2. pending(stack[k]) # {} /\ edge(n)[2] = stack[k + 1].node
      BY <2>1, <2>3, <3>1, Zenon DEF Calls
    <3>3. edge(n)' = edge(n)
      BY <1>1, Steady, Zenon
    <3> QED
      BY <1>1, <2>2, <3>1, <3>2, <3>3, Zenon
  <2>4. (\A j, k \in DOMAIN stack : stack[j].node = stack[k].node => j = k)'
    BY <1>1, <2>1, Zenon DEF Calls
  <2>5. (\A d \in Names(registry) : visit[d] = "VISITING" <=> \E k \in DOMAIN stack : stack[k].node = d)'
    BY <1>1, <2>1, Zenon DEF Calls
  <2>6. Calls(DOMAIN stack)'
    BY <1>1, <2>2, <2>3, <2>4, <2>5, Zenon DEF Calls
  <2> QED
    BY <1>1, <2>6, Zenon DEF IInv, StackInv
<1> QED
  BY <1>1, <1>2, <1>4, <1>5, <1>6, Zenon DEF IInv

\* The invariant holds in every state of every run in which init_all is not called again
\* after exit_all.
THEOREM Inductive ==
    ASSUME ~Restart
    PROVE  Spec => []IInv
<1>1. IInv /\ [Next]_vars => IInv'
  <2> SUFFICES ASSUME IInv, [Next]_vars PROVE IInv'
    BY Zenon
  <2>1. CASE init_all
    BY <2>1, InitAllKeeps, Zenon
  <2>2. CASE exit_all
    BY <2>2, ExitAllKeeps, Zenon
  <2>3. CASE visit_next
    BY <2>3, VisitNextKeeps, Zenon
  <2>4. CASE visit_dependency
    BY <2>4, VisitDependencyKeeps, Zenon
  <2>5. CASE run_driver
    BY <2>5, RunDriverKeeps, Zenon
  <2>6. CASE register_capabilities
    BY <2>6, RegisterCapabilitiesKeeps, Zenon
  <2>7. CASE exit_next
    BY <2>7, ExitNextKeeps, Zenon
  <2>8. CASE UNCHANGED vars
    BY <2>8, StutterKeeps, Zenon
  <2> QED
    BY <2>1, <2>2, <2>3, <2>4, <2>5, <2>6, <2>7, <2>8, Zenon DEF Next, Step
<1> QED
  BY <1>1, InitIInv, PTL DEF Spec

\* The arrays of m_state never overflow, though run_driver writes the one of the started
\* drivers without a check, and exit_all meets every driver that is up exactly once.
THEOREM OrderAlwaysSound ==
    ASSUME ~Restart
    PROVE  Spec => []OrderSound
<1>1. IInv => OrderSound
  BY Zenon DEF IInv
<1> QED
  BY <1>1, Inductive, PTL

\* No driver is ever up without the drivers that it depends on, directly or through a
\* capability: not during init_all, after a start that failed half way, or during exit_all.
THEOREM DependenciesAlwaysUp ==
    ASSUME ~Restart
    PROVE  Spec => []DependenciesUp
<1>1. IInv => DependenciesUp
  <2> SUFFICES ASSUME IInv, NEW d \in initialized PROVE DependsOn(d) \subseteq initialized
    BY Zenon DEF DependenciesUp
  <2>1. PICK m \in Nat : /\ m <= Len(order) /\ {order[k] : k \in 1 .. m} = initialized
    <3>1. Len(order) \in Nat /\ DOMAIN order = 1 .. Len(order)
      BY SequenceDomain, Zenon DEF IInv, OrderInv
    <3>2. CASE op.kind = "exit"
      <4>1. op.at \in Nat /\ op.at <= Len(order) /\ {order[k] : k \in 1 .. op.at} = initialized
        BY <3>2, Zenon DEF IInv, OrderSound, TypeOK, OrderListsInitialized, CallsInv
      <4> QED
        BY <4>1, Zenon
    <3>3. CASE op.kind # "exit"
      <4>1. {order[k] : k \in 1 .. Len(order)} = initialized
        BY <3>1, <3>3, Zenon DEF IInv, OrderSound, OrderListsInitialized
      <4> QED
        BY <3>1, <4>1
    <3> QED
      BY <3>2, <3>3, Zenon
  <2>2. PICK k \in 1 .. m : d = order[k]
    BY <2>1, Zenon
  <2>3. k \in DOMAIN order /\ 1 .. k - 1 \subseteq 1 .. m
    BY <2>1, SequenceDomain DEF IInv, OrderInv
  <2>4. DependsOn(d) \subseteq {order[j] : j \in 1 .. k - 1}
    BY <2>2, <2>3, Zenon DEF IInv, OrderInv
  <2> QED
    BY <2>1, <2>3, <2>4, Zenon
<1> QED
  BY <1>1, Inductive, PTL

\* When init_all has answered ok, every driver is up and find_capability finds a provider
\* that is up for every capability a driver needs; it answers DEPENDENCY_CYCLE only if the
\* registry has a cycle.
THEOREM AnswersAlwaysTrue ==
    ASSUME ~Restart
    PROVE  Spec => []AnswersAreTrue
<1>1. IInv => AnswersAreTrue
  <2> SUFFICES ASSUME IInv PROVE AnswersAreTrue
    BY Zenon
  <2>1. ASSUME initialized_all, op = Idle
        PROVE  /\ initialized = Names(registry)
               /\ \A k \in DOMAIN registry.needs : find_capability(registry.needs[k][2]) \in initialized
    <3>1. op.kind # "exit" /\ ~exited /\ built
      BY <2>1, Zenon DEF Idle, IInv, CallsInv
    <3>2. initialized = Names(registry)
      BY <2>1, <3>1, Zenon DEF IInv, CallsInv
    <3>3. registry \in Registries /\ Accepted(registry)
      BY <3>1, AcceptedIs, Zenon DEF IInv, CallsInv
    <3>4. ASSUME NEW k \in DOMAIN registry.needs
          PROVE  find_capability(registry.needs[k][2]) \in initialized
      <4> PICK cap : cap = registry.needs[k][2]
        BY Zenon
      <4> DEFINE found == {c \in DOMAIN capabilities : capabilities[c][2] = cap}
      <4>1. PICK j \in DOMAIN registry.provides : registry.provides[j][2] = cap
        BY <3>3, Zenon DEF Accepted
      <4>2. registry.provides[j][1] \in initialized
        BY <3>2, <3>3, Zenon DEF Accepted
      <4>3. PICK c \in DOMAIN capabilities : capabilities[c] = <<registry.provides[j][1], cap>>
        BY <3>1, <4>1, <4>2, Zenon DEF IInv, UpInv, Recorded
      <4>4. found # {}
        <5>1. capabilities[c][2] = cap
          BY <4>3
        <5> QED
          BY <5>1, Zenon
      <4>5. DOMAIN capabilities \subseteq Nat
        BY SequenceDomain DEF IInv, CallsInv
      <4>6. Smallest(found) \in found
        BY <4>4, <4>5, SmallestIs, Zenon
      <4>7. capabilities[Smallest(found)][1] \in Names(registry)
        BY <4>6, Zenon DEF IInv, CallsInv
      <4> QED
        BY <3>2, <4>4, <4>7, Zenon DEF find_capability
    <3> QED
      BY <3>2, <3>4, Zenon
  <2>2. OkMeansAllUp
    BY <2>1, Zenon DEF OkMeansAllUp
  <2> QED
    BY <2>2, Zenon DEF AnswersAreTrue, IInv
<1> QED
  BY <1>1, Inductive, PTL
=============================================================================
