----------------------------- MODULE InitGraph -----------------------------
(***************************************************************************)
(* kernel/init/init_graph.hpp: the order in which the components of a      *)
(* graph are initialized, which templates compute from lists of types.     *)
(*                                                                         *)
(* deps is a function from components to the lists of what they depend on. *)
(***************************************************************************)
EXTENDS Integers, Sequences, SequencesExt

list_contains(list, c) == \E i \in DOMAIN list : list[i] = c

list_append_unique(list, c) == IF list_contains(list, c) THEN list ELSE Append(list, c)

list_concat_unique(a, b) == FoldLeft(list_append_unique, a, b)

\* Faulty: one element of the list stays, whether excluded or not.
list_filter_out_KeepHead(list, excluded) ==
    IF list = <<>> THEN <<>>
    ELSE <<Head(list)>> \o SelectSeq(Tail(list), LAMBDA c : ~list_contains(excluded, c))

list_filter_out(list, excluded) == SelectSeq(list, LAMBDA c : ~list_contains(excluded, c))

\* topo_component and topo_list; visiting is the path from the root, and the walk does not
\* descend from a component that is on it.
RECURSIVE topo_component(_, _, _), topo_list(_, _, _)
topo_component(deps, c, visiting) ==
    LET is_cyclic == list_contains(visiting, c)
        deps_sorted == topo_list(deps, IF is_cyclic THEN <<>> ELSE deps[c], Append(visiting, c))
    IN  list_append_unique(deps_sorted, c)
topo_list(deps, list, visiting) ==
    IF list = <<>> THEN <<>>
    ELSE list_concat_unique(topo_component(deps, Head(list), visiting), topo_list(deps, Tail(list), visiting))

\* Whether some static_assert of topo_component stops the compiler.
RECURSIVE asserts_cycle(_, _, _)
asserts_cycle(deps, list, visiting) ==
    \E i \in DOMAIN list :
       list_contains(visiting, list[i]) \/ asserts_cycle(deps, deps[list[i]], Append(visiting, list[i]))

sorted_components(deps, roots) == topo_list(deps, roots, <<>>)
runnable_components(deps, roots, satisfied) ==
    list_filter_out(sorted_components(deps, roots), sorted_components(deps, satisfied))
-----------------------------------------------------------------------------
\* The components that some need, directly or not.
RECURSIVE Needed(_, _)
Needed(deps, some) ==
    LET more == some \cup UNION {ToSet(deps[c]) : c \in some}
    IN  IF more = some THEN some ELSE Needed(deps, more)

OnCycle(deps, c) == c \in Needed(deps, ToSet(deps[c]))

\* A list of components starts each one once and after all it depends on; those in before
\* have run already.
InOrder(deps, list, before) ==
    \A i \in DOMAIN list :
       /\ list[i] \notin before /\ \A j \in 1 .. i - 1 : list[j] # list[i]
       /\ \A d \in ToSet(deps[list[i]]) : d \in before \/ \E j \in 1 .. i - 1 : list[j] = d

\* The compiler refuses a graph exactly if its roots need a component that needs itself;
\* otherwise the order has what the roots need, each component once and after what it
\* depends on, however dependencies are shared (init_graph.hpp:77-106).
GraphInOrder(deps, roots) ==
    LET cyclic == \E c \in Needed(deps, ToSet(roots)) : OnCycle(deps, c)
    IN  /\ asserts_cycle(deps, roots, <<>>) <=> cyclic
        /\ ~cyclic => /\ InOrder(deps, sorted_components(deps, roots), {})
                      /\ ToSet(sorted_components(deps, roots)) = Needed(deps, ToSet(roots))

\* What runs after another graph is what that graph did not run, still in an order in
\* which every dependency has run before (init_graph.hpp:165-183).
AfterRunsTheRest(deps, roots, satisfied) ==
    (\A c \in Needed(deps, ToSet(roots) \cup ToSet(satisfied)) : ~OnCycle(deps, c)) =>
       /\ InOrder(deps, runnable_components(deps, roots, satisfied), Needed(deps, ToSet(satisfied)))
       /\ ToSet(runnable_components(deps, roots, satisfied)) =
             Needed(deps, ToSet(roots)) \ Needed(deps, ToSet(satisfied))
=============================================================================
