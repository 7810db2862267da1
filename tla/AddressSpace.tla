---------------------------- MODULE AddressSpace ----------------------------
(***************************************************************************)
(* What an address space promises its callers (map_range, protect_range,   *)
(* unmap_range and translate of arch/common/mmu/radix_tree.hpp): a partial *)
(* function from pages to frames, changed page by page inside the range of *)
(* the call in progress.  Tables, levels, splitting and pruning are not    *)
(* visible.  RadixTree implements this specification.                      *)
(***************************************************************************)
EXTENDS Integers

CONSTANTS Pages, Space, NotMapped, NoCall

VARIABLES
    mapping,  \* for every page, its frame and flags or NotMapped
    call,     \* the call in progress, or NoCall
    answer    \* what the last call returned, or the frames last unmapped

vars == <<mapping, call, answer>>

Range(c) == {(c.va + o) % Space : o \in 0 .. c.length - 1}
Wanted(c, v) == [frame |-> c.frame + ((v - c.va) % Space), flags |-> c.flags]

\* What one step may do to page v, whose translation is m before and n after it.
MapPage(c, v, m, n) == m = NotMapped /\ n = Wanted(c, v)
ProtectPage(c, m, n) == m # NotMapped /\ n = [frame |-> m.frame, flags |-> c.flags]
UnmapPage(m, n) == m # NotMapped /\ n = NotMapped

Complete(c, m) ==
    /\ Range(c) \subseteq Pages
    /\ \A v \in Range(c) :
          CASE c.kind = "map" -> m[v] = Wanted(c, v)
            [] c.kind = "protect" -> m[v] # NotMapped /\ m[v].flags = c.flags
            [] c.kind = "unmap" -> m[v] = NotMapped

Changed == {v \in Pages : mapping'[v] # mapping[v]}

\* Unmapped pages are reported as one run of frames.
Reported ==
    /\ answer'.status = "removed"
    /\ \E first \in Changed :
          /\ Changed = first .. first + answer'.pages - 1
          /\ \A v \in Changed : mapping[v].frame = answer'.frame + (v - first)
-----------------------------------------------------------------------------
Init == call = NoCall /\ answer.status = "none"

Begin ==
    /\ call = NoCall /\ call' # NoCall
    /\ UNCHANGED <<mapping, answer>>

Refuse ==
    /\ call = NoCall /\ answer'.status = "INVALID_ADDRESS"
    /\ UNCHANGED <<mapping, call>>

Work ==
    /\ call # NoCall
    /\ Changed \subseteq Range(call)
    /\ \A v \in Changed :
          \/ call.kind = "map" /\ MapPage(call, v, mapping[v], mapping'[v])
          \/ call.kind = "protect" /\ ProtectPage(call, mapping[v], mapping'[v])
          \/ call.kind = "unmap" /\ UnmapPage(mapping[v], mapping'[v])
    /\ call.kind = "unmap" /\ Changed # {} => Reported
    /\ \/ UNCHANGED call /\ (call.kind # "unmap" => UNCHANGED answer)
       \/ call' = NoCall /\ (answer'.status = "ok" => Complete(call, mapping'))

Next == Begin \/ Refuse \/ Work

Spec == Init /\ [][Next]_vars
=============================================================================
