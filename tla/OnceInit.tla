----------------------------- MODULE OnceInit -----------------------------
(***************************************************************************)
(* What the compiler expects of the guard of a static object: one core at  *)
(* a time tries to construct it, a failed attempt leaves it absent, and a  *)
(* core that asks gets to use it only once it is there.                    *)
(***************************************************************************)
CONSTANT Cores

VARIABLES object, phase

Init == object = "absent" /\ phase = [c \in Cores |-> "away"]

Move(c, from, to) == phase[c] = from /\ phase' = [phase EXCEPT ![c] = to]

Ask(c) == Move(c, "away", "asking") /\ UNCHANGED object
Begin(c) == Move(c, "asking", "building") /\ object = "absent" /\ object' = "underway"
Finish(c) == Move(c, "building", "using") /\ object = "underway" /\ object' = "ready"
Fail(c) == Move(c, "building", "away") /\ object = "underway" /\ object' = "absent"
Get(c) == Move(c, "asking", "using") /\ object = "ready" /\ UNCHANGED object
Leave(c) == Move(c, "using", "away") /\ UNCHANGED object

Next == \E c \in Cores : Ask(c) \/ Begin(c) \/ Finish(c) \/ Fail(c) \/ Get(c) \/ Leave(c)

Spec == Init /\ [][Next]_<<object, phase>>
=============================================================================
