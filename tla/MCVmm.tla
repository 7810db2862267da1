------------------------------- MODULE MCVmm -------------------------------
(***************************************************************************)
(* A window of eight pages of two units, a table of three entries, an MMIO *)
(* window of one page, and four frames.  The byte counts are zero, a page, *)
(* one that ends inside a page, more than the window, and one that wraps   *)
(* around the end of the address space.                                    *)
(***************************************************************************)
EXTENDS Vmm, TLC

CONSTANTS f1, f2, f3, f4

MCFrames == {f1, f2, f3, f4}
Symmetric == Permutations(MCFrames)
=============================================================================
