---------------------------- MODULE MCRadixTree ----------------------------
(***************************************************************************)
(* Four levels of two entries, as on x86_64: sixteen canonical pages, the  *)
(* first and the last eight of a space of thirty-two, and leaves of one,   *)
(* two and four pages.  The kernel's window is pages 24 and 25.            *)
(***************************************************************************)
EXTENDS RadixTree, TLC

CONSTANTS t1, t2, t3

MCFrames == {t1, t2, t3}
MCImageTables ==
    [l \in 2 .. 4 |-> CASE l = 4 -> "m_pml4" [] l = 3 -> "m_kernel_pdpt" [] l = 2 -> "m_kernel_pd"]
Symmetric == Permutations(MCFrames)

Data == {"WRITE", "GLOBAL"}
Text == {"EXEC", "GLOBAL"}

C(kind, va, length, level, frame, prot) ==
    [kind |-> kind, va |-> va, length |-> length, level |-> level, frame |-> frame, prot |-> prot]

\* Pages of every size, ranges that overlap, that touch the window, that leave the
\* canonical addresses and that reach the end of the space.
MCCalls ==
    {C("map", 0, 4, 3, 4, Data), C("map", 1, 2, 1, 5, Data), C("map", 2, 2, 2, 6, Data),
     C("map", 31, 2, 1, 8, Data), C("map", 1, 1, 2, 4, Data),
     C("protect", 1, 1, 1, 0, Text), C("protect", 24, 2, 1, 0, Text), C("protect", 0, 2, 2, 0, Text),
     C("unmap", 0, 3, 1, 0, {}), C("unmap", 2, 2, 2, 0, {}), C("unmap", 25, 1, 1, 0, {}),
     C("unmap", 24, 8, 1, 0, {}), C("unmap", 7, 18, 1, 0, {}), C("unmap", 31, 2, 1, 0, {})}

\* A few calls, for the runs in which the processor uses the addresses meanwhile.
MCFewCalls ==
    {C("map", 0, 4, 3, 4, Data), C("map", 1, 1, 1, 5, Data),
     C("protect", 0, 2, 1, 0, Text), C("unmap", 1, 1, 1, 0, {}), C("unmap", 0, 4, 1, 0, {})}

\* map_mmio: the aperture at P is mapped at the window's base plus P, uncached.
MCMmioCalls ==
    {C("map", pa, length, 1, pa, {"WRITE", "GLOBAL", "UNCACHED"}) : pa \in {0, 1}, length \in {1, 2}}
=============================================================================
