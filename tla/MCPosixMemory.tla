--------------------------- MODULE MCPosixMemory ---------------------------
(***************************************************************************)
(* A window of three pages, two ranges, three frames, an MMIO window of    *)
(* two pages.                                                              *)
(***************************************************************************)
EXTENDS PosixMemory

CONSTANTS f1, f2, f3

MCFrames == {f1, f2, f3}
=============================================================================
