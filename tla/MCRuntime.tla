----------------------------- MODULE MCRuntime -----------------------------
(***************************************************************************)
(* Three cores, one for every lock of the chain.                           *)
(***************************************************************************)
EXTENDS Runtime

CONSTANTS c1, c2, c3

MCCores == {c1, c2, c3}
=============================================================================
