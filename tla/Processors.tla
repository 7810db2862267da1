----------------------------- MODULE Processors -----------------------------
(***************************************************************************)
(* The cores that execute the kernel.  Only the boot processor is started  *)
(* at present; the locks and the guards are written for more.              *)
(***************************************************************************)
CONSTANT Cores

ASSUME CoresAssumption == Cores # {}
=============================================================================
