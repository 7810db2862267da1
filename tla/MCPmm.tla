------------------------------- MODULE MCPmm -------------------------------
(***************************************************************************)
(* Two runs of two blocks of three frames, each of two units of address.   *)
(* The boot informations: a large page and one frame before it usable; a   *)
(* map whose usable regions start and end inside frames, overlap reserved  *)
(* ranges and reach past the ceiling; one region beyond the ceiling; a     *)
(* large page that lacks its last frame; nothing usable.                   *)
(***************************************************************************)
EXTENDS Pmm

Range(b, l) == [base |-> b, length |-> l]

MCImage == Range(2, 1)

MCBootInfos ==
    {[usable |-> {Range(10, 14)}, reserved |-> {}],
     [usable |-> {Range(0, 9), Range(9, 6), Range(15, 100)},
      reserved |-> {Range(7, 1), Range(20, 0), Range(23, 40)}],
     [usable |-> {Range(24, 8), Range(5, 2)}, reserved |-> {}],
     [usable |-> {Range(12, 12)}, reserved |-> {Range(11, 1), Range(23, 1)}],
     [usable |-> {}, reserved |-> {Range(0, 24)}]}
=============================================================================
