------------------------------ MODULE MCPhysMem ------------------------------
(***************************************************************************)
(* A physical address space of 14 frames laid out like the SA1110's: a     *)
(* hole that is not probed, a bank of RAM that starts with the kernel, a   *)
(* reserved area inside it, a frame that fails the probe, and a reserved   *)
(* top.                                                                    *)
(***************************************************************************)
EXTENDS PhysMem

MCNoProbe == {<<0, 0>>, <<6, 6>>, <<11, 13>>}
MCKernel == <<1, 2>>
MCRam == 1 .. 13 \ {9}

(* Runs of one to three frames on boundaries of one, two and four. *)
MCRequests == {[pages |-> 1, align |-> 1], [pages |-> 2, align |-> 1],
               [pages |-> 2, align |-> 2], [pages |-> 3, align |-> 1],
               [pages |-> 1, align |-> 3]}

=============================================================================
