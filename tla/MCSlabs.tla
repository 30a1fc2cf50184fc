------------------------------- MODULE MCSlabs -------------------------------
(***************************************************************************)
(* A heap of eight or nine pages, of which the search never uses the last; *)
(* slabs of two pages, and blocks of three for larger objects.             *)
(***************************************************************************)
EXTENDS Slabs, TLC

MCSizes == {2, 3}
Symmetry == Permutations(Frames)
=============================================================================
