------------------------------ MODULE MCKmalloc ------------------------------
(***************************************************************************)
(* Slabs of two pages of eight units; the header row is the second, as the *)
(* 32-byte row is not the smallest; requests for a header-sized object,    *)
(* for half a slab, a whole slab and three pages.                          *)
(***************************************************************************)
EXTENDS Kmalloc

MCSizes == {1, 2, 4, 8, 16}
MCRequests == {2, 7, 16, 17}
=============================================================================
