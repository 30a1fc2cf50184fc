----------------------------- MODULE MCSfsDirs -----------------------------
(* Directories inside which there are names, and more names                *)
(* in the root than one block holds.  The blocks are half as long as the   *)
(* shortest real ones.                                                     *)
EXTENDS SfsDirs, Bitmap

MCPaths == {<<"a">>, <<"b">>, <<"c">>, <<"a", "a">>, <<"a", "b">>, <<"b", "a">>}

(* The layout, for volumes of every size up to 5000 blocks. *)
ASSUME LaidOut == \A n \in 0 .. 5000 : WellLaid(Superblock(n))

(* Bitmaps of a few short words behave as the sets SfsDirs takes them for. *)
ASSUME BitmapsAreSets ==
  \A bitmap \in Bitmaps : /\ \A bit \in BitNumbers : ActsAsSet(bitmap, bit)
                          /\ \A size \in 0 .. Words * BITMAP_BITS : FindsFirst(bitmap, size)
=============================================================================
