--------------------------- MODULE MCPageTables ---------------------------
(* A small memory: a section is two frames, a top level table two frames   *)
(* aligned to four, and a page holds two second level tables.              *)
EXTENDS PageTables

MCFrames == {2, 3} \cup 4 .. 6 \cup {8, 9}
MCUserFrames == {20, 21}
MCSections == (3 :> 6)
MCStatics == (4 :> 30)
===========================================================================
