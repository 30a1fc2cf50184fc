----------------------------- MODULE MCSfsFile -----------------------------
(* Two files and two descriptors on a small volume.                        *)
EXTENDS SfsLseek, TLC

Symmetry == Permutations(Files) \cup Permutations(Desc)

(* The block map by itself, on a volume large enough for all three trees.  *)
Map == INSTANCE SfsBlocks WITH NumDirect <- 2, Ptrs <- 2, NumBlocks <- 48

(* A file of n blocks, made as sfs_write makes it: a block is taken and    *)
(* added at the end, n times.                                              *)
OneMore(s, i) ==
  LET b == Map!FirstCleared(s.vol.used)
      r == Map!SetPhys([s.vol EXCEPT !.used = @ \cup {b}], s.inode, i, b)
  IN [vol |-> r.vol, inode |-> r.inode, phys |-> Append(s.phys, b), ret |-> r.ret]
MadeOf(n) ==
  FoldLeft(LAMBDA s, i : OneMore(s, i - 1),
           [vol |-> [used |-> {0}, disk |-> [b \in Map!Blocks |-> Map!NoPtrs]],
            inode |-> Map!EmptyInode, phys |-> <<>>, ret |-> 0],
           [i \in 1 .. n |-> i])

(* Whatever the length of a file, up to its 2 + 2 + 4 + 8 blocks, every    *)
(* one of its blocks is found where it was put, the next is found missing, *)
(* and nothing but its blocks is taken.  Adding a block a second time is   *)
(* refused in the first two levels; below them the refusal is lost.        *)
ASSUME MapFindsAll ==
  \A n \in 0 .. 16 : LET s == MadeOf(n) IN
     /\ \A i \in 1 .. n : /\ Map!Log2Phys(s.vol.disk, s.inode, i - 1) = s.phys[i]
                          /\ Map!SetPhys(s.vol, s.inode, i - 1, 1).ret < 0 <=> i <= 4
     /\ Map!Log2Phys(s.vol.disk, s.inode, n) = 0
     /\ Map!Named(s.vol.disk, s.inode) = s.vol.used \ {0}
=============================================================================
