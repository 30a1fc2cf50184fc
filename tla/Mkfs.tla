-------------------------------- MODULE Mkfs --------------------------------
(***************************************************************************)
(* ramdisktools/mkfs_sfs.c: where the parts of a new volume lie.  A volume *)
(* of sectors blocks of BlockSize bytes (one sector each) begins with the  *)
(* boot block and the superblock; the bitmap of blocks, the bitmap of      *)
(* inodes, the inodes and the root directory's block follow.               *)
(***************************************************************************)
EXTENDS Integers

CONSTANTS
  BlockSize,      \* bytes of a block: 128, or more
  InodeSize,      \* sizeof(sfs_inode_t): 64
  BytesPerInode   \* 4096

ASSUME MkfsAssumption == /\ {BlockSize, InodeSize, BytesPerInode} \subseteq Nat \ {0}
                         /\ BlockSize % InodeSize = 0

(* n things, per of them in a block: the quotient, one more if that is     *)
(* too few.                                                                *)
BlocksFor(n, per) == IF (n \div per) * per < n THEN (n \div per) + 1 ELSE n \div per

(* One inode for every BytesPerInode bytes, at most one for a block. *)
NumInodes(blocks) == LET n == (blocks * BlockSize) \div BytesPerInode
                     IN IF n > blocks THEN blocks ELSE n

Superblock(blocks) ==
  LET bitmap == BlocksFor(blocks, BlockSize * 8)
      ibitmap == BlocksFor(NumInodes(blocks), BlockSize * 8)
      table == BlocksFor(NumInodes(blocks), BlockSize \div InodeSize)
  IN [num_blocks |-> blocks,
      superblock |-> 1,
      free_block_bitmap |-> 2,
      num_inodes |-> NumInodes(blocks),
      free_inode_bitmap |-> 2 + bitmap,
      inodes |-> 2 + bitmap + ibitmap,
      rootdir |-> 2 + bitmap + ibitmap + table,
      totalblocks |-> 3 + bitmap + ibitmap + table]

(* The blocks that are marked as used on the new volume. *)
Marked(super) == 0 .. super.totalblocks - 1
-----------------------------------------------------------------------------
(* The part that starts at block first and ends before block next has room *)
(* for n things of which per go in a block, and no block is wasted.        *)
Holds(first, next, n, per) == /\ n <= (next - first) * per
                              /\ (next - first) * per < n + per

(* The parts follow each other, each as long as its contents need, and the *)
(* blocks that are marked are exactly these parts.                         *)
WellLaid(super) ==
  /\ super.superblock < super.free_block_bitmap
  /\ Holds(super.free_block_bitmap, super.free_inode_bitmap, super.num_blocks, BlockSize * 8)
  /\ Holds(super.free_inode_bitmap, super.inodes, super.num_inodes, BlockSize * 8)
  /\ Holds(super.inodes, super.rootdir, super.num_inodes, BlockSize \div InodeSize)
  /\ Marked(super) = 0 .. super.rootdir
=============================================================================
