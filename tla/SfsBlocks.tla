----------------------------- MODULE SfsBlocks -----------------------------
(***************************************************************************)
(* filesystem/sfs/sfs_fileblock.c: where the blocks of a file are.  An     *)
(* inode names NUM_DIRECT blocks itself and three trees of blocks of       *)
(* pointers, one, two and three levels deep.  sfs_log2phys follows the     *)
(* tree; sfs_set_phys adds a block to it, taking blocks for the pointers   *)
(* as it goes down.                                                        *)
(* A block number is a Nat; 0 is "none".  The error codes -1 and -2 that   *)
(* the code stores into block numbers when a nested call fails (they read  *)
(* as 0xFFFFFFFF and 0xFFFFFFFE) stay negative here: they name no block.   *)
(***************************************************************************)
EXTENDS Integers, FiniteSets, Sequences, SequencesExt

CONSTANTS
  NumDirect,   \* NUM_DIRECT
  Ptrs,        \* block_size >> 2: pointers in a block, a power of two
  NumBlocks    \* num_blocks of the superblock

ASSUME SfsBlocksAssumption == /\ NumDirect \in Nat \ {0}
                              /\ Ptrs \in Nat \ {0}
                              /\ NumBlocks \in Nat \ {0}

Blocks == 0 .. NumBlocks - 1
NoPtrs == [k \in 0 .. Ptrs - 1 |-> 0]
EmptyInode == [size |-> 0, direct |-> [k \in 0 .. NumDirect - 1 |-> 0], root |-> [l \in 1 .. 3 |-> 0]]
-----------------------------------------------------------------------------
(* sfs_calc_block_loc: the first file block of the trees of one, two and   *)
(* three levels, and the first one too far; the level of a file block; the *)
(* way down to it from the root, the digits of its number in base Ptrs.    *)
Starts == <<NumDirect, NumDirect + Ptrs, NumDirect + Ptrs + Ptrs * Ptrs,
            NumDirect + Ptrs + Ptrs * Ptrs + Ptrs * Ptrs * Ptrs>>
Level(i) == CASE i < Starts[1] -> 0
              [] i >= Starts[1] /\ i < Starts[2] -> 1
              [] i >= Starts[2] /\ i < Starts[3] -> 2
              [] i >= Starts[3] /\ i < Starts[4] -> 3
              [] OTHER -> 4

Index(i) == LET r == i - Starts[Level(i)]
            IN CASE Level(i) = 1 -> <<r>>
                 [] Level(i) = 2 -> <<r \div Ptrs, r % Ptrs>>
                 [] Level(i) = 3 -> <<(r \div Ptrs) \div Ptrs, (r \div Ptrs) % Ptrs, r % Ptrs>>
-----------------------------------------------------------------------------
(* One step of sfs_log2phys_recurse: a missing block is passed over. *)
Down(disk, b, k) == IF b \in Blocks \ {0} THEN disk[b][k] ELSE b

(* sfs_log2phys *)
Log2Phys(disk, inode, i) ==
  LET l == Level(i)
      first == Down(disk, inode.root[l], Index(i)[1])
      second == Down(disk, first, Index(i)[2])
  IN CASE l = 0 -> inode.direct[i]
       [] l = 1 -> first
       [] l = 2 -> second
       [] l = 3 -> Down(disk, second, Index(i)[3])
       [] l = 4 -> 0

(* first_cleared *)
FirstCleared(used) == CHOOSE b \in Blocks \ used : \A c \in Blocks \ used : b <= c

(* The head of sfs_set_phys_recurse: the block of pointers b, or a new     *)
(* block of zeros if there is none.                                        *)
Entered(vol, b) ==
  IF b # 0 THEN [vol |-> vol, block |-> b]
  ELSE IF vol.used = Blocks THEN [vol |-> vol, block |-> -1]
  ELSE LET new == FirstCleared(vol.used)
       IN [vol |-> [used |-> vol.used \cup {new}, disk |-> [vol.disk EXCEPT ![new] = NoPtrs]],
           block |-> new]

(* sfs_set_phys_recurse at depth 0, in the block e: the pointer must not   *)
(* be set.                                                                 *)
SetLast(e, k, phys) ==
  CASE e.block < 0 -> [vol |-> e.vol, ret |-> -1]
    [] e.block >= 0 /\ e.vol.disk[e.block][k] # 0 -> [vol |-> e.vol, ret |-> -2]
    [] OTHER -> [vol |-> [e.vol EXCEPT !.disk[e.block][k] = phys], ret |-> e.block]

(* sfs_set_phys_recurse above it: whatever the nested call r returns is    *)
(* stored as a pointer: the test for a negative one is on an unsigned      *)
(* number and never holds.                                                 *)
Stored(e, k, r) == IF e.block < 0 THEN [vol |-> e.vol, ret |-> -1]
                   ELSE [vol |-> [r.vol EXCEPT !.disk[e.block][k] = r.ret], ret |-> e.block]
Child(e, k) == Entered(e.vol, e.vol.disk[e.block][k])
SetSecond(e, path, phys) == Stored(e, path[1], SetLast(Child(e, path[1]), path[2], phys))
SetThird(e, path, phys) == Stored(e, path[1], SetSecond(Child(e, path[1]), Tail(path), phys))

SetPath(e, path, phys) ==
  CASE Len(path) = 1 -> SetLast(e, path[1], phys)
    [] Len(path) = 2 -> SetSecond(e, path, phys)
    [] Len(path) = 3 -> SetThird(e, path, phys)

(* sfs_set_phys.  The result of the recursion becomes the root, whatever   *)
(* it is; put says that the inode is written to disk.  A file block beyond *)
(* the last level is answered 0, as success is.                            *)
Result(vol, inode, ret, put) == [vol |-> vol, inode |-> inode, ret |-> ret, put |-> put]
Rooted(inode, l, r) == Result(r.vol, [inode EXCEPT !.root[l] = r.ret],
                              IF r.ret < 0 THEN r.ret ELSE 0,
                              r.ret > 0 /\ r.ret # inode.root[l])
SetPhys(vol, inode, i, phys) ==
  LET l == Level(i)
  IN CASE l = 0 /\ inode.direct[i] # 0 -> Result(vol, inode, -1, FALSE)
       [] l = 0 /\ inode.direct[i] = 0 -> Result(vol, [inode EXCEPT !.direct[i] = phys], 0, TRUE)
       [] l = 4 -> Result(vol, inode, 0, FALSE)
       [] OTHER -> Rooted(inode, l, SetPath(Entered(vol, inode.root[l]), Index(i), phys))
-----------------------------------------------------------------------------
(* Every number an inode's map holds, with the place that holds it: the    *)
(* way down from the root, starting with the level.                        *)
Places(disk, inode) ==
  LET Under(S) == UNION {{<<Append(e[1], k), disk[e[2]][k]>> : k \in 0 .. Ptrs - 1} : e \in {x \in S : x[2] \in Blocks \ {0}}}
      Root(l) == {<<<<l>>, inode.root[l]>>}
      all == {<<<<0, k>>, inode.direct[k]>> : k \in 0 .. NumDirect - 1}
               \cup Root(1) \cup Under(Root(1))
               \cup Root(2) \cup Under(Root(2)) \cup Under(Under(Root(2)))
               \cup Root(3) \cup Under(Root(3)) \cup Under(Under(Root(3))) \cup Under(Under(Under(Root(3))))
  IN {e \in all : e[2] # 0}
Named(disk, inode) == {e[2] : e \in Places(disk, inode)}
=============================================================================
