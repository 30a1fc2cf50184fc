--------------------------- MODULE SfsFileProofs ---------------------------
(***************************************************************************)
(* Proofs about SfsFile and SfsLseek, for blocks, pointers, volumes and    *)
(* files of any size, and any number of descriptors: every byte written is *)
(* found again through the three levels of the map, no block has two       *)
(* owners, and none is lost.                                               *)
(*                                                                         *)
(* The code keeps no record of what a block is there for: that is only to  *)
(* be told from the map that names it, and the maps of open files are in   *)
(* their descriptors, older and newer ones. The invariant IInv gives each  *)
(* block a role, the file and the place in its map that the block is there *)
(* for, which it keeps as long as it is in use.  With a role, what is      *)
(* known of the volume is known of each block alone (InOrder): a block for *)
(* a place of pointers holds numbers for the places under it.  Two places  *)
(* cannot name one block, since it has one role.  What is known of a file  *)
(* (FilesRight) is that its newest map has a block for each position below *)
(* its size, that each byte is in its block or in the buffer that is not   *)
(* saved yet, and that all blocks that are there for the file are named.   *)
(*                                                                         *)
(* First come the places of a map and its blocks (to SetPhysOK), then what *)
(* sfs_write, sfs_read and sfs_lseek do to a descriptor, step by step (to  *)
(* SameBlockGoes), then the other files, which keep what they have, then   *)
(* the actions (to Invariant), and what the invariant implies.             *)
(***************************************************************************)
EXTENDS SfsLseek, WellFoundedInduction, TLAPS

(* The places of a map: a file block that the inode names itself, or the   *)
(* level of a tree, how far down the place is, and the way to it.          *)
Digit == 0 .. Ptrs - 1
Place == {<<0, 0, k, 0, 0>> : k \in 0 .. NumDirect - 1} \cup {<<l, 0, 0, 0, 0>> : l \in 1 .. 3}
           \cup {<<l, 1, a, 0, 0>> : l \in 1 .. 3, a \in Digit}
           \cup {<<l, 2, a, b, 0>> : l \in 2 .. 3, a \in Digit, b \in Digit}
           \cup {<<3, 3, a, b, c>> : a \in Digit, b \in Digit, c \in Digit}
Inner(p) == p[2] < p[1]
Under(p, k) == CASE p[2] = 0 -> <<p[1], 1, k, 0, 0>>
                 [] p[2] = 1 -> <<p[1], 2, p[3], k, 0>>
                 [] p[2] = 2 -> <<p[1], 3, p[3], p[4], k>>

(* The number at a place *)
At(dk, ino, p) ==
  CASE p[1] = 0 -> ino.direct[p[3]]
    [] p[1] > 0 /\ p[2] = 0 -> ino.root[p[1]]
    [] p[1] > 0 /\ p[2] = 1 -> Down(dk, ino.root[p[1]], p[3])
    [] p[1] > 0 /\ p[2] = 2 -> Down(dk, Down(dk, ino.root[p[1]], p[3]), p[4])
    [] p[1] > 0 /\ p[2] = 3 -> Down(dk, Down(dk, Down(dk, ino.root[p[1]], p[3]), p[4]), p[5])

(* The place of a file block *)
Spot(i) == CASE Level(i) \in {0, 4} -> <<0, 0, i, 0, 0>>
             [] Level(i) = 1 -> <<1, 1, Index(i)[1], 0, 0>>
             [] Level(i) = 2 -> <<2, 2, Index(i)[1], Index(i)[2], 0>>
             [] Level(i) = 3 -> <<3, 3, Index(i)[1], Index(i)[2], Index(i)[3]>>
Spots == Place \cup {<<0, 0, k, 0, 0>> : k \in Nat}

(* A number that may stand at a place of f: none, an error code, or a      *)
(* block that is there for this place.                                     *)
Holds(role, us, f, p, b) == b \in {0, -1, -2} \/ (b \in us \ {0} /\ role[b] = <<f, p>>)

Buffer == [0 .. Bytes - 1 -> Byte]
Pointers == [0 .. Ptrs - 1 -> Numbers]
Volumes == [used : SUBSET Blocks, disk : [Blocks -> Buffer \cup Pointers]]

(* The blocks of a volume, or of a call's state: role tells what each is   *)
(* there for.                                                              *)
BlockOK(role, v, b) ==
  /\ role[b][1] \in Files
  /\ IF Inner(role[b][2])
     THEN /\ v.disk[b] \in Pointers
          /\ \A k \in Digit : Holds(role, v.used, role[b][1], Under(role[b][2], k), v.disk[b][k])
     ELSE v.disk[b] \in Buffer
Vol(role, v) ==
  /\ role \in [Blocks -> (Files \cup {NoFile}) \X Spots]
  /\ 0 \in v.used /\ v.used \subseteq Blocks
  /\ v.disk \in [Blocks -> Buffer \cup Pointers]
  /\ \A b \in Blocks \ (v.used \ {0}) : v.disk[b] \in Buffer
  /\ \A b \in v.used \ {0} : BlockOK(role, v, b)

(* What is there keeps its place, other files keep what they have, and     *)
(* what is new is f's.                                                     *)
Frame(role, v, role2, w, f) ==
  /\ v.used \subseteq w.used
  /\ \A b \in v.used \ {0} : role2[b] = role[b]
  /\ \A b \in v.used \ {0} : role[b][1] # f => w.disk[b] = v.disk[b]
  /\ \A b \in w.used \ (v.used \cup {0}) : role2[b][1] = f
DataKept(role, v, w) == \A b \in v.used \ {0} : ~Inner(role[b][2]) => w.disk[b] = v.disk[b]

InodeOK(role, us, f, ino) ==
  /\ ino \in Inode
  /\ \A k \in 0 .. NumDirect - 1 : Holds(role, us, f, <<0, 0, k, 0, 0>>, ino.direct[k])
  /\ \A l \in 1 .. 3 : Holds(role, us, f, <<l, 0, 0, 0, 0>>, ino.root[l])
BlkOK(role, us, f, b) == \E p \in Spots : ~Inner(p) /\ Holds(role, us, f, p, b)
DescOK(role, us, fd) ==
  fd \in Descriptor /\ InodeOK(role, us, fd.file, fd.inode) /\ BlkOK(role, us, fd.file, fd.curr_blk)

(* Files that were not misused.  The positions of block k of a file        *)
(* start at Times(k).                                                      *)
Times(k) == k * Bytes
Mapped(dk, ino, m) ==
  \A j \in 0 .. Starts[4] - 1 : IF Times(j) < m THEN At(dk, ino, Spot(j)) # 0 ELSE At(dk, ino, Spot(j)) <= 0
FullIfNeg(us, dk, ino) == \A p \in Place : At(dk, ino, p) < 0 => us = Blocks

(* The descriptor is in block k; it has not written or read anything yet;  *)
(* it has read the last block to its end.                                  *)
InBuffer(buf, n, f, k) == \A q \in 0 .. Bytes - 1 : Times(k) + q < n => buf[q] = <<f, Times(k) + q>>
OnPos(fd, k) ==
  /\ fd.filepos = Times(k) + fd.bufpos /\ fd.bufpos \in 0 .. Bytes
  /\ Times(k) < fd.inode.size /\ fd.filepos <= fd.inode.size
Buffered(role, us, dk, ino, f, k, b, buf) ==
  /\ Holds(role, us, f, Spot(k), b)
  /\ At(dk, ino, Spot(k)) < 0 \/ (b = At(dk, ino, Spot(k)) /\ InBuffer(buf, ino.size, f, k))
On(role, us, dk, fd, k) ==
  k \in 0 .. Starts[4] - 1 /\ OnPos(fd, k) /\ Buffered(role, us, dk, fd.inode, fd.file, k, fd.curr_blk, fd.buffer)
Empty(fd) == fd.inode.size = 0 /\ fd.filepos = 0 /\ fd.bufpos = 0 /\ ~fd.dirty
Ended(fd) == fd.inode.size > 0 /\ fd.filepos = fd.inode.size /\ fd.bufpos = 0 /\ ~fd.dirty
FdRight(role, us, dk, fd) ==
  \/ Empty(fd)
  \/ fd.refused /\ ~fd.dirty /\ fd.bufpos \in 0 .. Bytes
  \/ Ended(fd)
  \/ \E k \in 0 .. Starts[4] - 1 : On(role, us, dk, fd, k)

(* Every byte written is in its block, or the block is the one in fd's     *)
(* buffer, not saved yet.                                                  *)
ByteOn(dk, ino, f, p) ==
  \/ At(dk, ino, Spot(p \div Bytes)) < 0
  \/ dk[At(dk, ino, Spot(p \div Bytes))][p % Bytes] = <<f, p>>
DataRight(dk, ino, f, dirty, blk) ==
  \A p \in 0 .. ino.size - 1 : ByteOn(dk, ino, f, p) \/ (dirty /\ blk = At(dk, ino, Spot(p \div Bytes)))

(* Every block that is there for f is named by the map. *)
Names(dk, ino, b) == \E p \in Place : At(dk, ino, p) = b
AllNamed(role, us, dk, ino, f) == us = Blocks \/ \A b \in us \ {0} : role[b][1] = f => Names(dk, ino, b)

(* The map of f, the newest there is, with what is known of its data.      *)
MapTo(role, us, dk, ino, f, dirty, blk, m) ==
  /\ Mapped(dk, ino, m) /\ FullIfNeg(us, dk, ino) /\ AllNamed(role, us, dk, ino, f)
  /\ DataRight(dk, ino, f, dirty, blk)
MapOK(role, us, dk, ino, f, dirty, blk) == MapTo(role, us, dk, ino, f, dirty, blk, ino.size)
OpenIn(fds, f) == {d \in Desc : fds[d].open /\ fds[d].file = f}
NoneOpen(role, us, dk, nodes, f, n) == MapOK(role, us, dk, nodes[f], f, FALSE, 0) /\ nodes[f].size = n
DescRight(role, us, dk, fd, n) ==
  /\ MapOK(role, us, dk, fd.inode, fd.file, fd.dirty, fd.curr_blk)
  /\ FdRight(role, us, dk, fd) /\ (fd.refused => us = Blocks)
  /\ fd.inode.size = n
FileOK(role, us, dk, nodes, fds, f, n) ==
  /\ OpenIn(fds, f) = {} => NoneOpen(role, us, dk, nodes, f, n)
  /\ \A d \in OpenIn(fds, f) :
       /\ DescRight(role, us, dk, fds[d], n)
       /\ OpenIn(fds, f) = {d} \/ (~fds[d].dirty /\ fds[d].inode = nodes[f])
-----------------------------------------------------------------------------
(* The quotient and the remainder. *)
LEMMA Division ==
  ASSUME NEW n \in Nat, NEW per \in Nat \ {0}
  PROVE  /\ n \div per \in Nat /\ n % per \in 0 .. per - 1
         /\ n = ((n \div per) * per) + (n % per)
  OBVIOUS

(* The quotient and the remainder tell the number. *)
LEMMA DivisionTells ==
  ASSUME NEW n \in Nat, NEW m \in Nat, NEW per \in Nat \ {0},
         n \div per = m \div per, n % per = m % per
  PROVE  n = m
<1>1. n = ((n \div per) * per) + (n % per) /\ m = ((m \div per) * per) + (m % per)
  BY Division
<1>. QED
  BY <1>1

(* A number below a product has its quotient below the other factor. *)
LEMMA QuotientBelow ==
  ASSUME NEW n \in Nat, NEW per \in Nat \ {0}, NEW c \in Nat, n < c * per
  PROVE  n \div per < c
<1> DEFINE q == n \div per
<1>1. q \in Nat /\ n = (q * per) + (n % per) /\ n % per \in 0 .. per - 1
  BY Division
<1> HIDE DEF q
<1>2. q * per < c * per
  BY <1>1
<1>3. CASE q >= c
  <2>1. PICK e \in Nat : q = c + e
    <3>1. q - c \in Nat /\ q = c + (q - c)
      BY <1>1, <1>3
    <3>. QED
      BY <3>1
  <2>2. q * per = c * per + e * per /\ e * per \in Nat
    BY <2>1
  <2>. QED
    BY <1>2, <2>2, <1>1
<1>. QED
  BY <1>1, <1>3 DEF q

(* Where the levels start *)
LEMMA StartsAre ==
  /\ Ptrs \in Nat \ {0} /\ Ptrs \in Nat /\ Ptrs >= 1 /\ Ptrs * Ptrs \in Nat /\ Ptrs * Ptrs * Ptrs \in Nat
  /\ Ptrs * Ptrs >= 1 /\ Ptrs * Ptrs * Ptrs >= 1
  /\ Starts[1] = NumDirect /\ Starts[2] = Starts[1] + Ptrs
  /\ Starts[3] = Starts[2] + Ptrs * Ptrs /\ Starts[4] = Starts[3] + Ptrs * Ptrs * Ptrs
  /\ Starts[1] \in Nat /\ Starts[2] \in Nat /\ Starts[3] \in Nat /\ Starts[4] \in Nat
  /\ 1 <= Starts[1] /\ Starts[1] < Starts[2] /\ Starts[2] < Starts[3] /\ Starts[3] < Starts[4]
<1>1. Ptrs \in Nat /\ Ptrs >= 1 /\ NumDirect \in Nat /\ NumDirect >= 1
  BY SfsBlocksAssumption DEF SfsBlocksAssumption
<1> DEFINE P2 == Ptrs * Ptrs
<1>2. P2 \in Nat /\ P2 >= 1
  BY <1>1
<1> HIDE DEF P2
<1> DEFINE P3 == P2 * Ptrs
<1>3. P3 \in Nat /\ P3 >= 1
  BY <1>1, <1>2
<1> HIDE DEF P3
<1>4. Starts[1] = NumDirect /\ Starts[2] = NumDirect + Ptrs /\ Starts[3] = NumDirect + Ptrs + P2
      /\ Starts[4] = NumDirect + Ptrs + P2 + P3
  BY DEF Starts, P2, P3
<1>5. P2 = Ptrs * Ptrs /\ P3 = Ptrs * Ptrs * Ptrs
  BY DEF P2, P3
<1>. QED
  BY <1>1, <1>2, <1>3, <1>4, <1>5

(* The level of a file block, and how far it is from where the level starts *)
LEMMA LevelIs ==
  ASSUME NEW i \in Nat
  PROVE  /\ Level(i) \in 0 .. 4
         /\ Level(i) = 0 <=> i < Starts[1]
         /\ Level(i) = 4 <=> i >= Starts[4]
         /\ Level(i) = 1 => i - Starts[1] \in 0 .. Ptrs - 1
         /\ Level(i) = 2 => i - Starts[2] \in Nat /\ i - Starts[2] < Ptrs * Ptrs
         /\ Level(i) = 3 => i - Starts[3] \in Nat /\ i - Starts[3] < Ptrs * Ptrs * Ptrs
<1>1. \/ i < Starts[1] /\ Level(i) = 0
      \/ i >= Starts[1] /\ i < Starts[2] /\ Level(i) = 1
      \/ i >= Starts[2] /\ i < Starts[3] /\ Level(i) = 2
      \/ i >= Starts[3] /\ i < Starts[4] /\ Level(i) = 3
      \/ i >= Starts[4] /\ Level(i) = 4
  BY StartsAre DEF Level
<1>. QED
  BY <1>1, StartsAre

(* The digits of the way to a file block *)
LEMMA IndexIs ==
  ASSUME NEW i \in Nat
  PROVE  /\ Level(i) = 1 => Index(i) = <<i - Starts[1]>> /\ i - Starts[1] \in Digit
         /\ Level(i) = 2 => LET r == i - Starts[2]
                            IN /\ r \in Nat /\ Index(i) = <<r \div Ptrs, r % Ptrs>>
                               /\ r \div Ptrs \in Digit /\ r % Ptrs \in Digit
         /\ Level(i) = 3 => LET r == i - Starts[3]
                            IN /\ r \in Nat /\ Index(i) = <<(r \div Ptrs) \div Ptrs, (r \div Ptrs) % Ptrs, r % Ptrs>>
                               /\ (r \div Ptrs) \div Ptrs \in Digit /\ (r \div Ptrs) % Ptrs \in Digit
                               /\ r \div Ptrs \in Nat /\ r % Ptrs \in Digit
<1>1. CASE Level(i) = 1
  BY <1>1, LevelIs DEF Index, Digit
<1>2. CASE Level(i) = 2
  <2> DEFINE r == i - Starts[2]
  <2>1. r \in Nat /\ r < Ptrs * Ptrs
    BY <1>2, LevelIs
  <2>2. Index(i) = <<r \div Ptrs, r % Ptrs>>
    BY <1>2 DEF Index
  <2> HIDE DEF r
  <2>3. r \div Ptrs < Ptrs /\ r \div Ptrs \in Nat /\ r % Ptrs \in 0 .. Ptrs - 1
    BY <2>1, StartsAre, Division, QuotientBelow
  <2>4. r \div Ptrs \in Digit /\ r % Ptrs \in Digit
    BY <2>3, StartsAre DEF Digit
  <2>. QED
    BY <1>2, <2>1, <2>2, <2>4 DEF r
<1>3. CASE Level(i) = 3
  <2> DEFINE r == i - Starts[3]
             s == r \div Ptrs
  <2>1. r \in Nat /\ r < (Ptrs * Ptrs) * Ptrs
    BY <1>3, LevelIs
  <2>2. Index(i) = <<s \div Ptrs, s % Ptrs, r % Ptrs>>
    BY <1>3 DEF Index
  <2> HIDE DEF r
  <2>3. s \in Nat /\ s < Ptrs * Ptrs /\ r % Ptrs \in 0 .. Ptrs - 1
    BY <2>1, StartsAre, Division, QuotientBelow
  <2> HIDE DEF s
  <2>4. s \div Ptrs < Ptrs /\ s \div Ptrs \in Nat /\ s % Ptrs \in 0 .. Ptrs - 1
    BY <2>3, StartsAre, Division, QuotientBelow
  <2>5. s \div Ptrs \in Digit /\ s % Ptrs \in Digit /\ r % Ptrs \in Digit
    BY <2>3, <2>4, StartsAre DEF Digit
  <2>. QED
    BY <1>3, <2>1, <2>2, <2>3, <2>5 DEF r, s
<1>. QED
  BY <1>1, <1>2, <1>3

(* A file block's place is one for data, and in the map if the map reaches it. *)
LEMMA SpotIs ==
  ASSUME NEW i \in Nat
  PROVE  /\ Spot(i) \in Spots /\ ~Inner(Spot(i))
         /\ i < Starts[4] => Spot(i) \in Place
<1>1. CASE Level(i) = 0
  <2>1. Spot(i) = <<0, 0, i, 0, 0>>
    BY <1>1 DEF Spot
  <2>2. i \in 0 .. NumDirect - 1
    BY <1>1, LevelIs, StartsAre
  <2>. QED
    BY <2>1, <2>2 DEF Spots, Place, Inner
<1>2. CASE Level(i) = 4
  <2>1. Spot(i) = <<0, 0, i, 0, 0>>
    BY <1>2 DEF Spot
  <2>2. ~(i < Starts[4])
    BY <1>2, LevelIs, StartsAre
  <2>. QED
    BY <2>1, <2>2 DEF Spots, Inner
<1>3. CASE Level(i) = 1
  <2>1. Spot(i) = <<1, 1, Index(i)[1], 0, 0>>
    BY <1>3 DEF Spot
  <2>2. Index(i)[1] \in Digit
    BY <1>3, IndexIs
  <2>. QED
    BY <2>1, <2>2 DEF Spots, Place, Inner
<1>4. CASE Level(i) = 2
  <2>1. Spot(i) = <<2, 2, Index(i)[1], Index(i)[2], 0>>
    BY <1>4 DEF Spot
  <2>2. Index(i)[1] \in Digit /\ Index(i)[2] \in Digit
    BY <1>4, IndexIs
  <2>. QED
    BY <2>1, <2>2 DEF Spots, Place, Inner
<1>5. CASE Level(i) = 3
  <2>1. Spot(i) = <<3, 3, Index(i)[1], Index(i)[2], Index(i)[3]>>
    BY <1>5 DEF Spot
  <2>2. Index(i)[1] \in Digit /\ Index(i)[2] \in Digit /\ Index(i)[3] \in Digit
    BY <1>5, IndexIs
  <2>. QED
    BY <2>1, <2>2 DEF Spots, Place, Inner
<1>. QED
  BY <1>1, <1>2, <1>3, <1>4, <1>5, LevelIs

(* Two file blocks have two places. *)
LEMMA SpotTells ==
  ASSUME NEW i \in Nat, NEW j \in Nat, Spot(i) = Spot(j)
  PROVE  i = j
<1>1. /\ Level(i) \in {0, 4} => Spot(i)[1] = 0 /\ Spot(i)[3] = i
      /\ Level(i) \in {1, 2, 3} => Spot(i)[1] = Level(i)
  BY DEF Spot
<1>2. /\ Level(j) \in {0, 4} => Spot(j)[1] = 0 /\ Spot(j)[3] = j
      /\ Level(j) \in {1, 2, 3} => Spot(j)[1] = Level(j)
  BY DEF Spot
<1>3. CASE Level(i) \in {0, 4}
  BY <1>1, <1>2, <1>3, LevelIs
<1>4. CASE Level(i) = 1
  <2>1. Level(j) = 1
    BY <1>1, <1>2, <1>4, LevelIs
  <2>2. Spot(i) = <<1, 1, Index(i)[1], 0, 0>> /\ Spot(j) = <<1, 1, Index(j)[1], 0, 0>>
    BY <1>4, <2>1 DEF Spot
  <2>3. Index(i)[1] = i - Starts[1] /\ Index(j)[1] = j - Starts[1]
    BY <1>4, <2>1, IndexIs
  <2>4. Spot(i)[3] = Index(i)[1] /\ Spot(j)[3] = Index(j)[1]
    BY <1>4, <2>1 DEF Spot
  <2>5. i - Starts[1] = j - Starts[1]
    BY <2>3, <2>4
  <2>. QED
    BY <2>5, StartsAre
<1>5. CASE Level(i) = 2
  <2>1. Level(j) = 2
    BY <1>1, <1>2, <1>5, LevelIs
  <2> DEFINE r == i - Starts[2]
             s == j - Starts[2]
  <2>2. Spot(i) = <<2, 2, Index(i)[1], Index(i)[2], 0>> /\ Spot(j) = <<2, 2, Index(j)[1], Index(j)[2], 0>>
    BY <1>5, <2>1 DEF Spot
  <2>3. r \in Nat /\ s \in Nat /\ Index(i) = <<r \div Ptrs, r % Ptrs>> /\ Index(j) = <<s \div Ptrs, s % Ptrs>>
    BY <1>5, <2>1, IndexIs
  <2> HIDE DEF r, s
  <2>6. Spot(i)[3] = Index(i)[1] /\ Spot(j)[3] = Index(j)[1] /\ Spot(i)[4] = Index(i)[2] /\ Spot(j)[4] = Index(j)[2]
    BY <1>5, <2>1 DEF Spot
  <2>4. r \div Ptrs = s \div Ptrs /\ r % Ptrs = s % Ptrs
    BY <2>6, <2>3
  <2>5. r = s
    BY <2>3, <2>4, DivisionTells, StartsAre
  <2>. QED
    BY <2>5, StartsAre DEF r, s
<1>6. CASE Level(i) = 3
  <2>1. Level(j) = 3
    BY <1>1, <1>2, <1>6, LevelIs
  <2> DEFINE r == i - Starts[3]
             s == j - Starts[3]
  <2>2. Spot(i) = <<3, 3, Index(i)[1], Index(i)[2], Index(i)[3]>> /\ Spot(j) = <<3, 3, Index(j)[1], Index(j)[2], Index(j)[3]>>
    BY <1>6, <2>1 DEF Spot
  <2>3. /\ r \in Nat /\ s \in Nat
        /\ Index(i) = <<(r \div Ptrs) \div Ptrs, (r \div Ptrs) % Ptrs, r % Ptrs>>
        /\ Index(j) = <<(s \div Ptrs) \div Ptrs, (s \div Ptrs) % Ptrs, s % Ptrs>>
    BY <1>6, <2>1, IndexIs
  <2> HIDE DEF r, s
  <2>4. r \div Ptrs \in Nat /\ s \div Ptrs \in Nat
    BY <2>3, Division, StartsAre
  <2>8. /\ Spot(i)[3] = Index(i)[1] /\ Spot(j)[3] = Index(j)[1]
        /\ Spot(i)[4] = Index(i)[2] /\ Spot(j)[4] = Index(j)[2]
        /\ Spot(i)[5] = Index(i)[3] /\ Spot(j)[5] = Index(j)[3]
    BY <1>6, <2>1 DEF Spot
  <2>5. /\ (r \div Ptrs) \div Ptrs = (s \div Ptrs) \div Ptrs
        /\ (r \div Ptrs) % Ptrs = (s \div Ptrs) % Ptrs
        /\ r % Ptrs = s % Ptrs
    BY <2>8, <2>3
  <2>6. r \div Ptrs = s \div Ptrs
    BY <2>4, <2>5, DivisionTells, StartsAre
  <2>7. r = s
    BY <2>3, <2>5, <2>6, DivisionTells, StartsAre
  <2>. QED
    BY <2>7, StartsAre DEF r, s
<1>. QED
  BY <1>3, <1>4, <1>5, <1>6, LevelIs

(* The forms a place has *)
LEMMA PlaceIs ==
  ASSUME NEW p \in Place
  PROVE  \/ \E k \in 0 .. NumDirect - 1 : p = <<0, 0, k, 0, 0>>
         \/ \E l \in 1 .. 3 : p = <<l, 0, 0, 0, 0>>
         \/ \E l \in 1 .. 3, a \in Digit : p = <<l, 1, a, 0, 0>>
         \/ \E l \in 2 .. 3, a \in Digit, b \in Digit : p = <<l, 2, a, b, 0>>
         \/ \E a \in Digit, b \in Digit, c \in Digit : p = <<3, 3, a, b, c>>
  BY DEF Place

(* An inner place has one under it for each digit, and no other place has *)
(* the same one.                                                          *)
LEMMA UnderIs ==
  ASSUME NEW p \in Place, Inner(p), NEW k \in Digit
  PROVE  Under(p, k) \in Place /\ Under(p, k)[2] = p[2] + 1 /\ Under(p, k)[1] = p[1] /\ p[1] \in 1 .. 3 /\ p[2] \in 0 .. 2
<1>1. CASE \E l \in 1 .. 3 : p = <<l, 0, 0, 0, 0>>
  <2>1. PICK l \in 1 .. 3 : p = <<l, 0, 0, 0, 0>>
    BY <1>1
  <2>2. Under(p, k) = <<l, 1, k, 0, 0>>
    BY <2>1 DEF Under
  <2>. QED
    BY <2>1, <2>2 DEF Place
<1>2. CASE \E l \in 1 .. 3, a \in Digit : p = <<l, 1, a, 0, 0>>
  <2>1. PICK l \in 1 .. 3, a \in Digit : p = <<l, 1, a, 0, 0>>
    BY <1>2
  <2>2. Under(p, k) = <<l, 2, a, k, 0>> /\ l \in 2 .. 3
    BY <2>1 DEF Under, Inner
  <2>. QED
    BY <2>1, <2>2 DEF Place
<1>3. CASE \E l \in 2 .. 3, a \in Digit, b \in Digit : p = <<l, 2, a, b, 0>>
  <2>1. PICK l \in 2 .. 3, a \in Digit, b \in Digit : p = <<l, 2, a, b, 0>>
    BY <1>3
  <2>2. Under(p, k) = <<l, 3, a, b, k>> /\ l = 3
    BY <2>1 DEF Under, Inner
  <2>. QED
    BY <2>1, <2>2 DEF Place
<1>. QED
  BY <1>1, <1>2, <1>3, PlaceIs DEF Inner

(* A place tells what it is under. *)
LEMMA UnderTells ==
  ASSUME NEW p \in Place, Inner(p), NEW k \in Digit, NEW q \in Place, Inner(q), NEW j \in Digit,
         Under(p, k) = Under(q, j)
  PROVE  p = q /\ k = j
<1>1. p[2] = q[2] /\ p[1] = q[1]
  <2>1. p[2] \in 0 .. 2 /\ q[2] \in 0 .. 2 /\ p[2] + 1 = q[2] + 1 /\ p[1] = q[1]
    BY UnderIs
  <2>. QED
    BY <2>1
<1>2. CASE p[2] = 0
  <2>1. PICK l \in 1 .. 3 : p = <<l, 0, 0, 0, 0>>
    BY <1>2, PlaceIs DEF Inner
  <2>2. PICK m \in 1 .. 3 : q = <<m, 0, 0, 0, 0>>
    <3>1. q[2] = 0
      BY <1>1, <1>2
    <3>. QED
      BY <3>1, PlaceIs DEF Inner
  <2>. QED
    BY <1>1, <2>1, <2>2 DEF Under
<1>3. CASE p[2] = 1
  <2>1. PICK l \in 1 .. 3, a \in Digit : p = <<l, 1, a, 0, 0>>
    BY <1>3, PlaceIs DEF Inner
  <2>2. PICK m \in 1 .. 3, b \in Digit : q = <<m, 1, b, 0, 0>>
    <3>1. q[2] = 1
      BY <1>1, <1>3
    <3>. QED
      BY <3>1, PlaceIs DEF Inner
  <2>. QED
    BY <1>1, <2>1, <2>2 DEF Under
<1>4. CASE p[2] = 2
  <2>1. PICK l \in 2 .. 3, a \in Digit, b \in Digit : p = <<l, 2, a, b, 0>>
    BY <1>4, PlaceIs DEF Inner
  <2>2. PICK m \in 2 .. 3, c \in Digit, d \in Digit : q = <<m, 2, c, d, 0>>
    <3>1. q[2] = 2
      BY <1>1, <1>4
    <3>. QED
      BY <3>1, PlaceIs DEF Inner
  <2>. QED
    BY <1>1, <2>1, <2>2 DEF Under
<1>. QED
  BY <1>2, <1>3, <1>4, UnderIs

(* What holds for the places in the inode itself, and for the places under *)
(* one where it holds, holds for all.                                      *)
LEMMA PlacesAll ==
  ASSUME NEW X,
         \A k \in 0 .. NumDirect - 1 : <<0, 0, k, 0, 0>> \in X,
         \A l \in 1 .. 3 : <<l, 0, 0, 0, 0>> \in X,
         \A p \in Place : p \in X /\ Inner(p) => \A k \in Digit : Under(p, k) \in X
  PROVE  Place \subseteq X
<1>1. \A l \in 1 .. 3, a \in Digit : <<l, 1, a, 0, 0>> \in X
  <2>1. SUFFICES ASSUME NEW l \in 1 .. 3, NEW a \in Digit PROVE <<l, 1, a, 0, 0>> \in X
    OBVIOUS
  <2> DEFINE p == <<l, 0, 0, 0, 0>>
  <2>2. p \in Place /\ Inner(p) /\ Under(p, a) = <<l, 1, a, 0, 0>>
    BY DEF Place, Inner, Under
  <2>. QED
    BY <2>2
<1>2. \A l \in 2 .. 3, a \in Digit, b \in Digit : <<l, 2, a, b, 0>> \in X
  <2>1. SUFFICES ASSUME NEW l \in 2 .. 3, NEW a \in Digit, NEW b \in Digit PROVE <<l, 2, a, b, 0>> \in X
    OBVIOUS
  <2> DEFINE p == <<l, 1, a, 0, 0>>
  <2>2. p \in Place /\ Inner(p) /\ Under(p, b) = <<l, 2, a, b, 0>>
    BY DEF Place, Inner, Under
  <2>3. p \in X
    BY <1>1
  <2>. QED
    BY <2>2, <2>3
<1>3. \A a \in Digit, b \in Digit, c \in Digit : <<3, 3, a, b, c>> \in X
  <2>1. SUFFICES ASSUME NEW a \in Digit, NEW b \in Digit, NEW c \in Digit PROVE <<3, 3, a, b, c>> \in X
    OBVIOUS
  <2> DEFINE p == <<3, 2, a, b, 0>>
  <2>2. p \in Place /\ Inner(p) /\ Under(p, c) = <<3, 3, a, b, c>>
    BY DEF Place, Inner, Under
  <2>3. p \in X
    BY <1>2
  <2>. QED
    BY <2>2, <2>3
<1>4. SUFFICES ASSUME NEW p \in Place PROVE p \in X
  OBVIOUS
<1>. QED
  BY <1>1, <1>2, <1>3, PlaceIs

(* The number under a place is found in the block that the place names. *)
LEMMA AtUnder ==
  ASSUME NEW dk, NEW ino, NEW p \in Place, Inner(p), NEW k \in Digit
  PROVE  At(dk, ino, Under(p, k)) = Down(dk, At(dk, ino, p), k)
<1>1. CASE \E l \in 1 .. 3 : p = <<l, 0, 0, 0, 0>>
  <2>1. PICK l \in 1 .. 3 : p = <<l, 0, 0, 0, 0>>
    BY <1>1
  <2>2. Under(p, k) = <<l, 1, k, 0, 0>>
    BY <2>1 DEF Under
  <2>. QED
    BY <2>1, <2>2 DEF At
<1>2. CASE \E l \in 1 .. 3, a \in Digit : p = <<l, 1, a, 0, 0>>
  <2>1. PICK l \in 1 .. 3, a \in Digit : p = <<l, 1, a, 0, 0>>
    BY <1>2
  <2>2. Under(p, k) = <<l, 2, a, k, 0>>
    BY <2>1 DEF Under, Inner
  <2>. QED
    BY <2>1, <2>2 DEF At
<1>3. CASE \E l \in 2 .. 3, a \in Digit, b \in Digit : p = <<l, 2, a, b, 0>>
  <2>1. PICK l \in 2 .. 3, a \in Digit, b \in Digit : p = <<l, 2, a, b, 0>>
    BY <1>3
  <2>2. Under(p, k) = <<l, 3, a, b, k>>
    BY <2>1 DEF Under, Inner
  <2>. QED
    BY <2>1, <2>2 DEF At
<1>. QED
  BY <1>1, <1>2, <1>3, PlaceIs DEF Inner

(* sfs_log2phys finds the number at the file block's place. *)
LEMMA AtSpot ==
  ASSUME NEW dk, NEW ino, NEW i \in Nat, i < Starts[4]
  PROVE  Log2Phys(dk, ino, i) = At(dk, ino, Spot(i))
<1>1. Level(i) \in 0 .. 3
  BY LevelIs, StartsAre
<1>2. CASE Level(i) = 0
  BY <1>2 DEF Log2Phys, Spot, At
<1>3. CASE Level(i) = 1
  BY <1>3 DEF Log2Phys, Spot, At
<1>4. CASE Level(i) = 2
  BY <1>4 DEF Log2Phys, Spot, At
<1>5. CASE Level(i) = 3
  BY <1>5 DEF Log2Phys, Spot, At
<1>. QED
  BY <1>1, <1>2, <1>3, <1>4, <1>5

(* A place, as the numbers it is made of, is a spot of its own form. *)
LEMMA PlaceSpots == Place \subseteq Spots
  BY DEF Spots

(* A place with others under it is one of the map. *)
LEMMA InnerIsPlace ==
  ASSUME NEW p \in Spots, Inner(p)
  PROVE  p \in Place
  BY DEF Spots, Inner

-----------------------------------------------------------------------------
(* A set of natural numbers has a least one. *)
LEMMA LeastExists ==
  ASSUME NEW S \in SUBSET Nat, S # {}
  PROVE  \E b \in S : \A c \in S : b <= c
<1>1. PICK d \in S : \A e \in S : ~(<<e, d>> \in OpToRel(<, Nat))
  BY NatLessThanWellFounded, WFMin, Zenon
<1>2. \A e \in S : ~(e < d)
  <2>1. SUFFICES ASSUME NEW e \in S, e < d PROVE <<e, d>> \in OpToRel(<, Nat)
    BY <1>1, Zenon
  <2>2. <<e, d>> \in Nat \X Nat /\ <<e, d>>[1] < <<e, d>>[2]
    BY <2>1
  <2>. QED
    BY <2>2, Zenon DEF OpToRel
<1>3. \A e \in S : d <= e
  BY <1>2
<1>. QED
  BY <1>3

(* Numbers of blocks are numbers. *)
LEMMA BlocksAre == Blocks \subseteq Nat /\ 0 \in Blocks /\ Blocks \subseteq Numbers /\ -1 \in Numbers /\ -2 \in Numbers /\ Numbers \subseteq Int
<1>1. NumBlocks \in Nat /\ NumBlocks >= 1
  BY SfsBlocksAssumption DEF SfsBlocksAssumption
<1>2. Blocks \subseteq Nat /\ 0 \in Blocks
  BY <1>1 DEF Blocks
<1>. QED
  BY <1>2 DEF Numbers

(* first_cleared answers a clear bit, if there is one. *)
LEMMA FirstClearedIs ==
  ASSUME NEW us \in SUBSET Blocks, us # Blocks
  PROVE  FirstCleared(us) \in Blocks /\ FirstCleared(us) \notin us
<1> DEFINE clear == Blocks \ us
<1>1. clear \in SUBSET Nat /\ clear # {}
  BY BlocksAre
<1>2. \E b \in clear : \A c \in clear : b <= c
  BY <1>1, LeastExists
<1>3. FirstCleared(us) \in clear
  BY <1>2 DEF FirstCleared
<1>. QED
  BY <1>3

(* A block of pointers starts without any. *)
LEMMA NoPtrsIs == NoPtrs \in Pointers /\ \A k \in Digit : NoPtrs[k] = 0
<1>1. 0 \in Numbers
  BY BlocksAre
<1>. QED
  BY <1>1 DEF NoPtrs, Pointers, Digit

(* What stands at a place is a block's number or a code. *)
LEMMA HoldsNumber ==
  ASSUME NEW role, NEW us \in SUBSET Blocks, NEW f, NEW p, NEW b, Holds(role, us, f, p, b)
  PROVE  b \in Numbers /\ b \in Int
<1>1. CASE b \in {0, -1, -2}
  BY <1>1, BlocksAre
<1>2. CASE b \in us \ {0} /\ role[b] = <<f, p>>
  BY <1>2, BlocksAre
<1>. QED
  BY <1>1, <1>2 DEF Holds

(* A block that stands at a place is there for this place. *)
LEMMA HoldsBlock ==
  ASSUME NEW role, NEW us \in SUBSET Blocks, NEW f, NEW p, NEW b, Holds(role, us, f, p, b), b \notin {0, -1, -2}
  PROVE  /\ b \in us \ {0} /\ b \in Blocks \ {0} /\ b > 0
         /\ role[b] = <<f, p>> /\ role[b][1] = f /\ role[b][2] = p
<1>1. b \in us \ {0} /\ role[b] = <<f, p>>
  BY DEF Holds
<1>2. b \in Blocks /\ b \in Nat /\ b # 0
  BY <1>1, BlocksAre
<1>. QED
  BY <1>1, <1>2

(* A number stays one that may stand where it stands. *)
LEMMA HoldsStays ==
  ASSUME NEW role, NEW v, NEW role2, NEW w, NEW g, Frame(role, v, role2, w, g),
         NEW f, NEW p, NEW b, Holds(role, v.used, f, p, b)
  PROVE  Holds(role2, w.used, f, p, b)
  BY DEF Frame, Holds

(* Block c keeps its role and what is in it. *)
Unwritten(role, v, role2, w, c) == role2[c] = role[c] /\ w.disk[c] = v.disk[c]

(* A block that is not written stays in order. *)
LEMMA BlockStays ==
  ASSUME NEW role, NEW v, NEW role2, NEW w, NEW g, Frame(role, v, role2, w, g),
         NEW c, BlockOK(role, v, c), Unwritten(role, v, role2, w, c)
  PROVE  BlockOK(role2, w, c)
<1> DEFINE f == role[c][1]
           p == role[c][2]
           x == v.disk[c]
<1>1. role2[c][1] = f /\ role2[c][2] = p /\ w.disk[c] = x
  BY DEF Unwritten
<1>2. f \in Files /\ (Inner(p) => x \in Pointers) /\ (~Inner(p) => x \in Buffer)
  BY DEF BlockOK
<1>3. ASSUME Inner(p), NEW k \in Digit PROVE Holds(role, v.used, f, Under(p, k), x[k])
  BY <1>3 DEF BlockOK
<1> HIDE DEF f, p, x
<1>4. ASSUME Inner(p), NEW k \in Digit PROVE Holds(role2, w.used, f, Under(p, k), x[k])
  BY <1>3, <1>4, HoldsStays
<1>. QED
  BY <1>1, <1>2, <1>4 DEF BlockOK

(* Two calls in a row leave other files alone. *)
LEMMA FrameTrans ==
  ASSUME NEW role, NEW v, NEW role2, NEW w, NEW role3, NEW x, NEW f,
         Frame(role, v, role2, w, f), Frame(role2, w, role3, x, f)
  PROVE  Frame(role, v, role3, x, f)
  BY DEF Frame

(* So does none. *)
LEMMA FrameSelf == ASSUME NEW role, NEW v, NEW f PROVE Frame(role, v, role, v, f)
  BY DEF Frame

(* Data that two calls keep, one after the other, is kept. *)
LEMMA DataKeptTrans ==
  ASSUME NEW role, NEW v, NEW role2, NEW w, NEW x, NEW f,
         Frame(role, v, role2, w, f), DataKept(role, v, w), DataKept(role2, w, x)
  PROVE  DataKept(role, v, x)
  BY DEF Frame, DataKept

(* Nothing done keeps it all. *)
LEMMA DataKeptSelf == ASSUME NEW role, NEW v PROVE DataKept(role, v, v)
  BY DEF DataKept

(* The head of sfs_set_phys_recurse: what it makes of the roles *)
EnterRole(role, v, b, f, p) ==
  IF b = 0 /\ v.used # Blocks THEN [role EXCEPT ![FirstCleared(v.used)] = <<f, p>>] ELSE role

(* What Entered gives, in each of its cases. *)
LEMMA EnteredIs ==
  ASSUME NEW v, NEW b
  PROVE  /\ b # 0 => Entered(v, b) = [vol |-> v, block |-> b]
         /\ b = 0 /\ v.used = Blocks => Entered(v, b) = [vol |-> v, block |-> -1]
         /\ b = 0 /\ v.used # Blocks => LET new == FirstCleared(v.used)
            IN Entered(v, b) = [vol |-> [used |-> v.used \cup {new}, disk |-> [v.disk EXCEPT ![new] = NoPtrs]], block |-> new]
  BY DEF Entered

(* It keeps the volume in order, and the pointer may stand where it is. *)
LEMMA EnterNew ==
  ASSUME NEW role, NEW v \in Volumes, Vol(role, v), NEW f \in Files, NEW p \in Place, Inner(p),
         NEW new \in Blocks, new \notin v.used
  PROVE  LET w == [used |-> v.used \cup {new}, disk |-> [v.disk EXCEPT ![new] = NoPtrs]]
             role2 == [role EXCEPT ![new] = <<f, p>>]
         IN /\ w \in Volumes /\ Vol(role2, w) /\ Frame(role, v, role2, w, f) /\ DataKept(role, v, w)
            /\ Holds(role2, w.used, f, p, new)
            /\ \A c \in v.used : w.disk[c] = v.disk[c]
<1> DEFINE w == [used |-> v.used \cup {new}, disk |-> [v.disk EXCEPT ![new] = NoPtrs]]
           role2 == [role EXCEPT ![new] = <<f, p>>]
<1>1. v.used \in SUBSET Blocks /\ v.disk \in [Blocks -> Buffer \cup Pointers] /\ 0 \in v.used
  BY DEF Volumes, Vol
<1>2. new # 0 /\ NoPtrs \in Pointers
  BY <1>1, NoPtrsIs
<1>3. w.used = v.used \cup {new} /\ w.disk = [v.disk EXCEPT ![new] = NoPtrs]
  OBVIOUS
<1>4. w \in Volumes
  BY <1>1, <1>2 DEF Volumes
<1>5. w.disk[new] = NoPtrs /\ \A c \in Blocks \ {new} : w.disk[c] = v.disk[c]
  BY <1>1
<1>6. role \in [Blocks -> (Files \cup {NoFile}) \X Spots]
  BY DEF Vol
<1>7. <<f, p>> \in (Files \cup {NoFile}) \X Spots
  BY PlaceSpots
<1>8. role2 \in [Blocks -> (Files \cup {NoFile}) \X Spots] /\ role2[new] = <<f, p>>
      /\ \A c \in Blocks \ {new} : role2[c] = role[c]
  BY <1>6, <1>7
<1>. HIDE DEF w, role2
<1>9. Frame(role, v, role2, w, f)
  BY <1>1, <1>3, <1>5, <1>8 DEF Frame
<1>10. DataKept(role, v, w)
  BY <1>1, <1>5 DEF DataKept
<1>11. ASSUME NEW c \in w.used \ {0} PROVE BlockOK(role2, w, c)
  <2>1. CASE c = new
    <3>1. role2[c][1] = f /\ role2[c][2] = p /\ w.disk[c] \in Pointers
      BY <2>1, <1>8, <1>5, <1>2
    <3>2. \A k \in Digit : Holds(role2, w.used, f, Under(p, k), w.disk[c][k])
      BY <2>1, <1>5, NoPtrsIs DEF Holds
    <3>. QED
      BY <3>1, <3>2 DEF BlockOK
  <2>2. CASE c # new
    <3>1. c \in v.used \ {0} /\ c \in Blocks
      BY <2>2, <1>1, <1>3
    <3>2. BlockOK(role, v, c)
      BY <3>1 DEF Vol
    <3>3. Unwritten(role, v, role2, w, c)
      BY <3>1, <2>2, <1>5, <1>8 DEF Unwritten
    <3>. QED
      BY <3>2, <3>3, <1>9, BlockStays
  <2>. QED
    BY <2>1, <2>2
<1>12. \A c \in Blocks \ (w.used \ {0}) : w.disk[c] \in Buffer
  <2>1. \A c \in Blocks \ (v.used \ {0}) : v.disk[c] \in Buffer
    BY DEF Vol
  <2>. QED
    BY <2>1, <1>3, <1>5, <1>2
<1>13. Vol(role2, w)
  <2>1. 0 \in w.used /\ w.used \subseteq Blocks /\ w.disk \in [Blocks -> Buffer \cup Pointers]
    BY <1>1, <1>3, <1>4 DEF Volumes
  <2>. QED
    BY <2>1, <1>8, <1>11, <1>12 DEF Vol
<1>14. Holds(role2, w.used, f, p, new)
  BY <1>2, <1>3, <1>8 DEF Holds
<1>15. \A c \in v.used : w.disk[c] = v.disk[c]
  BY <1>1, <1>5
<1>. QED
  BY <1>4, <1>9, <1>10, <1>13, <1>14, <1>15 DEF w, role2

(* A volume in order after a change that concerns f *)
Kept(role, v, role2, w, f) ==
  w \in Volumes /\ Vol(role2, w) /\ Frame(role, v, role2, w, f) /\ DataKept(role, v, w)

(* Nothing done leaves a volume in order. *)
LEMMA KeptSelf ==
  ASSUME NEW role, NEW v \in Volumes, Vol(role, v), NEW f
  PROVE  Kept(role, v, role, v, f)
  BY FrameSelf, DataKeptSelf DEF Kept

(* Two steps in a row leave it in order. *)
LEMMA KeptTrans ==
  ASSUME NEW role, NEW v, NEW role2, NEW w, NEW role3, NEW x, NEW f,
         Kept(role, v, role2, w, f), Kept(role2, w, role3, x, f)
  PROVE  Kept(role, v, role3, x, f)
  BY FrameTrans, DataKeptTrans DEF Kept

(* What stood at a place may stand there afterwards. *)
LEMMA KeptHolds ==
  ASSUME NEW role, NEW v, NEW role2, NEW w, NEW g, Kept(role, v, role2, w, g),
         NEW f, NEW p, NEW b, Holds(role, v.used, f, p, b)
  PROVE  Holds(role2, w.used, f, p, b)
  BY HoldsStays DEF Kept

(* What the head of sfs_set_phys_recurse makes of a volume *)
Entry(role, v, f, p, b, e, role2) ==
  /\ Kept(role, v, role2, e.vol, f)
  /\ Holds(role2, e.vol.used, f, p, e.block)
  /\ e.block # 0
  /\ \A c \in v.used : e.vol.disk[c] = v.disk[c]
  /\ b # 0 => e.vol = v /\ e.block = b
  /\ b = 0 => \/ e.block = -1 /\ v.used = Blocks /\ e.vol = v
              \/ /\ e.block \in Blocks \ v.used /\ e.vol.used = v.used \cup {e.block}
                 /\ e.vol.disk[e.block] = NoPtrs

(* Entered leaves the volume in order, its new block has the place it is   *)
(* for.                                                                    *)
LEMMA EnterOK ==
  ASSUME NEW role, NEW v \in Volumes, Vol(role, v), NEW f \in Files, NEW p \in Place, Inner(p),
         NEW b, Holds(role, v.used, f, p, b)
  PROVE  Entry(role, v, f, p, b, Entered(v, b), EnterRole(role, v, b, f, p))
<1>0. Kept(role, v, role, v, f)
  BY KeptSelf
<1>1. CASE b # 0
  <2>1. Entered(v, b).vol = v /\ Entered(v, b).block = b /\ EnterRole(role, v, b, f, p) = role
    BY <1>1, EnteredIs DEF EnterRole
  <2>. QED
    BY <1>0, <1>1, <2>1 DEF Entry
<1>2. CASE b = 0 /\ v.used = Blocks
  <2>1. Entered(v, b).vol = v /\ Entered(v, b).block = -1 /\ EnterRole(role, v, b, f, p) = role
    BY <1>2, EnteredIs DEF EnterRole
  <2>2. Holds(role, v.used, f, p, -1)
    BY DEF Holds
  <2>. QED
    BY <1>0, <1>2, <2>1, <2>2 DEF Entry
<1>3. CASE b = 0 /\ v.used # Blocks
  <2> DEFINE new == FirstCleared(v.used)
             w == [used |-> v.used \cup {new}, disk |-> [v.disk EXCEPT ![new] = NoPtrs]]
             role2 == [role EXCEPT ![new] = <<f, p>>]
  <2>1. Entered(v, b).vol = w /\ Entered(v, b).block = new /\ EnterRole(role, v, b, f, p) = role2
    <3>1. Entered(v, b) = [vol |-> w, block |-> new]
      BY <1>3 DEF Entered
    <3>2. EnterRole(role, v, b, f, p) = role2
      BY <1>3 DEF EnterRole
    <3> HIDE DEF w, role2, new
    <3>. QED
      BY <3>1, <3>2
  <2>2. new \in Blocks /\ new \notin v.used
    BY <1>3, FirstClearedIs DEF Volumes
  <2>3. new # 0
    BY <2>2 DEF Vol
  <2>5. w.used = v.used \cup {new} /\ w.disk[new] = NoPtrs
    BY <2>2 DEF Volumes
  <2> HIDE DEF new
  <2>4. /\ w \in Volumes /\ Vol(role2, w) /\ Frame(role, v, role2, w, f) /\ DataKept(role, v, w)
        /\ Holds(role2, w.used, f, p, new)
        /\ \A c \in v.used : w.disk[c] = v.disk[c]
    BY <2>2, EnterNew
  <2> HIDE DEF w, role2
  <2>6. Kept(role, v, role2, w, f)
    BY <2>4 DEF Kept
  <2>. QED
    BY <1>3, <2>1, <2>2, <2>3, <2>4, <2>5, <2>6 DEF Entry
<1>. QED
  BY <1>1, <1>2, <1>3

Upd(g, k, x) == [g EXCEPT ![k] = x]
Linked(v, b, k, x) == [v EXCEPT !.disk = Upd(v.disk, b, Upd(v.disk[b], k, x))]

(* A number stored where it may stand keeps the volume in order. *)
LEMMA LinkedIs ==
  ASSUME NEW v \in Volumes, NEW b \in Blocks, NEW k, NEW x
  PROVE  /\ Linked(v, b, k, x).used = v.used
         /\ Linked(v, b, k, x).disk = Upd(v.disk, b, Upd(v.disk[b], k, x))
         /\ Linked(v, b, k, x).disk[b] = Upd(v.disk[b], k, x)
         /\ \A c \in Blocks \ {b} : Linked(v, b, k, x).disk[c] = v.disk[c]
<1> DEFINE y == Upd(v.disk[b], k, x)
           w == Linked(v, b, k, x)
<1>1. w.used = v.used /\ w.disk = Upd(v.disk, b, y)
  BY DEF Volumes, Linked
<1>2. v.disk \in [Blocks -> Buffer \cup Pointers]
  BY DEF Volumes
<1> HIDE DEF w, y
<1>3. w.disk[b] = y /\ \A c \in Blocks \ {b} : w.disk[c] = v.disk[c]
  BY <1>1, <1>2 DEF Upd
<1>. QED
  BY <1>1, <1>3 DEF w, y

(* So does a pointer that is written where it belongs. *)
LEMMA LinkOK ==
  ASSUME NEW role, NEW v \in Volumes, Vol(role, v), NEW f \in Files, NEW p \in Place, Inner(p),
         NEW b, Holds(role, v.used, f, p, b), b \notin {0, -1, -2}, NEW k \in Digit,
         NEW x, Holds(role, v.used, f, Under(p, k), x)
  PROVE  Kept(role, v, role, Linked(v, b, k, x), f)
<1> DEFINE w == Linked(v, b, k, x)
<1>0. v.used \in SUBSET Blocks
  BY DEF Volumes
<1>14. b \in v.used \ {0} /\ role[b] = <<f, p>> /\ b \in Blocks
  BY <1>0 DEF Holds
<1>1. v.used \in SUBSET Blocks /\ v.disk \in [Blocks -> Buffer \cup Pointers] /\ b \in Blocks
  BY <1>14 DEF Volumes
<1>2. x \in Numbers
  BY <1>1, HoldsNumber
<1>3. BlockOK(role, v, b) /\ role[b][1] = f /\ role[b][2] = p
  BY <1>14 DEF Vol
<1>4. v.disk[b] \in Pointers /\ \A j \in Digit : Holds(role, v.used, f, Under(p, j), v.disk[b][j])
  BY <1>3 DEF BlockOK
<1>5. Upd(v.disk[b], k, x) \in Pointers
  BY <1>2, <1>4 DEF Pointers, Digit, Upd
<1>6. w.used = v.used /\ w.disk = Upd(v.disk, b, Upd(v.disk[b], k, x))
  BY <1>1, LinkedIs
<1>8. w.disk[b] = Upd(v.disk[b], k, x) /\ \A c \in Blocks \ {b} : w.disk[c] = v.disk[c]
  BY <1>1, LinkedIs
<1>7. w \in Volumes
  <2>1. w = [v EXCEPT !.disk = Upd(v.disk, b, Upd(v.disk[b], k, x))]
    BY DEF Linked
  <2>2. Upd(v.disk, b, Upd(v.disk[b], k, x)) \in [Blocks -> Buffer \cup Pointers]
    BY <1>1, <1>5, Zenon DEF Upd
  <2>. QED
    BY <2>1, <2>2 DEF Volumes
<1> HIDE DEF w
<1>9. Frame(role, v, role, w, f)
  BY <1>1, <1>3, <1>6, <1>8 DEF Frame
<1>10. DataKept(role, v, w)
  BY <1>1, <1>3, <1>8 DEF DataKept
<1>11. ASSUME NEW c \in w.used \ {0} PROVE BlockOK(role, w, c)
  <2>1. BlockOK(role, v, c)
    BY <1>6 DEF Vol
  <2>2. CASE c = b
    <3>1. \A j \in Digit : Holds(role, w.used, f, Under(p, j), w.disk[b][j])
      <4>1. SUFFICES ASSUME NEW j \in Digit PROVE Holds(role, w.used, f, Under(p, j), w.disk[b][j])
        OBVIOUS
      <4>2. CASE j = k
        <5>1. w.disk[b][j] = x
          BY <4>2, <1>8, <1>4 DEF Pointers, Digit, Upd
        <5>. QED
          BY <5>1, <4>2, <1>6
      <4>3. CASE j # k
        <5>1. w.disk[b][j] = v.disk[b][j]
          BY <4>3, <1>8, <1>4 DEF Pointers, Digit, Upd
        <5>. QED
          BY <5>1, <1>4, <1>6
      <4>. QED
        BY <4>2, <4>3
    <3>. QED
      BY <2>2, <3>1, <1>3, <1>5, <1>8 DEF BlockOK
  <2>3. CASE c # b
    <3>1. w.disk[c] = v.disk[c]
      BY <2>3, <1>1, <1>6, <1>8
    <3>. QED
      BY <2>1, <3>1, <1>6 DEF BlockOK
  <2>. QED
    BY <2>2, <2>3
<1>12. \A c \in Blocks \ (w.used \ {0}) : w.disk[c] \in Buffer
  <2>1. \A c \in Blocks \ (v.used \ {0}) : v.disk[c] \in Buffer
    BY DEF Vol
  <2>2. SUFFICES ASSUME NEW c \in Blocks \ (w.used \ {0}) PROVE w.disk[c] \in Buffer
    OBVIOUS
  <2>3. c # b /\ c \in Blocks \ (v.used \ {0})
    BY <1>6, <1>14
  <2>. QED
    BY <2>1, <2>3, <1>8
<1>13. Vol(role, w)
  <2>1. 0 \in w.used /\ w.used \subseteq Blocks /\ w.disk \in [Blocks -> Buffer \cup Pointers]
    BY <1>1, <1>6, <1>7 DEF Volumes, Vol
  <2>2. role \in [Blocks -> (Files \cup {NoFile}) \X Spots]
    BY DEF Vol
  <2>. QED
    BY <2>1, <2>2, <1>11, <1>12 DEF Vol
<1>. QED
  BY <1>7, <1>9, <1>10, <1>13 DEF Kept, w

(* What a call of the recursion leaves behind, and what it returns *)
Nested(role, v, role2, r, f, p) == Kept(role, v, role2, r.vol, f) /\ Holds(role2, r.vol.used, f, p, r.ret)

(* What SetLast gives, in each of its cases. *)
LEMMA SetLastIs ==
  ASSUME NEW e, NEW k, NEW phys, e.block \in Int
  PROVE  /\ e.block < 0 => SetLast(e, k, phys).vol = e.vol /\ SetLast(e, k, phys).ret = -1
         /\ e.block >= 0 /\ e.vol.disk[e.block][k] # 0 => SetLast(e, k, phys).vol = e.vol /\ SetLast(e, k, phys).ret = -2
         /\ e.block >= 0 /\ e.vol.disk[e.block][k] = 0 =>
              SetLast(e, k, phys).vol = Linked(e.vol, e.block, k, phys) /\ SetLast(e, k, phys).ret = e.block
<1>1. CASE e.block < 0
  BY <1>1 DEF SetLast
<1>2. CASE e.block >= 0 /\ e.vol.disk[e.block][k] # 0
  BY <1>2 DEF SetLast
<1>3. CASE e.block >= 0 /\ e.vol.disk[e.block][k] = 0
  <2>1. SetLast(e, k, phys) = [vol |-> [e.vol EXCEPT !.disk[e.block][k] = phys], ret |-> e.block]
    BY <1>3 DEF SetLast
  <2>2. [e.vol EXCEPT !.disk[e.block][k] = phys] = Linked(e.vol, e.block, k, phys)
    BY DEF Linked, Upd
  <2>. QED
    BY <2>1, <2>2, <1>3
<1>. QED
  BY <1>1, <1>2, <1>3

(* It leaves the volume in order. *)
LEMMA SetLastOK ==
  ASSUME NEW role, NEW e, e.vol \in Volumes, Vol(role, e.vol), NEW f \in Files, NEW p \in Place, Inner(p),
         Holds(role, e.vol.used, f, p, e.block), e.block # 0, NEW k \in Digit,
         NEW phys, Holds(role, e.vol.used, f, Under(p, k), phys)
  PROVE  Nested(role, e.vol, role, SetLast(e, k, phys), f, p)
<1>0. e.vol.used \in SUBSET Blocks
  BY DEF Volumes
<1>1. e.block \in Int
  BY <1>0, HoldsNumber
<1>2. Kept(role, e.vol, role, e.vol, f)
  BY KeptSelf
<1>3. CASE e.block < 0
  BY <1>1, <1>2, <1>3, SetLastIs DEF Nested, Holds
<1>4. CASE e.block >= 0 /\ e.vol.disk[e.block][k] # 0
  BY <1>1, <1>2, <1>4, SetLastIs DEF Nested, Holds
<1>5. CASE e.block >= 0 /\ e.vol.disk[e.block][k] = 0
  <2>1. SetLast(e, k, phys).vol = Linked(e.vol, e.block, k, phys) /\ SetLast(e, k, phys).ret = e.block
    BY <1>1, <1>5, SetLastIs
  <2>2. e.block \notin {0, -1, -2}
    BY <1>1, <1>5
  <2>3. Kept(role, e.vol, role, Linked(e.vol, e.block, k, phys), f)
    BY <2>2, LinkOK
  <2>4. Holds(role, Linked(e.vol, e.block, k, phys).used, f, p, e.block)
    BY <2>3, KeptHolds
  <2>. QED
    BY <2>1, <2>3, <2>4 DEF Nested
<1>. QED
  BY <1>1, <1>3, <1>4, <1>5

(* What Stored gives, in each of its cases. *)
LEMMA StoredIs ==
  ASSUME NEW e, NEW k, NEW r, e.block \in Int
  PROVE  /\ e.block < 0 => Stored(e, k, r).vol = e.vol /\ Stored(e, k, r).ret = -1
         /\ e.block >= 0 => Stored(e, k, r).vol = Linked(r.vol, e.block, k, r.ret) /\ Stored(e, k, r).ret = e.block
<1>1. CASE e.block < 0
  BY <1>1 DEF Stored
<1>2. CASE e.block >= 0
  <2>1. Stored(e, k, r) = [vol |-> [r.vol EXCEPT !.disk[e.block][k] = r.ret], ret |-> e.block]
    BY <1>2 DEF Stored
  <2>2. [r.vol EXCEPT !.disk[e.block][k] = r.ret] = Linked(r.vol, e.block, k, r.ret)
    BY DEF Linked, Upd
  <2>. QED
    BY <2>1, <2>2, <1>2
<1>. QED
  BY <1>1, <1>2

(* It leaves the volume in order, if what it is given does. *)
LEMMA StoredOK ==
  ASSUME NEW role, NEW e, e.vol \in Volumes, Vol(role, e.vol), NEW f \in Files, NEW p \in Place, Inner(p),
         Holds(role, e.vol.used, f, p, e.block), e.block > 0, NEW k \in Digit,
         NEW role2, NEW r, Nested(role, e.vol, role2, r, f, Under(p, k))
  PROVE  Nested(role, e.vol, role2, Stored(e, k, r), f, p)
<1>0. e.vol.used \in SUBSET Blocks
  BY DEF Volumes
<1>1. e.block \in Int /\ e.block \notin {0, -1, -2}
  BY <1>0, HoldsNumber
<1>2. Kept(role, e.vol, role2, r.vol, f) /\ Holds(role2, r.vol.used, f, Under(p, k), r.ret)
  BY DEF Nested
<1>3. r.vol \in Volumes /\ Vol(role2, r.vol)
  BY <1>2 DEF Kept
<1>4. Holds(role2, r.vol.used, f, p, e.block)
  BY <1>2, KeptHolds
<1>5. Kept(role2, r.vol, role2, Linked(r.vol, e.block, k, r.ret), f)
  BY <1>1, <1>2, <1>3, <1>4, LinkOK
<1>6. Kept(role, e.vol, role2, Linked(r.vol, e.block, k, r.ret), f)
  BY <1>2, <1>5, KeptTrans
<1>7. Holds(role2, Linked(r.vol, e.block, k, r.ret).used, f, p, e.block)
  BY <1>4, <1>5, KeptHolds
<1>8. Stored(e, k, r).vol = Linked(r.vol, e.block, k, r.ret) /\ Stored(e, k, r).ret = e.block
  BY <1>1, StoredIs
<1>. QED
  BY <1>6, <1>7, <1>8 DEF Nested


(* A pointer that was not there before: an error code, and the volume is   *)
(* full, or a block just taken.  s is the place of the block to be added.  *)
Anew(u, w, s, q, x) == (x < 0 => w.used = Blocks) /\ (q = s \/ x \notin u.used)

(* What sfs_set_phys_recurse changes: pointers that were 0 and new blocks  *)
(* of pointers, on the way S.                                              *)
OldKept(role, u, w, S, s) ==
  \A c \in u.used \ {0} : Inner(role[c][2]) => \A k \in Digit :
     \/ w.disk[c][k] = u.disk[c][k]
     \/ /\ u.disk[c][k] = 0 /\ Under(role[c][2], k) \in S
        /\ Anew(u, w, s, Under(role[c][2], k), w.disk[c][k])
NewOnWay(u, role2, w, f, S, s) ==
  \A c \in w.used \ u.used :
     /\ role2[c][1] = f /\ Inner(role2[c][2]) /\ role2[c][2] \in S
     /\ \A k \in Digit : \/ w.disk[c][k] = 0
                         \/ /\ Under(role2[c][2], k) \in S
                            /\ Anew(u, w, s, Under(role2[c][2], k), w.disk[c][k])
Local(role, u, role2, w, f, S, s) == OldKept(role, u, w, S, s) /\ NewOnWay(u, role2, w, f, S, s)

(* Nothing done changes nothing beside the way. *)
LEMMA LocalSelf ==
  ASSUME NEW role, NEW u, NEW f, NEW S, NEW s
  PROVE  Local(role, u, role, u, f, S, s)
  BY DEF Local, OldKept, NewOnWay

(* Taking a block of zeros for the place p *)
LEMMA LocalEnter ==
  ASSUME NEW role, NEW u \in Volumes, Vol(role, u), NEW f \in Files, NEW p \in Place, Inner(p),
         NEW b, NEW e, NEW role1, Entry(role, u, f, p, b, e, role1), NEW S, p \in S, NEW s
  PROVE  Local(role, u, role1, e.vol, f, S, s)
<1>1. OldKept(role, u, e.vol, S, s)
  BY DEF Entry, OldKept
<1>2. ASSUME NEW c \in e.vol.used \ u.used
      PROVE  role1[c][1] = f /\ Inner(role1[c][2]) /\ role1[c][2] \in S /\ \A k \in Digit : e.vol.disk[c][k] = 0
  <2>1. c = e.block /\ e.vol.disk[c] = NoPtrs
    BY <1>2 DEF Entry
  <2>2. e.vol.used \in SUBSET Blocks
    BY DEF Entry, Kept, Volumes
  <2>3. e.block \in Blocks
    BY <2>1, <2>2
  <2>4. e.block \notin {0, -1, -2}
    BY <2>3, BlocksAre DEF Entry
  <2>5. Holds(role1, e.vol.used, f, p, e.block)
    BY DEF Entry
  <2>6. role1[e.block][1] = f /\ role1[e.block][2] = p
    BY <2>2, <2>4, <2>5, HoldsBlock
  <2>. QED
    BY <2>1, <2>6, NoPtrsIs
<1>3. NewOnWay(u, role1, e.vol, f, S, s)
  BY <1>2 DEF NewOnWay
<1>. QED
  BY <1>1, <1>3 DEF Local

(* A block that is new stays new to what was before. *)
LEMMA AnewLater ==
  ASSUME NEW u, NEW e, NEW w, NEW s, NEW q, NEW x, u.used \subseteq e.used, e.used \subseteq w.used, w.used \subseteq Blocks
  PROVE  /\ Anew(u, e, s, q, x) => Anew(u, w, s, q, x)
         /\ Anew(e, w, s, q, x) => Anew(u, w, s, q, x)
  BY DEF Anew

(* Two steps down a way change only this way. *)
LEMMA LocalTrans ==
  ASSUME NEW role, NEW u, NEW role1, NEW e, NEW role2, NEW w, NEW f, NEW S, NEW s, NEW R, R \subseteq S,
         Vol(role, u), Kept(role, u, role1, e, f), Kept(role1, e, role2, w, f),
         Local(role, u, role1, e, f, S, s), Local(role1, e, role2, w, f, R, s)
  PROVE  Local(role, u, role2, w, f, S, s)
<1>1. u.used \subseteq e.used /\ e.used \subseteq w.used /\ w.used \subseteq Blocks /\ 0 \in u.used
  BY DEF Kept, Frame, Vol
<1>2. \A c \in u.used \ {0} : role1[c] = role[c]
  BY DEF Kept, Frame
<1>3. \A c \in e.used \ {0} : role2[c] = role1[c]
  BY DEF Kept, Frame
<1>4. OldKept(role, u, w, S, s)
  <2>1. SUFFICES ASSUME NEW c \in u.used \ {0}, Inner(role[c][2]), NEW k \in Digit
                 PROVE  \/ w.disk[c][k] = u.disk[c][k]
                        \/ /\ u.disk[c][k] = 0 /\ Under(role[c][2], k) \in S
                           /\ Anew(u, w, s, Under(role[c][2], k), w.disk[c][k])
    BY DEF OldKept
  <2>2. c \in e.used \ {0} /\ role1[c] = role[c]
    BY <1>1, <1>2
  <2>3. \/ e.disk[c][k] = u.disk[c][k]
        \/ /\ u.disk[c][k] = 0 /\ Under(role[c][2], k) \in S
           /\ Anew(u, e, s, Under(role[c][2], k), e.disk[c][k])
    BY <2>1 DEF Local, OldKept
  <2>4. \/ w.disk[c][k] = e.disk[c][k]
        \/ /\ e.disk[c][k] = 0 /\ Under(role[c][2], k) \in R
           /\ Anew(e, w, s, Under(role[c][2], k), w.disk[c][k])
    BY <2>1, <2>2 DEF Local, OldKept
  <2>. QED
    BY <1>1, <2>3, <2>4, AnewLater
<1>5. NewOnWay(u, role2, w, f, S, s)
  <2>1. SUFFICES ASSUME NEW c \in w.used \ u.used
                 PROVE  /\ role2[c][1] = f /\ Inner(role2[c][2]) /\ role2[c][2] \in S
                        /\ \A k \in Digit : \/ w.disk[c][k] = 0
                                            \/ /\ Under(role2[c][2], k) \in S
                                               /\ Anew(u, w, s, Under(role2[c][2], k), w.disk[c][k])
    BY DEF NewOnWay
  <2>2. CASE c \notin e.used
    BY <1>1, <2>2, AnewLater DEF Local, NewOnWay
  <2>3. CASE c \in e.used
    <3>1. c \in e.used \ {0} /\ role2[c] = role1[c] /\ c \in e.used \ u.used
      BY <1>1, <1>3, <2>3
    <3>2. role1[c][1] = f /\ Inner(role1[c][2]) /\ role1[c][2] \in S
      BY <3>1 DEF Local, NewOnWay
    <3>3. ASSUME NEW k \in Digit
          PROVE  w.disk[c][k] = 0 \/ (Under(role1[c][2], k) \in S /\ Anew(u, w, s, Under(role1[c][2], k), w.disk[c][k]))
      <4>1. e.disk[c][k] = 0 \/ (Under(role1[c][2], k) \in S /\ Anew(u, e, s, Under(role1[c][2], k), e.disk[c][k]))
        BY <3>1 DEF Local, NewOnWay
      <4>2. \/ w.disk[c][k] = e.disk[c][k]
            \/ Under(role1[c][2], k) \in R /\ Anew(e, w, s, Under(role1[c][2], k), w.disk[c][k])
        BY <3>1, <3>2 DEF Local, OldKept
      <4>. QED
        BY <1>1, <4>1, <4>2, AnewLater
    <3>. QED
      BY <3>1, <3>2, <3>3
  <2>. QED
    BY <2>2, <2>3
<1>. QED
  BY <1>4, <1>5 DEF Local

(* The pointer x linked into block b, which is there for p.  A pointer     *)
(* that was not 0 is linked again as it was.                               *)
LEMMA LocalLink ==
  ASSUME NEW role, NEW u, NEW role2, NEW w \in Volumes, NEW f, NEW S, NEW s,
         Vol(role, u), Kept(role, u, role2, w, f), Local(role, u, role2, w, f, S, s),
         NEW p, Inner(p), NEW b, Holds(role2, w.used, f, p, b), b \notin {0, -1, -2}, NEW k \in Digit, Under(p, k) \in S,
         NEW x, \/ b \in u.used /\ u.disk[b][k] = x
                \/ (b \in u.used => u.disk[b][k] = 0) /\ Anew(u, w, s, Under(p, k), x)
  PROVE  Local(role, u, role2, Linked(w, b, k, x), f, S, s)
<1>0. w.used \in SUBSET Blocks /\ w.disk \in [Blocks -> Buffer \cup Pointers]
  BY DEF Volumes
<1>1. b \in Blocks \ {0} /\ b \in w.used /\ role2[b][1] = f /\ role2[b][2] = p
  <2>1. w.used \in SUBSET Blocks /\ Holds(role2, w.used, f, p, b) /\ b \notin {0, -1, -2}
    BY <1>0
  <2>2. b \in w.used \ {0} /\ role2[b] = <<f, p>>
    BY <2>1 DEF Holds
  <2>. QED
    BY <1>0, <2>2
<1> DEFINE y == Linked(w, b, k, x)
<1>2. y.used = w.used /\ y.disk[b] = Upd(w.disk[b], k, x) /\ \A c \in Blocks \ {b} : y.disk[c] = w.disk[c]
  BY <1>1, LinkedIs
<1>3. \A q, z : Anew(u, w, s, q, z) <=> Anew(u, y, s, q, z)
  BY <1>2 DEF Anew
<1>4. u.used \subseteq w.used /\ 0 \in u.used /\ \A c \in u.used \ {0} : role2[c] = role[c]
  BY DEF Kept, Frame, Vol
<1>5. w.disk[b] \in Pointers
  <2>1. BlockOK(role2, w, b)
    BY <1>1 DEF Kept, Vol
  <2>. QED
    BY <2>1, <1>1 DEF BlockOK
<1>6. y.disk[b][k] = x /\ \A j \in Digit \ {k} : y.disk[b][j] = w.disk[b][j]
  BY <1>2, <1>5 DEF Upd, Pointers, Digit
<1> HIDE DEF y
<1>7. OldKept(role, u, y, S, s)
  <2>1. SUFFICES ASSUME NEW c \in u.used \ {0}, Inner(role[c][2]), NEW j \in Digit
                 PROVE  \/ y.disk[c][j] = u.disk[c][j]
                        \/ /\ u.disk[c][j] = 0 /\ Under(role[c][2], j) \in S
                           /\ Anew(u, y, s, Under(role[c][2], j), y.disk[c][j])
    BY DEF OldKept
  <2>2. \/ w.disk[c][j] = u.disk[c][j]
        \/ /\ u.disk[c][j] = 0 /\ Under(role[c][2], j) \in S
           /\ Anew(u, w, s, Under(role[c][2], j), w.disk[c][j])
    BY <2>1 DEF Local, OldKept
  <2>3. c \in Blocks
    BY <1>0, <1>4
  <2>4. CASE c = b /\ j = k
    BY <2>4, <1>1, <1>3, <1>4, <1>6
  <2>5. CASE c # b \/ j # k
    <3>1. y.disk[c][j] = w.disk[c][j]
      BY <2>5, <2>3, <1>2, <1>6
    <3>. QED
      BY <3>1, <2>2, <1>3
  <2>. QED
    BY <2>4, <2>5
<1>8. NewOnWay(u, role2, y, f, S, s)
  <2>1. SUFFICES ASSUME NEW c \in w.used \ u.used
                 PROVE  /\ role2[c][1] = f /\ Inner(role2[c][2]) /\ role2[c][2] \in S
                        /\ \A j \in Digit : \/ y.disk[c][j] = 0
                                            \/ /\ Under(role2[c][2], j) \in S
                                               /\ Anew(u, y, s, Under(role2[c][2], j), y.disk[c][j])
    BY <1>2 DEF NewOnWay
  <2>2. role2[c][1] = f /\ Inner(role2[c][2]) /\ role2[c][2] \in S
    BY DEF Local, NewOnWay
  <2>3. ASSUME NEW j \in Digit
        PROVE  y.disk[c][j] = 0 \/ (Under(role2[c][2], j) \in S /\ Anew(u, y, s, Under(role2[c][2], j), y.disk[c][j]))
    <3>1. w.disk[c][j] = 0 \/ (Under(role2[c][2], j) \in S /\ Anew(u, w, s, Under(role2[c][2], j), w.disk[c][j]))
      BY DEF Local, NewOnWay
    <3>2. c \in Blocks
      BY <1>0
    <3>3. CASE c = b /\ j = k
      BY <3>3, <1>1, <1>3, <1>6
    <3>4. CASE c # b \/ j # k
      <4>1. y.disk[c][j] = w.disk[c][j]
        BY <3>4, <3>2, <1>2, <1>6
      <4>. QED
        BY <4>1, <3>1, <1>3
    <3>. QED
      BY <3>3, <3>4
  <2>. QED
    BY <2>2, <2>3
<1>. QED
  BY <1>7, <1>8 DEF Local, y

(* The numbers found at the places of the way S from the top down, ending  *)
(* at the block phys, or at an error code because the volume is full.      *)
TrailLink(w, S, val, q) ==
  Inner(q) => \A k \in Digit : Under(q, k) \in S =>
     IF val[q] < 0 THEN val[Under(q, k)] = val[q] ELSE w.disk[val[q]][k] = val[Under(q, k)]
TrailEntry(role2, w, f, val, q) == val[q] # 0 /\ (val[q] < 0 => w.used = Blocks) /\ Holds(role2, w.used, f, q, val[q])
Trail(u, role2, w, f, S, s, phys, val) ==
  /\ val \in [S -> Int]
  /\ \A q \in S : TrailEntry(role2, w, f, val, q)
  /\ \A q \in S : TrailLink(w, S, val, q)
  /\ s \in S /\ (val[s] = phys \/ val[s] < 0)
  /\ \A c \in w.used \ u.used : w.used = Blocks \/ \E q \in S : val[q] = c
Trails(u, role2, w, f, S, s, phys, p, x) == \E val : Trail(u, role2, w, f, S, s, phys, val) /\ val[p] = x

(* What a call of the recursion at the place p leaves behind, where the    *)
(* number b stood: the volume in order and, if the place s was free and    *)
(* nothing on the way to it an error code, the way to phys.                *)
Outcome(role, u, b, role2, r, f, p, S, s, phys, clear) ==
  /\ Nested(role, u, role2, r, f, p)
  /\ clear => /\ Local(role, u, role2, r.vol, f, S, s)
              /\ b = 0 \/ r.ret = b
              /\ b = 0 => Anew(u, r.vol, s, p, r.ret)
              /\ Trails(u, role2, r.vol, f, S, s, phys, p, r.ret)

ClearLast(dk, b, k) == b = 0 \/ (b > 0 /\ dk[b][k] = 0)

(* The block e entered at p, where the number b stood *)
EntryRight(role, u, f, p, b, e, role1) ==
  /\ e.vol \in Volumes /\ Vol(role1, e.vol) /\ Kept(role, u, role1, e.vol, f)
  /\ Holds(role1, e.vol.used, f, p, e.block) /\ e.block \in Int /\ e.block # 0 /\ b \in Int
  /\ b # 0 => e.vol = u /\ e.block = b
  /\ e.block < 0 => e.block \in {-1, -2} /\ (b = 0 => e.vol = u /\ u.used = Blocks /\ e.block = -1)
  /\ e.block > 0 /\ b = 0 => e.block \notin u.used /\ e.block \in Blocks /\ \A k \in Digit : e.vol.disk[e.block][k] = 0
  /\ \A c \in e.vol.used \ u.used : c = e.block

(* What the call at a place finds when it enters its block. *)
LEMMA EntryIs ==
  ASSUME NEW role, NEW u \in Volumes, Vol(role, u), NEW f \in Files, NEW p \in Place, Inner(p),
         NEW b, Holds(role, u.used, f, p, b), NEW e, NEW role1, Entry(role, u, f, p, b, e, role1)
  PROVE  EntryRight(role, u, f, p, b, e, role1)
<1>1. e.vol \in Volumes /\ Vol(role1, e.vol) /\ Kept(role, u, role1, e.vol, f) /\ Holds(role1, e.vol.used, f, p, e.block)
  BY DEF Entry, Kept
<1>2. e.vol.used \in SUBSET Blocks /\ u.used \in SUBSET Blocks
  BY <1>1 DEF Volumes
<1>3. e.block \in Int /\ b \in Int
  BY <1>1, <1>2, HoldsNumber
<1>4. b # 0 => e.vol = u /\ e.block = b
  BY DEF Entry
<1>5. b = 0 => \/ e.block = -1 /\ u.used = Blocks /\ e.vol = u
               \/ e.block \in Blocks \ u.used /\ e.vol.used = u.used \cup {e.block} /\ e.vol.disk[e.block] = NoPtrs
  BY DEF Entry
<1>6. e.block < 0 => e.block \in {-1, -2}
  BY <1>1, <1>2, <1>3, BlocksAre DEF Holds
<1>7. e.block \in Blocks => e.block >= 0
  <2>1. Blocks \subseteq Nat
    BY BlocksAre
  <2>. QED
    BY <2>1, <1>3
<1>8. e.block # 0
  BY DEF Entry
<1>9. e.block < 0 => (b = 0 => e.vol = u /\ u.used = Blocks /\ e.block = -1)
  BY <1>3, <1>5, <1>7
<1>10. e.block > 0 /\ b = 0 => e.block \notin u.used /\ e.block \in Blocks /\ \A k \in Digit : e.vol.disk[e.block][k] = 0
  BY <1>3, <1>5, NoPtrsIs
<1>11. \A c \in e.vol.used \ u.used : c = e.block
  BY <1>4, <1>5
<1>. QED
  BY <1>1, <1>3, <1>4, <1>6, <1>8, <1>9, <1>10, <1>11 DEF EntryRight

(* sfs_set_phys_recurse at depth 0 *)
LEMMA LastOutcome ==
  ASSUME NEW role, NEW u \in Volumes, Vol(role, u), NEW f \in Files, NEW p \in Place, Inner(p),
         NEW b, Holds(role, u.used, f, p, b), NEW k \in Digit,
         NEW phys, Holds(role, u.used, f, Under(p, k), phys), phys \notin {0, -1, -2}
  PROVE  \E role2 : Outcome(role, u, b, role2, SetLast(Entered(u, b), k, phys), f, p, {p, Under(p, k)}, Under(p, k), phys,
                            ClearLast(u.disk, b, k))
<1> DEFINE e == Entered(u, b)
           role1 == EnterRole(role, u, b, f, p)
           r == SetLast(e, k, phys)
           s == Under(p, k)
           S == {p, s}
<1>1. Entry(role, u, f, p, b, e, role1)
  BY EnterOK
<1> HIDE DEF e, role1
<1>2. /\ e.vol \in Volumes /\ Vol(role1, e.vol) /\ Kept(role, u, role1, e.vol, f)
      /\ Holds(role1, e.vol.used, f, p, e.block) /\ e.block \in Int /\ e.block # 0 /\ b \in Int
      /\ b # 0 => e.vol = u /\ e.block = b
      /\ e.block < 0 => e.block \in {-1, -2} /\ (b = 0 => e.vol = u /\ u.used = Blocks /\ e.block = -1)
      /\ e.block > 0 /\ b = 0 => e.block \notin u.used /\ e.block \in Blocks /\ \A j \in Digit : e.vol.disk[e.block][j] = 0
      /\ \A c \in e.vol.used \ u.used : c = e.block
  <2>1. EntryRight(role, u, f, p, b, e, role1)
    BY <1>1, EntryIs
  <2>. QED
    BY <2>1 DEF EntryRight
<1>3. Holds(role1, e.vol.used, f, s, phys)
  BY <1>2, KeptHolds
<1>4. Nested(role1, e.vol, role1, r, f, p)
  BY <1>2, <1>3, SetLastOK
<1>5. Nested(role, u, role1, r, f, p)
  <2>1. Kept(role1, e.vol, role1, r.vol, f) /\ Holds(role1, r.vol.used, f, p, r.ret)
    BY <1>4 DEF Nested
  <2>2. Kept(role, u, role1, r.vol, f)
    BY <2>1, <1>2, KeptTrans
  <2>. QED
    BY <2>1, <2>2 DEF Nested
<1>6. Local(role, u, role1, e.vol, f, S, s)
  BY <1>1, LocalEnter
<1>7. p # s /\ s[2] = p[2] + 1 /\ s \in Place
  <2>1. s \in Place /\ s[2] = p[2] + 1 /\ p[2] \in 0 .. 2
    BY UnderIs
  <2>. QED
    BY <2>1
<1>8. u.used \in SUBSET Blocks /\ e.vol.used \in SUBSET Blocks
  BY <1>2 DEF Volumes
<1>9. phys \in Int /\ phys > 0
  <2>1. phys \in u.used \ {0} /\ phys \in Blocks \ {0} /\ phys > 0
    BY <1>8, HoldsBlock
  <2>. QED
    BY <2>1, BlocksAre
<1>10. \A j \in Digit : Under(p, j) \in S => j = k
  <2>1. \A j \in Digit : Under(p, j)[2] = p[2] + 1
    BY UnderIs
  <2>2. p[2] \in 0 .. 2
    BY UnderIs
  <2>. QED
    BY <2>1, <2>2, UnderTells
<1> HIDE DEF s, r
<1>11. ASSUME ClearLast(u.disk, b, k)
       PROVE  /\ Local(role, u, role1, r.vol, f, S, s)
              /\ b = 0 \/ r.ret = b
              /\ b = 0 => Anew(u, r.vol, s, p, r.ret)
              /\ Trails(u, role1, r.vol, f, S, s, phys, p, r.ret)
  <2>1. CASE e.block < 0
    <3>1. b = 0 /\ e.vol = u /\ u.used = Blocks /\ e.block = -1
      BY <2>1, <1>2, <1>11 DEF ClearLast
    <3>2. r.vol = u /\ r.ret = -1
      BY <3>1, SetLastIs DEF r
    <3>3. Anew(u, r.vol, s, p, r.ret)
      BY <3>1, <3>2, BlocksAre DEF Anew
    <3> DEFINE val == [q \in S |-> -1]
    <3>4. Trail(u, role1, r.vol, f, S, s, phys, val)
      BY <3>1, <3>2 DEF Trail, TrailEntry, TrailLink, Holds
    <3>5. val[p] = r.ret
      BY <3>2
    <3> HIDE DEF val
    <3>. QED
      BY <3>1, <3>2, <3>3, <3>4, <3>5, <1>6 DEF Trails
  <2>2. CASE e.block > 0
    <3>1. e.vol.disk[e.block][k] = 0 /\ e.block \notin {0, -1, -2}
      BY <2>2, <1>2, <1>11 DEF ClearLast
    <3>2. r.vol = Linked(e.vol, e.block, k, phys) /\ r.ret = e.block
      BY <2>2, <3>1, <1>2, SetLastIs DEF r
    <3>3. e.block \in u.used => u.disk[e.block][k] = 0
      BY <3>1, <1>2
    <3>4. Anew(u, e.vol, s, Under(p, k), phys)
      BY <1>9 DEF Anew, s
    <3>5. Under(p, k) \in S
      BY DEF s
    <3>6. Local(role, u, role1, Linked(e.vol, e.block, k, phys), f, S, s)
      BY <3>1, <3>3, <3>4, <3>5, <1>2, <1>6, LocalLink
    <3>7. b = 0 \/ r.ret = b
      BY <3>2, <1>2
    <3>8. b = 0 => Anew(u, r.vol, s, p, r.ret)
      BY <2>2, <3>2, <1>2 DEF Anew
    <3> DEFINE val == [q \in S |-> IF q = p THEN e.block ELSE phys]
    <3>9. val[p] = e.block /\ val[s] = phys /\ val \in [S -> Int]
      BY <1>2, <1>7, <1>9
    <3> HIDE DEF val
    <3>10. e.block \in Blocks
      BY <2>2, <1>2, <1>8, HoldsBlock, <3>1
    <3>11. r.vol.used = e.vol.used /\ r.vol.disk[e.block] = Upd(e.vol.disk[e.block], k, phys)
      BY <3>2, <3>10, <1>2, LinkedIs
    <3>12. r.vol.disk[e.block][k] = phys
      <4>0. e.block \in e.vol.used \ {0} /\ role1[e.block][2] = p
        BY <3>1, <1>2 DEF Holds
      <4>1. BlockOK(role1, e.vol, e.block) /\ role1[e.block][2] = p
        BY <4>0, <1>2 DEF Vol
      <4>2. e.vol.disk[e.block] \in Pointers
        BY <4>1 DEF BlockOK
      <4>. QED
        BY <4>2, <3>11 DEF Upd, Pointers, Digit
    <3>13. TrailEntry(role1, r.vol, f, val, p) /\ TrailEntry(role1, r.vol, f, val, s)
      BY <3>9, <3>11, <2>2, <1>2, <1>3, <1>9 DEF TrailEntry
    <3>14. TrailLink(r.vol, S, val, p)
      BY <1>10, <3>9, <3>12, <2>2, <1>2 DEF TrailLink, s
    <3>15. TrailLink(r.vol, S, val, s)
      <4>1. SUFFICES ASSUME Inner(s), NEW j \in Digit PROVE Under(s, j) \notin S
        BY DEF TrailLink
      <4>2. Under(s, j)[2] = s[2] + 1 /\ p[2] \in 0 .. 2
        BY <4>1, <1>7, UnderIs
      <4>. QED
        BY <4>2, <1>7
    <3>16. \A c \in r.vol.used \ u.used : \E q \in S : val[q] = c
      BY <3>9, <3>11, <1>2
    <3>17. Trail(u, role1, r.vol, f, S, s, phys, val)
      BY <3>9, <3>13, <3>14, <3>15, <3>16 DEF Trail
    <3>. QED
      BY <3>2, <3>6, <3>7, <3>8, <3>9, <3>17 DEF Trails
  <2>. QED
    BY <2>1, <2>2, <1>2
<1>12. Outcome(role, u, b, role1, r, f, p, S, s, phys, ClearLast(u.disk, b, k))
  BY <1>5, <1>11 DEF Outcome
<1>. QED
  BY <1>12 DEF r, s, e

(* The places of a way that goes on from p by the digit k *)
GoesOn(S, p, k) == Under(p, k) \in S /\ \A q \in S : q \in Place /\ (q = Under(p, k) \/ q[2] > p[2] + 1)

(* No block but b is taken. *)
Single(u, w, b) == \A c \in w.used \ u.used : c = b

(* The trail of the nested call, with the block it is linked into *)
LEMMA LongerTrail ==
  ASSUME NEW role, NEW u \in Volumes, Vol(role, u), NEW f \in Files, NEW p \in Place, Inner(p),
         NEW k \in Digit, NEW S, GoesOn(S, p, k), NEW s, NEW phys,
         NEW e, NEW role1, Kept(role, u, role1, e.vol, f), Single(u, e.vol, e.block),
         Holds(role1, e.vol.used, f, p, e.block), e.block \in Int, e.block > 0,
         NEW role2, NEW w, Kept(role1, e.vol, role2, w, f),
         NEW v0, Trail(e.vol, role2, w, f, S, s, phys, v0), NEW x, x = v0[Under(p, k)]
  PROVE  Trails(u, role2, Linked(w, e.block, k, x), f, S \cup {p}, s, phys, p, e.block)
<1> DEFINE y == Linked(w, e.block, k, x)
           R == S \cup {p}
           val == [q \in R |-> IF q = p THEN e.block ELSE v0[q]]
<1>1. Under(p, k) \in S /\ Under(p, k)[2] = p[2] + 1 /\ p[2] \in 0 .. 2 /\ \A q \in S : q \in Place /\ (q = Under(p, k) \/ q[2] > p[2] + 1)
  BY UnderIs DEF GoesOn
<1>2. p \notin S
  BY <1>1
<1>3. w \in Volumes /\ Vol(role2, w) /\ w.used \in SUBSET Blocks
  BY DEF Kept, Volumes
<1>4. Holds(role2, w.used, f, p, e.block)
  BY KeptHolds
<1>5. e.block \in w.used \ {0} /\ e.block \in Blocks /\ role2[e.block] = <<f, p>>
  BY <1>3, <1>4 DEF Holds
<1>6. y.used = w.used /\ y.disk[e.block] = Upd(w.disk[e.block], k, x) /\ \A c \in Blocks \ {e.block} : y.disk[c] = w.disk[c]
  BY <1>3, <1>5, LinkedIs
<1>7. y.disk[e.block][k] = x
  <2>1. BlockOK(role2, w, e.block) /\ role2[e.block][2] = p
    BY <1>3, <1>5 DEF Vol
  <2>2. w.disk[e.block] \in Pointers
    BY <2>1 DEF BlockOK
  <2>. QED
    BY <2>2, <1>6 DEF Upd, Pointers, Digit
<1>8. v0 \in [S -> Int]
  BY DEF Trail
<1>9. val[p] = e.block /\ val \in [R -> Int] /\ \A q \in S : val[q] = v0[q]
  BY <1>2, <1>8
<1> HIDE DEF val, y
<1>10. TrailEntry(role2, y, f, val, p)
  BY <1>4, <1>6, <1>9 DEF TrailEntry
<1>11. ASSUME NEW q \in S PROVE TrailEntry(role2, y, f, val, q)
  <2>1. TrailEntry(role2, w, f, v0, q)
    BY DEF Trail
  <2>. QED
    BY <2>1, <1>6, <1>9 DEF TrailEntry
<1>12. TrailLink(y, R, val, p)
  <2>1. SUFFICES ASSUME NEW j \in Digit, Under(p, j) \in R PROVE y.disk[e.block][j] = val[Under(p, j)]
    BY <1>9 DEF TrailLink
  <2>2. Under(p, j)[2] = p[2] + 1
    BY UnderIs
  <2>3. Under(p, j) \in S
    BY <2>1, <2>2, <1>1
  <2>4. Under(p, j) = Under(p, k)
    BY <2>2, <2>3, <1>1
  <2>5. j = k
    BY <2>4, UnderTells
  <2>. QED
    BY <2>3, <2>5, <1>7, <1>9
<1>13. ASSUME NEW q \in S PROVE TrailLink(y, R, val, q)
  <2>1. SUFFICES ASSUME Inner(q), NEW j \in Digit, Under(q, j) \in R
                 PROVE  IF val[q] < 0 THEN val[Under(q, j)] = val[q] ELSE y.disk[val[q]][j] = val[Under(q, j)]
    BY DEF TrailLink
  <2>2. Under(q, j)[2] = q[2] + 1 /\ q[2] \in 0 .. 2
    BY <2>1, <1>1, UnderIs
  <2>3. Under(q, j) \in S
    BY <2>1, <2>2, <1>1
  <2>4. IF v0[q] < 0 THEN v0[Under(q, j)] = v0[q] ELSE w.disk[v0[q]][j] = v0[Under(q, j)]
    BY <2>1, <2>3 DEF Trail, TrailLink
  <2>5. v0[q] >= 0 => v0[q] \in Blocks \ {e.block}
    <3>1. v0[q] # 0 /\ Holds(role2, w.used, f, q, v0[q])
      BY DEF Trail, TrailEntry
    <3>2. v0[q] \in Int
      BY <1>8
    <3>3. v0[q] >= 0 => v0[q] \in w.used /\ role2[v0[q]] = <<f, q>>
      BY <3>1, <3>2 DEF Holds
    <3>. QED
      BY <3>3, <1>2, <1>3, <1>5
  <2>6. v0[q] \in Int
    BY <1>8
  <2>. QED
    BY <2>3, <2>4, <2>5, <2>6, <1>6, <1>9
<1>14. s \in R /\ (val[s] = phys \/ val[s] < 0)
  BY <1>9 DEF Trail
<1>15. \A c \in y.used \ u.used : y.used = Blocks \/ \E q \in R : val[q] = c
  <2>1. SUFFICES ASSUME NEW c \in y.used \ u.used, y.used # Blocks PROVE \E q \in R : val[q] = c
    OBVIOUS
  <2>2. CASE c \in e.vol.used
    BY <2>1, <2>2, <1>9 DEF Single
  <2>3. CASE c \notin e.vol.used
    <3>1. \E q \in S : v0[q] = c
      BY <2>1, <2>3, <1>6 DEF Trail
    <3>. QED
      BY <3>1, <1>9
  <2>. QED
    BY <2>2, <2>3
<1>16. Trail(u, role2, y, f, R, s, phys, val)
  BY <1>9, <1>10, <1>11, <1>12, <1>13, <1>14, <1>15 DEF Trail
<1>. QED
  BY <1>9, <1>16 DEF y, Trails

(* sfs_set_phys_recurse above depth 0 *)
LEMMA StoredOutcome ==
  ASSUME NEW role, NEW u \in Volumes, Vol(role, u), NEW f \in Files, NEW p \in Place, Inner(p),
         NEW b, Holds(role, u.used, f, p, b), NEW k \in Digit,
         NEW S, GoesOn(S, p, k), NEW s \in S, NEW phys, NEW clear, NEW clear2, clear => b >= 0,
         NEW e, NEW role1, Entry(role, u, f, p, b, e, role1), e.block > 0 /\ clear => clear2,
         NEW r, e.block > 0 => \E role2 : Outcome(role1, e.vol, e.vol.disk[e.block][k], role2, r, f, Under(p, k), S, s, phys, clear2)
  PROVE  \E role2 : Outcome(role, u, b, role2, Stored(e, k, r), f, p, S \cup {p}, s, phys, clear)
<1> DEFINE y == Stored(e, k, r)
           R == S \cup {p}
<1>1. /\ e.vol \in Volumes /\ Vol(role1, e.vol) /\ Kept(role, u, role1, e.vol, f)
      /\ Holds(role1, e.vol.used, f, p, e.block) /\ e.block \in Int /\ e.block # 0 /\ b \in Int
      /\ b # 0 => e.vol = u /\ e.block = b
      /\ e.block < 0 => e.block \in {-1, -2} /\ (b = 0 => e.vol = u /\ u.used = Blocks /\ e.block = -1)
      /\ e.block > 0 /\ b = 0 => e.block \notin u.used /\ e.block \in Blocks /\ \A j \in Digit : e.vol.disk[e.block][j] = 0
      /\ \A c \in e.vol.used \ u.used : c = e.block
  <2>1. EntryRight(role, u, f, p, b, e, role1)
    BY EntryIs
  <2>. QED
    BY <2>1 DEF EntryRight
<1>2. Local(role, u, role1, e.vol, f, R, s)
  BY LocalEnter
<1>3. CASE e.block < 0
  <2>1. y.vol = e.vol /\ y.ret = -1
    BY <1>1, <1>3, StoredIs
  <2>2. Nested(role, u, role1, y, f, p)
    BY <2>1, <1>1 DEF Nested, Holds
  <2>3. ASSUME clear
        PROVE  /\ Local(role, u, role1, y.vol, f, R, s)
               /\ b = 0 \/ y.ret = b
               /\ b = 0 => Anew(u, y.vol, s, p, y.ret)
               /\ Trails(u, role1, y.vol, f, R, s, phys, p, y.ret)
    <3>1. b = 0 /\ e.vol = u /\ u.used = Blocks
      BY <2>3, <1>1, <1>3
    <3>2. Anew(u, y.vol, s, p, y.ret)
      BY <2>1, <3>1, BlocksAre DEF Anew
    <3> DEFINE val == [q \in R |-> -1]
    <3>3. s \in R /\ val \in [R -> Int] /\ val[s] < 0 /\ val[p] = -1
      OBVIOUS
    <3>4. \A q \in R : TrailEntry(role1, y.vol, f, val, q) /\ TrailLink(y.vol, R, val, q)
      BY <2>1, <3>1 DEF TrailEntry, TrailLink, Holds
    <3>5. Trail(u, role1, y.vol, f, R, s, phys, val)
      BY <2>1, <3>1, <3>3, <3>4 DEF Trail
    <3> HIDE DEF val
    <3>. QED
      BY <2>1, <3>1, <3>2, <3>3, <3>5, <1>2 DEF Trails
  <2>. QED
    BY <2>2, <2>3 DEF Outcome
<1>4. CASE e.block > 0
  <2> DEFINE c0 == e.vol.disk[e.block][k]
             q0 == Under(p, k)
  <2>1. PICK role2 : Outcome(role1, e.vol, c0, role2, r, f, q0, S, s, phys, clear2)
    BY <1>4
  <2>2. Nested(role1, e.vol, role2, r, f, q0)
    BY <2>1 DEF Outcome
  <2>3. Nested(role1, e.vol, role2, y, f, p)
    BY <2>2, <1>1, <1>4, StoredOK
  <2>4. Nested(role, u, role2, y, f, p)
    <3>1. Kept(role1, e.vol, role2, y.vol, f) /\ Holds(role2, y.vol.used, f, p, y.ret)
      BY <2>3 DEF Nested
    <3>2. Kept(role, u, role2, y.vol, f)
      BY <3>1, <1>1, KeptTrans
    <3>. QED
      BY <3>1, <3>2 DEF Nested
  <2>5. y.vol = Linked(r.vol, e.block, k, r.ret) /\ y.ret = e.block
    BY <1>1, <1>4, StoredIs
  <2>6. q0 \in R /\ S \subseteq R
    BY DEF GoesOn
  <2>7. Kept(role1, e.vol, role2, r.vol, f) /\ r.vol \in Volumes
    BY <2>2 DEF Nested, Kept
  <2>8. Kept(role, u, role2, r.vol, f) /\ e.vol.used \subseteq r.vol.used /\ r.vol.used \in SUBSET Blocks /\ u.used \subseteq e.vol.used
    <3>1. Kept(role, u, role2, r.vol, f)
      BY <2>7, <1>1, KeptTrans
    <3>2. r.vol.used \in SUBSET Blocks
      BY <2>7 DEF Volumes
    <3>3. e.vol.used \subseteq r.vol.used /\ u.used \subseteq e.vol.used
      BY <2>7, <1>1 DEF Kept, Frame
    <3>. QED
      BY <3>1, <3>2, <3>3
  <2> HIDE DEF y, R, c0, q0
  <2>9. ASSUME clear
        PROVE  /\ Local(role, u, role2, y.vol, f, R, s)
               /\ b = 0 \/ y.ret = b
               /\ b = 0 => Anew(u, y.vol, s, p, y.ret)
               /\ Trails(u, role2, y.vol, f, R, s, phys, p, y.ret)
    <3>1. /\ Local(role1, e.vol, role2, r.vol, f, S, s)
          /\ c0 = 0 \/ r.ret = c0
          /\ c0 = 0 => Anew(e.vol, r.vol, s, q0, r.ret)
          /\ Trails(e.vol, role2, r.vol, f, S, s, phys, q0, r.ret)
      BY <2>1, <2>9, <1>4 DEF Outcome
    <3>2. Local(role, u, role2, r.vol, f, R, s)
      BY <3>1, <2>6, <2>7, <1>1, <1>2, LocalTrans
    <3>3. c0 = 0 => Anew(u, r.vol, s, q0, r.ret)
      BY <3>1, <2>8, AnewLater
    <3>4. \/ e.block \in u.used /\ u.disk[e.block][k] = r.ret
          \/ (e.block \in u.used => u.disk[e.block][k] = 0) /\ Anew(u, r.vol, s, q0, r.ret)
      <4>1. CASE b = 0
        <5>1. e.block \notin u.used /\ c0 = 0
          BY <4>1, <1>1, <1>4 DEF c0
        <5>. QED
          BY <5>1, <3>3
      <4>2. CASE b # 0
        <5>1. e.vol = u /\ c0 = u.disk[e.block][k]
          BY <4>2, <1>1 DEF c0
        <5>2. e.block \in u.used
          BY <5>1, <1>1, <1>4 DEF Holds
        <5>. QED
          BY <5>1, <5>2, <3>1, <3>3
      <4>. QED
        BY <4>1, <4>2
    <3>5. Holds(role2, r.vol.used, f, p, e.block) /\ e.block \notin {0, -1, -2}
      <4>1. Holds(role2, r.vol.used, f, p, e.block)
        BY <2>7, <1>1, KeptHolds
      <4>. QED
        BY <4>1, <1>1, <1>4
    <3>6. Local(role, u, role2, Linked(r.vol, e.block, k, r.ret), f, R, s)
      BY <3>2, <3>4, <3>5, <2>6, <2>7, <2>8, LocalLink DEF q0
    <3>7. b = 0 \/ y.ret = b
      BY <2>5, <1>1
    <3>8. b = 0 => Anew(u, y.vol, s, p, y.ret)
      BY <2>5, <1>1, <1>4 DEF Anew
    <3>9. PICK v0 : Trail(e.vol, role2, r.vol, f, S, s, phys, v0) /\ v0[q0] = r.ret
      BY <3>1 DEF Trails
    <3>10. Trails(u, role2, Linked(r.vol, e.block, k, r.ret), f, S \cup {p}, s, phys, p, e.block)
      <4>1. r.ret = v0[Under(p, k)] /\ Trail(e.vol, role2, r.vol, f, S, s, phys, v0)
        BY <3>9 DEF q0
      <4>2. Single(u, e.vol, e.block)
        BY <1>1 DEF Single
      <4>3. Kept(role, u, role1, e.vol, f) /\ Kept(role1, e.vol, role2, r.vol, f)
        BY <1>1, <2>7
      <4>4. Holds(role1, e.vol.used, f, p, e.block) /\ e.block \in Int
        BY <1>1
      <4>. QED
        BY <4>1, <4>2, <4>3, <4>4, <1>4, LongerTrail
    <3>11. Trails(u, role2, y.vol, f, R, s, phys, p, y.ret)
      BY <3>9, <3>10, <2>5 DEF R
    <3>. QED
      BY <3>6, <3>7, <3>8, <3>11, <2>5
  <2>10. Outcome(role, u, b, role2, y, f, p, R, s, phys, clear)
    BY <2>4, <2>9 DEF Outcome
  <2>. QED
    BY <2>10 DEF y, R
<1>. QED
  BY <1>1, <1>3, <1>4

ClearSecond(dk, b, k1, k2) == b = 0 \/ (b > 0 /\ ClearLast(dk, dk[b][k1], k2))
ClearThird(dk, b, k1, k2, k3) == b = 0 \/ (b > 0 /\ ClearSecond(dk, dk[b][k1], k2, k3))
Way1(p, k) == {p, Under(p, k)}
Way2(p, k1, k2) == Way1(Under(p, k1), k2) \cup {p}
Way3(p, k1, k2, k3) == Way2(Under(p, k1), k2, k3) \cup {p}

(* The pointer found in a block that is there for p *)
LEMMA PointerHolds ==
  ASSUME NEW role, NEW v \in Volumes, Vol(role, v), NEW f, NEW p, Inner(p),
         NEW b, Holds(role, v.used, f, p, b), b \notin {0, -1, -2}, NEW k \in Digit
  PROVE  Holds(role, v.used, f, Under(p, k), v.disk[b][k])
<1>1. b \in v.used \ {0} /\ role[b][1] = f /\ role[b][2] = p
  BY DEF Holds
<1>2. BlockOK(role, v, b)
  BY <1>1 DEF Vol
<1>. QED
  BY <1>1, <1>2 DEF BlockOK

(* The way through one block goes on below it. *)
LEMMA Way1Is ==
  ASSUME NEW p \in Place, Inner(p), NEW k1 \in Digit, Inner(Under(p, k1)), NEW k2 \in Digit
  PROVE  GoesOn(Way1(Under(p, k1), k2), p, k1) /\ Under(Under(p, k1), k2) \in Way1(Under(p, k1), k2)
<1>1. Under(p, k1) \in Place /\ Under(p, k1)[2] = p[2] + 1 /\ p[2] \in 0 .. 2
  BY UnderIs
<1>2. Under(Under(p, k1), k2) \in Place /\ Under(Under(p, k1), k2)[2] = Under(p, k1)[2] + 1
  BY <1>1, UnderIs
<1>. QED
  BY <1>1, <1>2 DEF GoesOn, Way1

(* The way through two blocks does. *)
LEMMA Way2Is ==
  ASSUME NEW p \in Place, Inner(p), NEW k1 \in Digit, Inner(Under(p, k1)), NEW k2 \in Digit,
         Inner(Under(Under(p, k1), k2)), NEW k3 \in Digit
  PROVE  /\ GoesOn(Way2(Under(p, k1), k2, k3), p, k1)
         /\ Under(Under(Under(p, k1), k2), k3) \in Way2(Under(p, k1), k2, k3)
<1>1. Under(p, k1) \in Place /\ Under(p, k1)[2] = p[2] + 1 /\ p[2] \in 0 .. 2
  BY UnderIs
<1>2. Under(Under(p, k1), k2) \in Place /\ Under(Under(p, k1), k2)[2] = Under(p, k1)[2] + 1
  BY <1>1, UnderIs
<1>3. Under(Under(Under(p, k1), k2), k3) \in Place /\ Under(Under(Under(p, k1), k2), k3)[2] = Under(Under(p, k1), k2)[2] + 1
  BY <1>2, UnderIs
<1>. QED
  BY <1>1, <1>2, <1>3 DEF GoesOn, Way1, Way2

(* Recursion of depth 1 *)
LEMMA SecondOutcome ==
  ASSUME NEW role, NEW u \in Volumes, Vol(role, u), NEW f \in Files, NEW p \in Place, Inner(p),
         NEW b, Holds(role, u.used, f, p, b), NEW k1 \in Digit, Inner(Under(p, k1)), NEW k2 \in Digit,
         NEW path, path[1] = k1, path[2] = k2,
         NEW phys, Holds(role, u.used, f, Under(Under(p, k1), k2), phys), phys \notin {0, -1, -2}
  PROVE  \E role2 : Outcome(role, u, b, role2, SetSecond(Entered(u, b), path, phys), f, p, Way2(p, k1, k2),
                            Under(Under(p, k1), k2), phys, ClearSecond(u.disk, b, k1, k2))
<1> DEFINE e == Entered(u, b)
           role1 == EnterRole(role, u, b, f, p)
           c0 == e.vol.disk[e.block][k1]
           r == SetLast(Child(e, k1), k2, phys)
           q == Under(p, k1)
           s == Under(q, k2)
           S == Way1(q, k2)
           clear == ClearSecond(u.disk, b, k1, k2)
           clear2 == ClearLast(e.vol.disk, c0, k2)
<1>1. Entry(role, u, f, p, b, e, role1)
  BY EnterOK
<1> HIDE DEF e, role1
<1>2. /\ e.vol \in Volumes /\ Vol(role1, e.vol) /\ Kept(role, u, role1, e.vol, f)
      /\ Holds(role1, e.vol.used, f, p, e.block) /\ e.block \in Int /\ b \in Int
      /\ b # 0 => e.vol = u /\ e.block = b
      /\ e.block > 0 /\ b = 0 => \A j \in Digit : e.vol.disk[e.block][j] = 0
  <2>1. EntryRight(role, u, f, p, b, e, role1)
    BY <1>1, EntryIs
  <2>. QED
    BY <2>1 DEF EntryRight
<1>3. SetSecond(e, path, phys) = Stored(e, k1, r)
  BY DEF SetSecond
<1>4. q \in Place
  BY UnderIs
<1>5. GoesOn(S, p, k1) /\ s \in S
  BY Way1Is
<1>6. clear => b >= 0
  BY <1>2 DEF ClearSecond
<1>7. e.block > 0 /\ clear => clear2
  BY <1>2 DEF ClearSecond, ClearLast
<1>8. ASSUME e.block > 0
      PROVE  \E role2 : Outcome(role1, e.vol, c0, role2, r, f, q, S, s, phys, clear2)
  <2>1. e.block \notin {0, -1, -2}
    BY <1>2, <1>8
  <2>2. Holds(role1, e.vol.used, f, q, c0)
    BY <2>1, <1>2, PointerHolds
  <2>3. Holds(role1, e.vol.used, f, s, phys)
    BY <1>2, KeptHolds
  <2> HIDE DEF c0, q
  <2>4. \E role2 : Outcome(role1, e.vol, c0, role2, SetLast(Entered(e.vol, c0), k2, phys), f, q, {q, Under(q, k2)}, Under(q, k2), phys,
                           ClearLast(e.vol.disk, c0, k2))
    BY <2>2, <2>3, <1>2, <1>4, LastOutcome DEF q
  <2>. QED
    BY <2>4 DEF Child, Way1, c0
<1> HIDE DEF r, S, s, clear, clear2
<1>9. \E role2 : Outcome(role, u, b, role2, Stored(e, k1, r), f, p, S \cup {p}, s, phys, clear)
  BY <1>1, <1>5, <1>6, <1>7, <1>8, StoredOutcome
<1>. QED
  BY <1>3, <1>9 DEF e, S, s, clear, Way2

(* Recursion of depth 2 *)
LEMMA ThirdOutcome ==
  ASSUME NEW role, NEW u \in Volumes, Vol(role, u), NEW f \in Files, NEW p \in Place, Inner(p),
         NEW b, Holds(role, u.used, f, p, b), NEW k1 \in Digit, Inner(Under(p, k1)), NEW k2 \in Digit,
         Inner(Under(Under(p, k1), k2)), NEW k3 \in Digit,
         NEW phys, Holds(role, u.used, f, Under(Under(Under(p, k1), k2), k3), phys), phys \notin {0, -1, -2}
  PROVE  \E role2 : Outcome(role, u, b, role2, SetThird(Entered(u, b), <<k1, k2, k3>>, phys), f, p, Way3(p, k1, k2, k3),
                            Under(Under(Under(p, k1), k2), k3), phys, ClearThird(u.disk, b, k1, k2, k3))
<1> DEFINE path == <<k1, k2, k3>>
           e == Entered(u, b)
           role1 == EnterRole(role, u, b, f, p)
           c0 == e.vol.disk[e.block][k1]
           r == SetSecond(Child(e, k1), Tail(path), phys)
           q == Under(p, k1)
           s == Under(Under(q, k2), k3)
           S == Way2(q, k2, k3)
           clear == ClearThird(u.disk, b, k1, k2, k3)
           clear2 == ClearSecond(e.vol.disk, c0, k2, k3)
<1>1. Entry(role, u, f, p, b, e, role1)
  BY EnterOK
<1> HIDE DEF e, role1
<1>2. /\ e.vol \in Volumes /\ Vol(role1, e.vol) /\ Kept(role, u, role1, e.vol, f)
      /\ Holds(role1, e.vol.used, f, p, e.block) /\ e.block \in Int /\ b \in Int
      /\ b # 0 => e.vol = u /\ e.block = b
      /\ e.block > 0 /\ b = 0 => \A j \in Digit : e.vol.disk[e.block][j] = 0
  <2>1. EntryRight(role, u, f, p, b, e, role1)
    BY <1>1, EntryIs
  <2>. QED
    BY <2>1 DEF EntryRight
<1>3. SetThird(e, path, phys) = Stored(e, k1, r)
  BY DEF SetThird
<1>10. Tail(path)[1] = k2 /\ Tail(path)[2] = k3
  OBVIOUS
<1>4. q \in Place
  BY UnderIs
<1>5. GoesOn(S, p, k1) /\ s \in S
  BY Way2Is
<1>6. clear => b >= 0
  BY <1>2 DEF ClearThird
<1>7. e.block > 0 /\ clear => clear2
  BY <1>2 DEF ClearThird, ClearSecond
<1>8. ASSUME e.block > 0
      PROVE  \E role2 : Outcome(role1, e.vol, c0, role2, r, f, q, S, s, phys, clear2)
  <2>1. e.block \notin {0, -1, -2}
    BY <1>2, <1>8
  <2>2. Holds(role1, e.vol.used, f, q, c0)
    BY <2>1, <1>2, PointerHolds
  <2>3. Holds(role1, e.vol.used, f, s, phys)
    BY <1>2, KeptHolds
  <2> DEFINE t == Tail(path)
  <2> HIDE DEF c0, q, t
  <2>4. \E role2 : Outcome(role1, e.vol, c0, role2, SetSecond(Entered(e.vol, c0), t, phys), f, q, Way2(q, k2, k3),
                           Under(Under(q, k2), k3), phys, ClearSecond(e.vol.disk, c0, k2, k3))
    BY <2>2, <2>3, <1>2, <1>4, <1>10, SecondOutcome DEF q, t
  <2>. QED
    BY <2>4 DEF Child, c0, t
<1> HIDE DEF r, S, s, clear, clear2
<1>9. \E role2 : Outcome(role, u, b, role2, Stored(e, k1, r), f, p, S \cup {p}, s, phys, clear)
  BY <1>1, <1>5, <1>6, <1>7, <1>8, StoredOutcome
<1>. QED
  BY <1>3, <1>9 DEF e, S, s, clear, Way3

RootPlace(l) == <<l, 0, 0, 0, 0>>
DirectPlace(k) == <<0, 0, k, 0, 0>>

(* The same, for a property of the number at the place *)
LEMMA TopIs ==
  ASSUME NEW dk, NEW ino
  PROVE  /\ \A k \in 0 .. NumDirect - 1 : DirectPlace(k) \in Place /\ ~Inner(DirectPlace(k)) /\ At(dk, ino, DirectPlace(k)) = ino.direct[k]
         /\ \A l \in 1 .. 3 : RootPlace(l) \in Place /\ Inner(RootPlace(l)) /\ At(dk, ino, RootPlace(l)) = ino.root[l]
<1>1. \A k \in 0 .. NumDirect - 1 : DirectPlace(k) \in Place /\ ~Inner(DirectPlace(k)) /\ At(dk, ino, DirectPlace(k)) = ino.direct[k]
  BY DEF DirectPlace, Place, Inner, At
<1>2. \A l \in 1 .. 3 : RootPlace(l) \in Place /\ Inner(RootPlace(l)) /\ At(dk, ino, RootPlace(l)) = ino.root[l]
  BY DEF RootPlace, Place, Inner, At
<1>. QED
  BY <1>1, <1>2

(* The numbers the inode holds itself. *)
LEMMA AtDirect ==
  ASSUME NEW dk, NEW ino, NEW k \in 0 .. NumDirect - 1
  PROVE  At(dk, ino, DirectPlace(k)) = ino.direct[k]
  BY TopIs

(* Their places have none under them. *)
LEMMA DirectIs ==
  ASSUME NEW k \in 0 .. NumDirect - 1
  PROVE  DirectPlace(k) \in Place /\ ~Inner(DirectPlace(k))
  BY TopIs

(* A set with all the places of the inode, and all that are under one of   *)
(* its places, has every place.                                            *)
LEMMA PlacesTop ==
  ASSUME NEW X,
         \A k \in 0 .. NumDirect - 1 : DirectPlace(k) \in X,
         \A l \in 1 .. 3 : RootPlace(l) \in X,
         \A p \in Place : p \in X /\ Inner(p) => \A k \in Digit : Under(p, k) \in X
  PROVE  Place \subseteq X
  BY PlacesAll DEF DirectPlace, RootPlace

(* Every number a map in order holds may stand at its place. *)
NumberAt(role, us, f, p, b) ==
  /\ Holds(role, us, f, p, b) /\ b \in Int /\ b \in Numbers
  /\ b > 0 => b \in us \ {0} /\ b \in Blocks \ {0} /\ role[b] = <<f, p>>

(* At each place stands what may stand there. *)
LEMMA AtHolds ==
  ASSUME NEW role, NEW v \in Volumes, Vol(role, v), NEW f, NEW ino, InodeOK(role, v.used, f, ino)
  PROVE  \A p \in Place : NumberAt(role, v.used, f, p, At(v.disk, ino, p))
<1> DEFINE X == {p \in Place : Holds(role, v.used, f, p, At(v.disk, ino, p))}
<1>0. v.used \in SUBSET Blocks
  BY DEF Volumes
<1>1. \A k \in 0 .. NumDirect - 1 : DirectPlace(k) \in X
  <2>1. \A k \in 0 .. NumDirect - 1 : Holds(role, v.used, f, DirectPlace(k), ino.direct[k])
    BY DEF InodeOK, DirectPlace
  <2>. QED
    BY <2>1, TopIs
<1>2. \A l \in 1 .. 3 : RootPlace(l) \in X
  <2>1. \A l \in 1 .. 3 : Holds(role, v.used, f, RootPlace(l), ino.root[l])
    BY DEF InodeOK, RootPlace
  <2>. QED
    BY <2>1, TopIs
<1>3. ASSUME NEW p \in Place, p \in X, Inner(p), NEW k \in Digit
      PROVE  Under(p, k) \in X
  <2> DEFINE b == At(v.disk, ino, p)
  <2>1. Under(p, k) \in Place
    BY <1>3, UnderIs
  <2>2. At(v.disk, ino, Under(p, k)) = Down(v.disk, b, k)
    BY <1>3, AtUnder
  <2>3. Holds(role, v.used, f, p, b)
    BY <1>3
  <2> HIDE DEF b
  <2>4. CASE b \in {0, -1, -2}
    <3>1. b \notin Blocks \ {0}
      BY <2>4, BlocksAre
    <3>2. Down(v.disk, b, k) = b
      BY <3>1 DEF Down
    <3>. QED
      BY <2>1, <2>2, <3>2, <2>4 DEF Holds
  <2>5. CASE b \notin {0, -1, -2}
    <3>1. b \in Blocks \ {0}
      BY <2>3, <2>5, <1>0 DEF Holds
    <3>2. Down(v.disk, b, k) = v.disk[b][k]
      BY <3>1 DEF Down
    <3>3. Holds(role, v.used, f, Under(p, k), v.disk[b][k])
      BY <2>3, <2>5, <1>3, PointerHolds
    <3>. QED
      BY <2>1, <2>2, <3>2, <3>3
  <2>. QED
    BY <2>4, <2>5
<1> HIDE DEF X
<1>4. Place \subseteq X
  BY <1>1, <1>2, <1>3, PlacesTop
<1>5. SUFFICES ASSUME NEW p \in Place
               PROVE  NumberAt(role, v.used, f, p, At(v.disk, ino, p))
  OBVIOUS
<1> DEFINE b == At(v.disk, ino, p)
<1>6. Holds(role, v.used, f, p, b)
  BY <1>4 DEF X
<1> HIDE DEF b
<1>7. b \in Int /\ b \in Numbers
  BY <1>0, <1>6, HoldsNumber
<1>8. b > 0 => b \in v.used \ {0} /\ b \in Blocks \ {0} /\ role[b] = <<f, p>>
  BY <1>0, <1>6, <1>7 DEF Holds
<1>. QED
  BY <1>6, <1>7, <1>8 DEF b, NumberAt

(* A way from the root of level l: nothing of it hangs in the air. *)
Hangs(S, l) ==
  /\ RootPlace(l) \in S
  /\ \A k \in 0 .. NumDirect - 1 : DirectPlace(k) \notin S
  /\ \A j \in 1 .. 3 : RootPlace(j) \in S => j = l
  /\ \A q \in Place : Inner(q) => \A k \in Digit : Under(q, k) \in S => q \in S

(* The map of ino grown to jno on the way S to the place s *)
Grown(role, u, ino, role2, w, jno, f, l, S, s, phys) ==
  /\ Local(role, u, role2, w, f, S, s)
  /\ jno.direct = ino.direct /\ \A j \in 1 .. 3 : j # l => jno.root[j] = ino.root[j]
  /\ ino.root[l] = 0 \/ jno.root[l] = ino.root[l]
  /\ ino.root[l] = 0 => Anew(u, w, s, RootPlace(l), jno.root[l])
  /\ Trails(u, role2, w, f, S, s, phys, RootPlace(l), jno.root[l])

(* What may be found at the place p, where G was, after it *)
Later(u, w, S, s, p, G, H) ==
  /\ G > 0 => H = G
  /\ G = 0 => H = 0 \/ (H < 0 /\ w.used = Blocks) \/ (H > 0 /\ p \in S /\ (p = s \/ H \notin u.used))

(* What a call leaves at the other places is what it found, and what is    *)
(* new is on its way.                                                      *)
LEMMA GrownLater ==
  ASSUME NEW role, NEW u \in Volumes, Vol(role, u), NEW f \in Files, NEW ino, InodeOK(role, u.used, f, ino),
         \A p \in Place : At(u.disk, ino, p) >= 0,
         NEW role2, NEW w, Kept(role, u, role2, w, f), NEW jno, InodeOK(role2, w.used, f, jno),
         NEW l \in 1 .. 3, NEW S, Hangs(S, l), NEW s, ~Inner(s), NEW phys, Grown(role, u, ino, role2, w, jno, f, l, S, s, phys)
  PROVE  \A p \in Place : Later(u, w, S, s, p, At(u.disk, ino, p), At(w.disk, jno, p))
<1> DEFINE X == {p \in Place : Later(u, w, S, s, p, At(u.disk, ino, p), At(w.disk, jno, p))}
<1>0. w \in Volumes /\ Vol(role2, w)
  BY DEF Kept
<1>1. \A p \in Place : /\ At(u.disk, ino, p) \in Int
                       /\ At(u.disk, ino, p) > 0 => At(u.disk, ino, p) \in u.used \ {0} /\ At(u.disk, ino, p) \in Blocks \ {0}
                                                    /\ role[At(u.disk, ino, p)] = <<f, p>>
  <2>1. \A p \in Place : NumberAt(role, u.used, f, p, At(u.disk, ino, p))
    BY AtHolds
  <2>. QED
    BY <2>1 DEF NumberAt
<1>2. \A p \in Place : /\ At(w.disk, jno, p) \in Int
                       /\ At(w.disk, jno, p) > 0 => At(w.disk, jno, p) \in w.used \ {0} /\ At(w.disk, jno, p) \in Blocks \ {0}
                                                    /\ role2[At(w.disk, jno, p)] = <<f, p>>
  <2>1. \A p \in Place : NumberAt(role2, w.used, f, p, At(w.disk, jno, p))
    BY <1>0, AtHolds
  <2>. QED
    BY <2>1 DEF NumberAt
<1>3. \A k \in 0 .. NumDirect - 1 : DirectPlace(k) \in X
  <2>1. SUFFICES ASSUME NEW k \in 0 .. NumDirect - 1
                 PROVE  DirectPlace(k) \in Place /\ Later(u, w, S, s, DirectPlace(k), At(u.disk, ino, DirectPlace(k)), At(w.disk, jno, DirectPlace(k)))
    OBVIOUS
  <2>2. DirectPlace(k) \in Place /\ At(u.disk, ino, DirectPlace(k)) = At(w.disk, jno, DirectPlace(k))
    <3>1. DirectPlace(k) \in Place /\ At(u.disk, ino, DirectPlace(k)) = ino.direct[k]
      BY TopIs
    <3>2. At(w.disk, jno, DirectPlace(k)) = jno.direct[k]
      BY TopIs
    <3>. QED
      BY <3>1, <3>2 DEF Grown
  <2>. QED
    BY <2>2 DEF Later
<1>4. \A j \in 1 .. 3 : RootPlace(j) \in X
  <2>1. SUFFICES ASSUME NEW j \in 1 .. 3
                 PROVE  RootPlace(j) \in Place /\ Later(u, w, S, s, RootPlace(j), At(u.disk, ino, RootPlace(j)), At(w.disk, jno, RootPlace(j)))
    OBVIOUS
  <2>2. RootPlace(j) \in Place /\ At(u.disk, ino, RootPlace(j)) = ino.root[j] /\ At(w.disk, jno, RootPlace(j)) = jno.root[j]
    BY TopIs
  <2>3. CASE j # l
    BY <2>2, <2>3 DEF Grown, Later
  <2>4. CASE j = l
    <3>1. RootPlace(l) \in S /\ jno.root[l] \in Int /\ ino.root[l] \in Int
      BY <2>2, <2>4, <1>1, <1>2 DEF Hangs
    <3>. QED
      BY <2>2, <2>4, <3>1 DEF Grown, Later, Anew
  <2>. QED
    BY <2>3, <2>4
<1>5. ASSUME NEW p \in Place, p \in X, Inner(p), NEW k \in Digit
      PROVE  Under(p, k) \in X
  <2> DEFINE q == Under(p, k)
             G == At(u.disk, ino, p)
             H == At(w.disk, jno, p)
             G2 == At(u.disk, ino, q)
             H2 == At(w.disk, jno, q)
  <2>1. q \in Place
    BY <1>5, UnderIs
  <2>2. G2 = Down(u.disk, G, k) /\ H2 = Down(w.disk, H, k)
    BY <1>5, AtUnder
  <2>3. Later(u, w, S, s, p, G, H) /\ G >= 0 /\ G \in Int /\ H \in Int
    BY <1>1, <1>2, <1>5
  <2>4. G2 \in Int /\ H2 \in Int
    BY <2>1, <1>1, <1>2
  <2>5. G > 0 => G \in u.used \ {0} /\ G \in Blocks \ {0} /\ role[G] = <<f, p>>
    BY <1>1
  <2>6. H > 0 => H \in w.used \ {0} /\ H \in Blocks \ {0} /\ role2[H] = <<f, p>>
    BY <1>2
  <2> HIDE DEF q, G, H, G2, H2
  <2>7. CASE G > 0
    <3>1. H = G /\ G \in u.used \ {0} /\ role[G][2] = p
      BY <2>3, <2>5, <2>7 DEF Later
    <3>2. G2 = u.disk[G][k] /\ H2 = w.disk[G][k]
      BY <2>2, <2>5, <2>7, <3>1 DEF Down
    <3>3. H2 = G2 \/ (G2 = 0 /\ q \in S /\ Anew(u, w, s, q, H2))
      BY <3>1, <3>2, <1>5 DEF Grown, Local, OldKept, q
    <3>. QED
      BY <2>1, <2>4, <3>3 DEF Later, Anew, X, q, G2, H2
  <2>8. CASE G = 0
    <3>1. G2 = 0
      BY <2>2, <2>8 DEF Down
    <3>2. CASE H = 0
      <4>1. H2 = 0
        BY <3>2, <2>2 DEF Down
      <4>. QED
        BY <2>1, <3>1, <4>1 DEF Later, X, q, G2, H2
    <3>3. CASE H < 0
      <4>1. H \notin Blocks \ {0}
        BY <3>3, <2>3, BlocksAre
      <4>2. H2 = H /\ w.used = Blocks
        BY <4>1, <3>3, <2>2, <2>3, <2>8 DEF Down, Later
      <4>. QED
        BY <2>1, <3>1, <3>3, <4>2 DEF Later, X, q, G2, H2
    <3>4. CASE H > 0
      <4>1. p \in S /\ H \notin u.used
        BY <3>4, <2>3, <2>8, <1>5 DEF Later
      <4>2. H \in w.used \ u.used /\ role2[H][2] = p /\ H2 = w.disk[H][k]
        BY <3>4, <4>1, <2>2, <2>6 DEF Down
      <4>3. H2 = 0 \/ (q \in S /\ Anew(u, w, s, q, H2))
        BY <4>2 DEF Grown, Local, NewOnWay, q
      <4>. QED
        BY <2>1, <2>4, <3>1, <4>3 DEF Later, Anew, X, q, G2, H2
    <3>. QED
      BY <2>3, <3>2, <3>3, <3>4
  <2>. QED
    BY <2>3, <2>7, <2>8
<1> HIDE DEF X
<1>6. Place \subseteq X
  BY <1>3, <1>4, <1>5, PlacesTop
<1>. QED
  BY <1>6 DEF X

(* The trail is what is found on the way. *)
LEMMA GrownTrail ==
  ASSUME NEW role2, NEW w \in Volumes, Vol(role2, w), NEW f, NEW jno,
         NEW u, NEW l \in 1 .. 3, NEW S, Hangs(S, l), NEW s, NEW phys,
         NEW val, Trail(u, role2, w, f, S, s, phys, val), val[RootPlace(l)] = jno.root[l]
  PROVE  \A q \in Place : q \in S => At(w.disk, jno, q) = val[q]
<1> DEFINE X == {q \in Place : q \in S => At(w.disk, jno, q) = val[q]}
<1>0. w.used \in SUBSET Blocks
  BY DEF Volumes
<1>1. \A k \in 0 .. NumDirect - 1 : DirectPlace(k) \in X
  BY TopIs DEF Hangs
<1>2. \A j \in 1 .. 3 : RootPlace(j) \in X
  BY TopIs DEF Hangs
<1>3. ASSUME NEW p \in Place, p \in X, Inner(p), NEW k \in Digit
      PROVE  Under(p, k) \in X
  <2>1. Under(p, k) \in Place
    BY <1>3, UnderIs
  <2>2. SUFFICES ASSUME Under(p, k) \in S PROVE At(w.disk, jno, Under(p, k)) = val[Under(p, k)]
    BY <2>1
  <2>3. p \in S
    BY <1>3, <2>2 DEF Hangs
  <2>4. At(w.disk, jno, Under(p, k)) = Down(w.disk, val[p], k)
    BY <2>3, <1>3, AtUnder
  <2>5. val[p] # 0 /\ Holds(role2, w.used, f, p, val[p]) /\ val[p] \in Int
    BY <2>3 DEF Trail, TrailEntry
  <2>6. IF val[p] < 0 THEN val[Under(p, k)] = val[p] ELSE w.disk[val[p]][k] = val[Under(p, k)]
    BY <2>2, <2>3, <1>3 DEF Trail, TrailLink
  <2>7. CASE val[p] < 0
    <3>1. val[p] \notin Blocks \ {0}
      BY <2>5, <2>7, BlocksAre
    <3>. QED
      BY <3>1, <2>4, <2>6, <2>7 DEF Down
  <2>8. CASE val[p] > 0
    <3>1. val[p] \in Blocks \ {0}
      BY <2>5, <2>8, <1>0 DEF Holds
    <3>. QED
      BY <3>1, <2>4, <2>6, <2>8, <2>5 DEF Down
  <2>. QED
    BY <2>5, <2>7, <2>8
<1> HIDE DEF X
<1>4. Place \subseteq X
  BY <1>1, <1>2, <1>3, PlacesTop
<1>. QED
  BY <1>4 DEF X

(* An error code at the root is found at the end of the way. *)
LEMMA TrailNegative ==
  ASSUME NEW u, NEW role2, NEW w, NEW f, NEW l \in 1 .. 3, NEW S, Hangs(S, l), NEW s \in S, s \in Place, NEW phys,
         NEW val, Trail(u, role2, w, f, S, s, phys, val), val[RootPlace(l)] < 0
  PROVE  val[s] < 0
<1> DEFINE X == {q \in Place : q \in S => val[q] < 0}
<1>1. \A k \in 0 .. NumDirect - 1 : DirectPlace(k) \in X
  BY DirectIs DEF Hangs
<1>2. \A j \in 1 .. 3 : RootPlace(j) \in X
  BY TopIs DEF Hangs
<1>3. ASSUME NEW p \in Place, p \in X, Inner(p), NEW k \in Digit
      PROVE  Under(p, k) \in X
  <2>1. Under(p, k) \in Place
    BY <1>3, UnderIs
  <2>2. SUFFICES ASSUME Under(p, k) \in S PROVE val[Under(p, k)] < 0
    BY <2>1
  <2>3. p \in S
    BY <1>3, <2>2 DEF Hangs
  <2>4. IF val[p] < 0 THEN val[Under(p, k)] = val[p] ELSE w.disk[val[p]][k] = val[Under(p, k)]
    BY <2>2, <2>3, <1>3 DEF Trail, TrailLink
  <2>. QED
    BY <2>3, <2>4, <1>3
<1> HIDE DEF X
<1>4. Place \subseteq X
  BY <1>1, <1>2, <1>3, PlacesTop
<1>. QED
  BY <1>4 DEF X

(* Nothing on the way to file block i is an error code, and it is free. *)
Fine(v, ino, i) ==
  i < Starts[4] /\ (\A p \in Place : At(v.disk, ino, p) >= 0) /\ At(v.disk, ino, Spot(i)) = 0

(* What is named stays so; a data block that is not there is still not     *)
(* there, but for the one at s.                                            *)
AtKept(dk, ino, dk2, jno) == \A p \in Place : At(dk, ino, p) > 0 => At(dk2, jno, p) = At(dk, ino, p)
AtFree(dk, ino, dk2, jno, s) ==
  \A p \in Place : ~Inner(p) /\ p # s /\ At(dk, ino, p) = 0 => At(dk2, jno, p) <= 0
NoneLost(v, role2, w, jno, f) ==
  \A c \in w.used \ v.used : w.used = Blocks \/ (role2[c][1] = f /\ Names(w.disk, jno, c))
Added(v, ino, role2, w, jno, ret, f, s, phys) ==
  /\ AtKept(v.disk, ino, w.disk, jno)
  /\ AtFree(v.disk, ino, w.disk, jno, s)
  /\ FullIfNeg(w.used, w.disk, jno)
  /\ At(w.disk, jno, s) = phys \/ At(w.disk, jno, s) < 0
  /\ ret = 0 \/ (ret < 0 /\ w.used = Blocks /\ At(w.disk, jno, s) < 0)
  /\ NoneLost(v, role2, w, jno, f)
PhysSet(role, v, ino, r, f, i, phys) ==
  \E role2 : /\ Kept(role, v, role2, r.vol, f)
             /\ InodeOK(role2, r.vol.used, f, r.inode)
             /\ r.inode.size = ino.size
             /\ r.ret \in {0, -1, -2}
             /\ Fine(v, ino, i) => Added(v, ino, role2, r.vol, r.inode, r.ret, f, Spot(i), phys)

(* Both maps in order, whatever the file has been through *)
LEMMA InodeStays ==
  ASSUME NEW role, NEW v, NEW role2, NEW w, NEW g, Kept(role, v, role2, w, g),
         NEW f, NEW ino, InodeOK(role, v.used, f, ino)
  PROVE  InodeOK(role2, w.used, f, ino)
<1>1. ASSUME NEW p, NEW b, Holds(role, v.used, f, p, b) PROVE Holds(role2, w.used, f, p, b)
  BY <1>1, KeptHolds
<1>. QED
  BY <1>1 DEF InodeOK

(* An inode with one pointer more. *)
LEMMA InodeRooted ==
  ASSUME NEW role, NEW us \in SUBSET Blocks, NEW f, NEW ino, InodeOK(role, us, f, ino), NEW l \in 1 .. 3,
         NEW x, Holds(role, us, f, RootPlace(l), x)
  PROVE  /\ InodeOK(role, us, f, [ino EXCEPT !.root[l] = x])
         /\ [ino EXCEPT !.root[l] = x].size = ino.size
         /\ [ino EXCEPT !.root[l] = x].direct = ino.direct
         /\ [ino EXCEPT !.root[l] = x].root[l] = x
         /\ \A j \in 1 .. 3 : j # l => [ino EXCEPT !.root[l] = x].root[j] = ino.root[j]
<1> DEFINE jno == [ino EXCEPT !.root[l] = x]
<1>1. ino \in Inode /\ x \in Numbers
  BY HoldsNumber DEF InodeOK
<1>2. jno.size = ino.size /\ jno.direct = ino.direct /\ jno.root = [ino.root EXCEPT ![l] = x] /\ ino.root \in [1 .. 3 -> Numbers]
  BY <1>1 DEF Inode
<1>3. jno.root[l] = x /\ (\A j \in 1 .. 3 : j # l => jno.root[j] = ino.root[j]) /\ jno.root \in [1 .. 3 -> Numbers]
  BY <1>1, <1>2
<1>4. jno \in Inode
  BY <1>1, <1>2, <1>3 DEF Inode
<1> HIDE DEF jno
<1>5. \A j \in 1 .. 3 : Holds(role, us, f, <<j, 0, 0, 0, 0>>, jno.root[j])
  BY <1>3 DEF InodeOK, RootPlace
<1>6. InodeOK(role, us, f, jno)
  BY <1>2, <1>4, <1>5 DEF InodeOK
<1>. QED
  BY <1>2, <1>3, <1>6 DEF jno

(* The place of a file block has none under it. *)
LEMMA SpotPlace ==
  ASSUME NEW i \in Nat, i < Starts[4]
  PROVE  Spot(i) \in Place /\ ~Inner(Spot(i))
  BY SpotIs

(* The whole way from the root of level l to the place s *)
WayTo(S, l, s) == Hangs(S, l) /\ S \subseteq Place /\ \A q \in S : ~Inner(q) => q = s

Outcomes(role, u, b, n, f, p, S, s, phys, clear) == \E role2 : Outcome(role, u, b, role2, n, f, p, S, s, phys, clear)

(* What the recursion returns becomes the root of the tree of level l. *)
LEMMA RootedSet ==
  ASSUME NEW role, NEW u \in Volumes, Vol(role, u), NEW f \in Files, NEW ino, InodeOK(role, u.used, f, ino),
         NEW i \in Nat, NEW phys, NEW l \in 1 .. 3, NEW S, WayTo(S, l, Spot(i)),
         NEW clear, Fine(u, ino, i) => clear, NEW n,
         Outcomes(role, u, ino.root[l], n, f, RootPlace(l), S, Spot(i), phys, clear)
  PROVE  PhysSet(role, u, ino, Rooted(ino, l, n), f, i, phys)
<1> DEFINE s == Spot(i)
           jno == [ino EXCEPT !.root[l] = n.ret]
           r == Rooted(ino, l, n)
           w == n.vol
<1>0. Hangs(S, l) /\ S \subseteq Place
  BY DEF WayTo
<1>1. PICK role2 : Outcome(role, u, ino.root[l], role2, n, f, RootPlace(l), S, s, phys, clear)
  BY DEF Outcomes
<1>2. Kept(role, u, role2, w, f) /\ Holds(role2, w.used, f, RootPlace(l), n.ret)
  BY <1>1 DEF Outcome, Nested
<1>3. w \in Volumes /\ Vol(role2, w)
  BY <1>2 DEF Kept
<1>4. w.used \in SUBSET Blocks
  BY <1>3 DEF Volumes
<1>5. InodeOK(role2, w.used, f, ino)
  BY <1>2, InodeStays
<1>6. /\ InodeOK(role2, w.used, f, jno) /\ jno.size = ino.size /\ jno.direct = ino.direct /\ jno.root[l] = n.ret
      /\ \A j \in 1 .. 3 : j # l => jno.root[j] = ino.root[j]
  BY <1>2, <1>4, <1>5, InodeRooted
<1>7. r.vol = w /\ r.inode = jno /\ r.ret = IF n.ret < 0 THEN n.ret ELSE 0
  BY DEF Rooted, Result
<1>8. n.ret \in Int /\ n.ret \in Numbers
  BY <1>2, <1>4, HoldsNumber
<1>9. r.ret \in {0, -1, -2}
  BY <1>7, <1>8, BlocksAre DEF Numbers
<1> HIDE DEF jno, r, w
<1>10. ASSUME Fine(u, ino, i)
       PROVE  Added(u, ino, role2, w, jno, r.ret, f, s, phys)
  <2>1. Grown(role, u, ino, role2, w, jno, f, l, S, s, phys)
    BY <1>1, <1>6, <1>10 DEF Outcome, Grown, w
  <2>2. s \in Place /\ ~Inner(s)
    BY <1>10, SpotPlace DEF Fine
  <2> HIDE DEF s
  <2>3. \A p \in Place : Later(u, w, S, s, p, At(u.disk, ino, p), At(w.disk, jno, p))
    BY <2>1, <2>2, <1>0, <1>2, <1>6, <1>10, GrownLater DEF Fine
  <2>4. PICK val : Trail(u, role2, w, f, S, s, phys, val) /\ val[RootPlace(l)] = jno.root[l]
    BY <2>1 DEF Grown, Trails
  <2>5. \A q \in Place : q \in S => At(w.disk, jno, q) = val[q]
    BY <2>4, <1>0, <1>3, GrownTrail
  <2>6. \A p \in Place : At(w.disk, jno, p) \in Int /\ At(u.disk, ino, p) \in Int /\ At(u.disk, ino, p) >= 0
    <3>1. \A p \in Place : NumberAt(role2, w.used, f, p, At(w.disk, jno, p))
      BY <1>3, <1>6, AtHolds
    <3>2. \A p \in Place : NumberAt(role, u.used, f, p, At(u.disk, ino, p))
      BY AtHolds
    <3>. QED
      BY <3>1, <3>2, <1>10 DEF NumberAt, Fine
  <2>7. AtKept(u.disk, ino, w.disk, jno)
    BY <2>3 DEF AtKept, Later
  <2>8. s \in S /\ (At(w.disk, jno, s) = phys \/ At(w.disk, jno, s) < 0)
    BY <2>2, <2>4, <2>5 DEF Trail
  <2>9. \A q \in S : ~Inner(q) => q = s
    BY DEF WayTo, s
  <2>10. AtFree(u.disk, ino, w.disk, jno, s)
    BY <2>3, <2>6, <2>9 DEF AtFree, Later
  <2>11. FullIfNeg(w.used, w.disk, jno)
    BY <2>3, <2>6 DEF FullIfNeg, Later
  <2>12. r.ret = 0 \/ (r.ret < 0 /\ w.used = Blocks /\ At(w.disk, jno, s) < 0)
    <3>1. RootPlace(l) \in S
      BY <1>0 DEF Hangs
    <3>2. n.ret < 0 => w.used = Blocks
      BY <3>1, <2>4, <1>6 DEF Trail, TrailEntry
    <3>3. n.ret < 0 => val[s] < 0
      BY <2>2, <2>4, <2>8, <1>0, <1>6, TrailNegative
    <3>4. At(w.disk, jno, s) = val[s]
      BY <2>2, <2>5, <2>8
    <3>. QED
      BY <3>2, <3>3, <3>4, <1>7, <1>8
  <2>13. NoneLost(u, role2, w, jno, f)
    <3>1. SUFFICES ASSUME NEW c \in w.used \ u.used, w.used # Blocks
                   PROVE  role2[c][1] = f /\ Names(w.disk, jno, c)
      BY DEF NoneLost
    <3>2. PICK q \in S : val[q] = c
      BY <3>1, <2>4 DEF Trail
    <3>3. c \in Blocks \ {0}
      <4>1. 0 \in u.used
        BY DEF Vol
      <4>. QED
        BY <4>1, <1>4
    <3>4. c \notin {0, -1, -2}
      BY <3>3, BlocksAre
    <3>5. Holds(role2, w.used, f, q, c)
      BY <3>2, <2>4 DEF Trail, TrailEntry
    <3>6. role2[c] = <<f, q>>
      BY <3>4, <3>5 DEF Holds
    <3>7. q \in Place /\ At(w.disk, jno, q) = c
      BY <3>2, <2>5, <1>0
    <3>. QED
      BY <3>6, <3>7 DEF Names
  <2>. QED
    BY <2>7, <2>8, <2>10, <2>11, <2>12, <2>13 DEF Added
<1>11. Kept(role, u, role2, r.vol, f) /\ InodeOK(role2, r.vol.used, f, r.inode) /\ r.inode.size = ino.size
  BY <1>2, <1>6, <1>7
<1>12. Fine(u, ino, i) => Added(u, ino, role2, r.vol, r.inode, r.ret, f, Spot(i), phys)
  BY <1>7, <1>10
<1>13. PhysSet(role, u, ino, r, f, i, phys)
  BY <1>9, <1>11, <1>12 DEF PhysSet
<1>. QED
  BY <1>13 DEF r

(* The ways of the three levels *)
LEMMA RootUnder ==
  ASSUME NEW l \in 1 .. 3
  PROVE  /\ RootPlace(l) \in Place /\ Inner(RootPlace(l))
         /\ \A a \in Digit : Under(RootPlace(l), a) = <<l, 1, a, 0, 0>>
         /\ \A a, b \in Digit : Under(Under(RootPlace(l), a), b) = <<l, 2, a, b, 0>>
         /\ \A a, b, c \in Digit : Under(Under(Under(RootPlace(l), a), b), c) = <<l, 3, a, b, c>>
<1>1. RootPlace(l) \in Place /\ Inner(RootPlace(l))
  BY DEF RootPlace, Place, Inner
<1>2. \A a \in Digit : Under(RootPlace(l), a) = <<l, 1, a, 0, 0>>
  BY DEF RootPlace, Under
<1>3. \A a, b \in Digit : Under(Under(RootPlace(l), a), b) = <<l, 2, a, b, 0>>
  <2>1. SUFFICES ASSUME NEW a \in Digit, NEW b \in Digit PROVE Under(<<l, 1, a, 0, 0>>, b) = <<l, 2, a, b, 0>>
    BY <1>2
  <2>. QED
    BY DEF Under
<1>4. \A a, b, c \in Digit : Under(Under(Under(RootPlace(l), a), b), c) = <<l, 3, a, b, c>>
  <2>1. SUFFICES ASSUME NEW a \in Digit, NEW b \in Digit, NEW c \in Digit PROVE Under(<<l, 2, a, b, 0>>, c) = <<l, 3, a, b, c>>
    BY <1>3
  <2>. QED
    BY DEF Under
<1>. QED
  BY <1>1, <1>2, <1>3, <1>4

(* No place of the inode is under another. *)
LEMMA Depth0 ==
  ASSUME NEW q \in Place, Inner(q), NEW k \in Digit
  PROVE  /\ \A l \in 1 .. 3 : Under(q, k) # RootPlace(l)
         /\ \A j \in 0 .. NumDirect - 1 : Under(q, k) # DirectPlace(j)
<1>1. Under(q, k)[2] \in 1 .. 3
  BY UnderIs
<1>2. \A l \in 1 .. 3 : RootPlace(l)[2] = 0
  BY DEF RootPlace
<1>3. \A j \in 0 .. NumDirect - 1 : DirectPlace(j)[2] = 0
  BY DEF DirectPlace
<1>. QED
  BY <1>1, <1>2, <1>3

(* The way to a file block of the first level. *)
LEMMA Way1To ==
  ASSUME NEW k \in Digit
  PROVE  WayTo(Way1(RootPlace(1), k), 1, Under(RootPlace(1), k))
<1> DEFINE p == RootPlace(1)
           s == Under(p, k)
           S == Way1(p, k)
<1>1. p \in Place /\ Inner(p) /\ s = <<1, 1, k, 0, 0>> /\ p = <<1, 0, 0, 0, 0>>
  BY RootUnder DEF RootPlace
<1>2. s \in Place
  BY <1>1, UnderIs
<1>3. S = {<<1, 0, 0, 0, 0>>, <<1, 1, k, 0, 0>>}
  BY <1>1 DEF Way1
<1>4. \A j \in 0 .. NumDirect - 1 : DirectPlace(j) \notin S
  BY <1>3 DEF DirectPlace
<1>5. \A j \in 1 .. 3 : RootPlace(j) \in S => j = 1
  BY <1>3 DEF RootPlace
<1>6. \A q \in Place : Inner(q) => \A j \in Digit : Under(q, j) \in S => q \in S
  BY <1>1, UnderTells, Depth0 DEF Way1
<1>7. \A q \in S : ~Inner(q) => q = s
  BY <1>1 DEF Way1
<1>. QED
  BY <1>1, <1>2, <1>4, <1>5, <1>6, <1>7 DEF WayTo, Hangs, Way1

(* The way to one of the second. *)
LEMMA Way2To ==
  ASSUME NEW k1 \in Digit, NEW k2 \in Digit
  PROVE  WayTo(Way2(RootPlace(2), k1, k2), 2, Under(Under(RootPlace(2), k1), k2))
<1> DEFINE p == RootPlace(2)
           p1 == Under(p, k1)
           s == Under(p1, k2)
           S == Way2(p, k1, k2)
<1>1. p \in Place /\ Inner(p) /\ p = <<2, 0, 0, 0, 0>> /\ p1 = <<2, 1, k1, 0, 0>> /\ s = <<2, 2, k1, k2, 0>>
  BY RootUnder DEF RootPlace
<1>2. p1 \in Place /\ Inner(p1)
  BY <1>1, UnderIs DEF Inner
<1>8. s \in Place
  BY <1>2, UnderIs
<1>3. S = {<<2, 0, 0, 0, 0>>, <<2, 1, k1, 0, 0>>, <<2, 2, k1, k2, 0>>} /\ S = {p, p1, s}
  BY <1>1 DEF Way1, Way2
<1>4. \A j \in 0 .. NumDirect - 1 : DirectPlace(j) \notin S
  BY <1>3 DEF DirectPlace
<1>5. \A j \in 1 .. 3 : RootPlace(j) \in S => j = 2
  BY <1>3 DEF RootPlace
<1>6. \A q \in Place : Inner(q) => \A j \in Digit : Under(q, j) \in S => q \in S
  <2>1. SUFFICES ASSUME NEW q \in Place, Inner(q), NEW j \in Digit, Under(q, j) \in S PROVE q \in S
    OBVIOUS
  <2>2. CASE Under(q, j) = p
    BY <2>1, <2>2, Depth0
  <2>3. CASE Under(q, j) = p1
    BY <2>1, <2>3, <1>1, <1>3, UnderTells
  <2>4. CASE Under(q, j) = s
    BY <2>1, <2>4, <1>2, <1>3, UnderTells
  <2>. QED
    BY <2>1, <2>2, <2>3, <2>4, <1>3
<1>7. \A q \in S : ~Inner(q) => q = s
  BY <1>1, <1>2, <1>3
<1> HIDE DEF S
<1>. QED
  BY <1>1, <1>2, <1>3, <1>4, <1>5, <1>6, <1>7, <1>8 DEF WayTo, Hangs, S

(* The way to one of the third. *)
LEMMA Way3To ==
  ASSUME NEW k1 \in Digit, NEW k2 \in Digit, NEW k3 \in Digit
  PROVE  WayTo(Way3(RootPlace(3), k1, k2, k3), 3, Under(Under(Under(RootPlace(3), k1), k2), k3))
<1> DEFINE p == RootPlace(3)
           p1 == Under(p, k1)
           p2 == Under(p1, k2)
           s == Under(p2, k3)
           S == Way3(p, k1, k2, k3)
<1>1. p \in Place /\ Inner(p) /\ p = <<3, 0, 0, 0, 0>> /\ p1 = <<3, 1, k1, 0, 0>> /\ p2 = <<3, 2, k1, k2, 0>> /\ s = <<3, 3, k1, k2, k3>>
  BY RootUnder DEF RootPlace
<1>2. p1 \in Place /\ Inner(p1)
  BY <1>1, UnderIs DEF Inner
<1>8. p2 \in Place /\ Inner(p2)
  BY <1>1, <1>2, UnderIs DEF Inner
<1>9. s \in Place
  BY <1>8, UnderIs
<1>3. S = {<<3, 0, 0, 0, 0>>, <<3, 1, k1, 0, 0>>, <<3, 2, k1, k2, 0>>, <<3, 3, k1, k2, k3>>} /\ S = {p, p1, p2, s}
  BY <1>1 DEF Way1, Way2, Way3
<1>4. \A j \in 0 .. NumDirect - 1 : DirectPlace(j) \notin S
  BY <1>3 DEF DirectPlace
<1>5. \A j \in 1 .. 3 : RootPlace(j) \in S => j = 3
  BY <1>3 DEF RootPlace
<1>6. \A q \in Place : Inner(q) => \A j \in Digit : Under(q, j) \in S => q \in S
  <2>1. SUFFICES ASSUME NEW q \in Place, Inner(q), NEW j \in Digit, Under(q, j) \in S PROVE q \in S
    OBVIOUS
  <2>2. CASE Under(q, j) = p
    BY <2>1, <2>2, Depth0
  <2>3. CASE Under(q, j) = p1
    BY <2>1, <2>3, <1>1, <1>3, UnderTells
  <2>4. CASE Under(q, j) = p2
    BY <2>1, <2>4, <1>2, <1>3, UnderTells
  <2>5. CASE Under(q, j) = s
    BY <2>1, <2>5, <1>8, <1>3, UnderTells
  <2>. QED
    BY <2>1, <2>2, <2>3, <2>4, <2>5, <1>3
<1>7. \A q \in S : ~Inner(q) => q = s
  BY <1>1, <1>2, <1>3, <1>8
<1> HIDE DEF S
<1>. QED
  BY <1>1, <1>2, <1>3, <1>4, <1>5, <1>6, <1>7, <1>8, <1>9 DEF WayTo, Hangs, S

(* A place that has no number can be filled. *)
LEMMA Clears ==
  ASSUME NEW dk, NEW b \in Nat, b > 0 => b \in Blocks \ {0}
  PROVE  /\ \A k \in Digit : Down(dk, b, k) = 0 => ClearLast(dk, b, k)
         /\ b > 0 => \A k \in Digit : Down(dk, b, k) = dk[b][k]
  BY DEF ClearLast, Down

(* sfs_set_phys keeps the volume and the map in order; if the way was      *)
(* fine, it adds the block or the volume is full.                          *)
LEMMA SetLevel1 ==
  ASSUME NEW role, NEW u \in Volumes, Vol(role, u), NEW f \in Files, NEW ino, InodeOK(role, u.used, f, ino),
         NEW i \in Nat, Level(i) = 1, NEW phys, Holds(role, u.used, f, Spot(i), phys), phys \notin {0, -1, -2}
  PROVE  PhysSet(role, u, ino, SetPhys(u, ino, i, phys), f, i, phys)
<1> DEFINE p == RootPlace(1)
           b == ino.root[1]
           k == Index(i)[1]
           n == SetLast(Entered(u, b), k, phys)
           clear == ClearLast(u.disk, b, k)
<1>1. Index(i) = <<k>> /\ k \in Digit
  BY IndexIs
<1>2. p \in Place /\ Inner(p) /\ Under(p, k) = <<1, 1, k, 0, 0>>
  BY <1>1, RootUnder
<1>3. Spot(i) = Under(p, k)
  BY <1>2 DEF Spot
<1>4. Holds(role, u.used, f, p, b)
  BY DEF InodeOK, RootPlace
<1>5. SetPhys(u, ino, i, phys) = Rooted(ino, 1, n)
  <2>1. SetPhys(u, ino, i, phys) = Rooted(ino, 1, SetPath(Entered(u, b), Index(i), phys))
    BY DEF SetPhys
  <2>2. Len(Index(i)) = 1
    BY <1>1
  <2>3. SetPath(Entered(u, b), Index(i), phys) = n
    BY <2>2 DEF SetPath
  <2>. QED
    BY <2>1, <2>3
<1> HIDE DEF k, b, n, p
<1>6. \E role2 : Outcome(role, u, b, role2, n, f, p, Way1(p, k), Spot(i), phys, clear)
  <2>1. \E role2 : Outcome(role, u, b, role2, SetLast(Entered(u, b), k, phys), f, p, {p, Under(p, k)}, Under(p, k), phys, ClearLast(u.disk, b, k))
    BY <1>1, <1>2, <1>3, <1>4, LastOutcome
  <2>. QED
    BY <2>1, <1>3 DEF n, Way1
<1>7. WayTo(Way1(p, k), 1, Spot(i))
  BY <1>1, <1>3, Way1To DEF p
<1>8. Fine(u, ino, i) => clear
  <2>1. SUFFICES ASSUME Fine(u, ino, i) PROVE clear
    OBVIOUS
  <2>2. At(u.disk, ino, p) = b
    BY TopIs DEF p, b
  <2>3. NumberAt(role, u.used, f, p, At(u.disk, ino, p))
    BY <1>2, AtHolds
  <2>4. b \in Nat /\ (b > 0 => b \in Blocks \ {0})
    BY <2>1, <2>2, <2>3, <1>2 DEF Fine, NumberAt
  <2>5. Down(u.disk, b, k) = 0
    BY <2>1, <2>2, <1>1, <1>2, <1>3, AtUnder DEF Fine
  <2>. QED
    BY <2>4, <2>5, <1>1, Clears
<1>9. PhysSet(role, u, ino, Rooted(ino, 1, n), f, i, phys)
  <2> DEFINE S == Way1(p, k)
  <2>1. Outcomes(role, u, ino.root[1], n, f, RootPlace(1), S, Spot(i), phys, clear)
    BY <1>6 DEF p, b, Outcomes
  <2> HIDE DEF S, clear
  <2>2. WayTo(S, 1, Spot(i))
    BY <1>7 DEF S
  <2> DEFINE l == 1
  <2>3. l \in 1 .. 3 /\ Outcomes(role, u, ino.root[l], n, f, RootPlace(l), S, Spot(i), phys, clear) /\ WayTo(S, l, Spot(i))
    BY <2>1, <2>2
  <2> HIDE DEF l
  <2>4. PhysSet(role, u, ino, Rooted(ino, l, n), f, i, phys)
    BY <2>3, <1>8, RootedSet
  <2>. QED
    BY <2>4 DEF l
<1>. QED
  BY <1>5, <1>9

(* SetPhys through two levels of pointers. *)
LEMMA SetLevel2 ==
  ASSUME NEW role, NEW u \in Volumes, Vol(role, u), NEW f \in Files, NEW ino, InodeOK(role, u.used, f, ino),
         NEW i \in Nat, Level(i) = 2, NEW phys, Holds(role, u.used, f, Spot(i), phys), phys \notin {0, -1, -2}
  PROVE  PhysSet(role, u, ino, SetPhys(u, ino, i, phys), f, i, phys)
<1> DEFINE p == RootPlace(2)
           b == ino.root[2]
           path == Index(i)
           k1 == Index(i)[1]
           k2 == Index(i)[2]
           n == SetSecond(Entered(u, b), path, phys)
           clear == ClearSecond(u.disk, b, k1, k2)
<1>1. path = <<k1, k2>> /\ k1 \in Digit /\ k2 \in Digit
  BY IndexIs
<1>2. /\ p \in Place /\ Inner(p) /\ Under(p, k1) = <<2, 1, k1, 0, 0>>
      /\ Under(Under(p, k1), k2) = <<2, 2, k1, k2, 0>>
  BY <1>1, RootUnder
<1>3. Spot(i) = Under(Under(p, k1), k2)
  BY <1>2 DEF Spot
<1>10. Under(p, k1) \in Place /\ Inner(Under(p, k1))
  BY <1>1, <1>2, UnderIs DEF Inner
<1>4. Holds(role, u.used, f, p, b)
  BY DEF InodeOK, RootPlace
<1>5. SetPhys(u, ino, i, phys) = Rooted(ino, 2, n)
  <2>1. SetPhys(u, ino, i, phys) = Rooted(ino, 2, SetPath(Entered(u, b), path, phys))
    BY DEF SetPhys
  <2>2. Len(path) = 2
    BY <1>1
  <2>3. SetPath(Entered(u, b), path, phys) = n
    BY <2>2 DEF SetPath
  <2>. QED
    BY <2>1, <2>3
<1>11. path[1] = k1 /\ path[2] = k2
  OBVIOUS
<1> HIDE DEF k1, k2, b, n, p, path
<1>6. \E role2 : Outcome(role, u, b, role2, n, f, p, Way2(p, k1, k2), Spot(i), phys, clear)
  <2>1. \E role2 : Outcome(role, u, b, role2, SetSecond(Entered(u, b), path, phys), f, p, Way2(p, k1, k2),
                            Under(Under(p, k1), k2), phys, ClearSecond(u.disk, b, k1, k2))
    BY <1>1, <1>2, <1>3, <1>4, <1>10, <1>11, SecondOutcome
  <2>. QED
    BY <2>1, <1>3 DEF n
<1>7. WayTo(Way2(p, k1, k2), 2, Spot(i))
  BY <1>1, <1>3, Way2To DEF p
<1>8. Fine(u, ino, i) => clear
  <2>1. SUFFICES ASSUME Fine(u, ino, i) PROVE clear
    OBVIOUS
  <2>2. At(u.disk, ino, p) = b
    BY TopIs DEF p, b
  <2>3. NumberAt(role, u.used, f, p, At(u.disk, ino, p)) /\ NumberAt(role, u.used, f, Under(p, k1), At(u.disk, ino, Under(p, k1)))
    BY <1>2, <1>10, AtHolds
  <2>4. b \in Nat /\ (b > 0 => b \in Blocks \ {0})
    BY <2>1, <2>2, <2>3, <1>2 DEF Fine, NumberAt
  <2> DEFINE c == Down(u.disk, b, k1)
  <2>5. At(u.disk, ino, Under(p, k1)) = c
    BY <2>2, <1>1, <1>2, AtUnder
  <2>6. c \in Nat /\ (c > 0 => c \in Blocks \ {0})
    BY <2>1, <2>3, <2>5, <1>10 DEF Fine, NumberAt
  <2>7. Down(u.disk, c, k2) = 0
    BY <2>1, <2>5, <1>1, <1>3, <1>10, AtUnder DEF Fine
  <2>8. ClearLast(u.disk, c, k2)
    BY <2>6, <2>7, <1>1, Clears
  <2>9. b > 0 => c = u.disk[b][k1]
    BY <2>4, <1>1, Clears
  <2> HIDE DEF c
  <2>. QED
    BY <2>4, <2>8, <2>9 DEF ClearSecond
<1>9. PhysSet(role, u, ino, Rooted(ino, 2, n), f, i, phys)
  <2> DEFINE S == Way2(p, k1, k2)
  <2>1. Outcomes(role, u, ino.root[2], n, f, RootPlace(2), S, Spot(i), phys, clear)
    BY <1>6 DEF p, b, Outcomes
  <2> HIDE DEF S, clear
  <2>2. WayTo(S, 2, Spot(i))
    BY <1>7 DEF S
  <2> DEFINE l == 2
  <2>3. l \in 1 .. 3 /\ Outcomes(role, u, ino.root[l], n, f, RootPlace(l), S, Spot(i), phys, clear) /\ WayTo(S, l, Spot(i))
    BY <2>1, <2>2
  <2> HIDE DEF l
  <2>4. PhysSet(role, u, ino, Rooted(ino, l, n), f, i, phys)
    BY <2>3, <1>8, RootedSet
  <2>. QED
    BY <2>4 DEF l
<1>. QED
  BY <1>5, <1>9

(* SetPhys through three. *)
LEMMA SetLevel3 ==
  ASSUME NEW role, NEW u \in Volumes, Vol(role, u), NEW f \in Files, NEW ino, InodeOK(role, u.used, f, ino),
         NEW i \in Nat, Level(i) = 3, NEW phys, Holds(role, u.used, f, Spot(i), phys), phys \notin {0, -1, -2}
  PROVE  PhysSet(role, u, ino, SetPhys(u, ino, i, phys), f, i, phys)
<1> DEFINE p == RootPlace(3)
           b == ino.root[3]
           path == Index(i)
           k1 == Index(i)[1]
           k2 == Index(i)[2]
           k3 == Index(i)[3]
           n == SetThird(Entered(u, b), path, phys)
           clear == ClearThird(u.disk, b, k1, k2, k3)
<1>1. path = <<k1, k2, k3>> /\ k1 \in Digit /\ k2 \in Digit /\ k3 \in Digit
  BY IndexIs
<1>2. /\ p \in Place /\ Inner(p) /\ Under(p, k1) = <<3, 1, k1, 0, 0>>
      /\ Under(Under(p, k1), k2) = <<3, 2, k1, k2, 0>>
      /\ Under(Under(Under(p, k1), k2), k3) = <<3, 3, k1, k2, k3>>
  BY <1>1, RootUnder
<1>3. Spot(i) = Under(Under(Under(p, k1), k2), k3)
  BY <1>2 DEF Spot
<1>10. Under(p, k1) \in Place /\ Inner(Under(p, k1))
  BY <1>1, <1>2, UnderIs DEF Inner
<1>12. Under(Under(p, k1), k2) \in Place /\ Inner(Under(Under(p, k1), k2))
  BY <1>1, <1>2, <1>10, UnderIs DEF Inner
<1>4. Holds(role, u.used, f, p, b)
  BY DEF InodeOK, RootPlace
<1>5. SetPhys(u, ino, i, phys) = Rooted(ino, 3, n)
  <2>1. SetPhys(u, ino, i, phys) = Rooted(ino, 3, SetPath(Entered(u, b), path, phys))
    BY DEF SetPhys
  <2>2. Len(path) = 3
    BY <1>1
  <2>3. SetPath(Entered(u, b), path, phys) = n
    BY <2>2 DEF SetPath
  <2>. QED
    BY <2>1, <2>3
<1>11. n = SetThird(Entered(u, b), <<k1, k2, k3>>, phys)
  BY <1>1
<1> HIDE DEF k1, k2, k3, b, n, p, path
<1>6. \E role2 : Outcome(role, u, b, role2, n, f, p, Way3(p, k1, k2, k3), Spot(i), phys, clear)
  <2>1. \E role2 : Outcome(role, u, b, role2, SetThird(Entered(u, b), <<k1, k2, k3>>, phys), f, p, Way3(p, k1, k2, k3),
                            Under(Under(Under(p, k1), k2), k3), phys, ClearThird(u.disk, b, k1, k2, k3))
    BY <1>1, <1>2, <1>3, <1>4, <1>10, <1>12, ThirdOutcome
  <2>. QED
    BY <2>1, <1>3, <1>11
<1>7. WayTo(Way3(p, k1, k2, k3), 3, Spot(i))
  BY <1>1, <1>3, Way3To DEF p
<1>8. Fine(u, ino, i) => clear
  <2>1. SUFFICES ASSUME Fine(u, ino, i) PROVE clear
    OBVIOUS
  <2>2. At(u.disk, ino, p) = b
    BY TopIs DEF p, b
  <2>3. /\ NumberAt(role, u.used, f, p, At(u.disk, ino, p)) /\ NumberAt(role, u.used, f, Under(p, k1), At(u.disk, ino, Under(p, k1)))
        /\ NumberAt(role, u.used, f, Under(Under(p, k1), k2), At(u.disk, ino, Under(Under(p, k1), k2)))
    BY <1>2, <1>10, <1>12, AtHolds
  <2>4. b \in Nat /\ (b > 0 => b \in Blocks \ {0})
    BY <2>1, <2>2, <2>3, <1>2 DEF Fine, NumberAt
  <2> DEFINE c == Down(u.disk, b, k1)
             d == Down(u.disk, c, k2)
  <2>5. At(u.disk, ino, Under(p, k1)) = c
    BY <2>2, <1>1, <1>2, AtUnder
  <2>6. c \in Nat /\ (c > 0 => c \in Blocks \ {0})
    BY <2>1, <2>3, <2>5, <1>10 DEF Fine, NumberAt
  <2>10. At(u.disk, ino, Under(Under(p, k1), k2)) = d
    BY <2>5, <1>1, <1>10, AtUnder
  <2>11. d \in Nat /\ (d > 0 => d \in Blocks \ {0})
    BY <2>1, <2>3, <2>10, <1>12 DEF Fine, NumberAt
  <2>7. Down(u.disk, d, k3) = 0
    BY <2>1, <2>10, <1>1, <1>3, <1>12, AtUnder DEF Fine
  <2>8. ClearLast(u.disk, d, k3)
    BY <2>11, <2>7, <1>1, Clears
  <2>9. b > 0 => c = u.disk[b][k1]
    BY <2>4, <1>1, Clears
  <2>12. c > 0 => d = u.disk[c][k2]
    BY <2>6, <1>1, Clears
  <2> HIDE DEF c, d
  <2>13. ClearSecond(u.disk, c, k2, k3)
    BY <2>6, <2>8, <2>12 DEF ClearSecond
  <2>. QED
    BY <2>4, <2>13, <2>9 DEF ClearThird
<1>9. PhysSet(role, u, ino, Rooted(ino, 3, n), f, i, phys)
  <2> DEFINE S == Way3(p, k1, k2, k3)
  <2>1. Outcomes(role, u, ino.root[3], n, f, RootPlace(3), S, Spot(i), phys, clear)
    BY <1>6 DEF p, b, Outcomes
  <2> HIDE DEF S, clear
  <2>2. WayTo(S, 3, Spot(i))
    BY <1>7 DEF S
  <2> DEFINE l == 3
  <2>3. l \in 1 .. 3 /\ Outcomes(role, u, ino.root[l], n, f, RootPlace(l), S, Spot(i), phys, clear) /\ WayTo(S, l, Spot(i))
    BY <2>1, <2>2
  <2> HIDE DEF l
  <2>4. PhysSet(role, u, ino, Rooted(ino, l, n), f, i, phys)
    BY <2>3, <1>8, RootedSet
  <2>. QED
    BY <2>4 DEF l
<1>. QED
  BY <1>5, <1>9

(* A block that the inode names itself *)
LEMMA SetLevel0 ==
  ASSUME NEW role, NEW u \in Volumes, Vol(role, u), NEW f \in Files, NEW ino, InodeOK(role, u.used, f, ino),
         NEW i \in Nat, Level(i) = 0, NEW phys, Holds(role, u.used, f, Spot(i), phys), phys \notin {0, -1, -2}
  PROVE  PhysSet(role, u, ino, SetPhys(u, ino, i, phys), f, i, phys)
<1>1. i \in 0 .. NumDirect - 1
  BY LevelIs, StartsAre
<1>2. Spot(i) = DirectPlace(i) /\ Spot(i) \in Place
  <2>1. Spot(i) = DirectPlace(i)
    BY DEF Spot, DirectPlace
  <2>. QED
    BY <2>1, <1>1, DirectIs
<1>3. At(u.disk, ino, Spot(i)) = ino.direct[i]
  BY <1>1, <1>2, AtDirect
<1>4. Kept(role, u, role, u, f) /\ u.used \in SUBSET Blocks
  BY KeptSelf DEF Volumes
<1>5. CASE ino.direct[i] # 0
  <2> DEFINE r == Result(u, ino, -1, FALSE)
  <2>1. SetPhys(u, ino, i, phys) = r
    <3>1. Level(i) = 0 /\ ino.direct[i] # 0
      BY <1>5
    <3>. QED
      BY <3>1 DEF SetPhys, Result
  <2>2. r.vol = u /\ r.inode = ino /\ r.ret = -1
    BY DEF Result
  <2>3. ~Fine(u, ino, i)
    BY <1>3, <1>5 DEF Fine
  <2> HIDE DEF r
  <2>4. PhysSet(role, u, ino, r, f, i, phys)
    BY <2>2, <2>3, <1>4 DEF PhysSet
  <2>. QED
    BY <2>1, <2>4
<1>6. CASE ino.direct[i] = 0
  <2> DEFINE jno == [ino EXCEPT !.direct[i] = phys]
             r == Result(u, jno, 0, TRUE)
  <2>1. SetPhys(u, ino, i, phys) = r
    BY <1>6 DEF SetPhys
  <2>2. r.vol = u /\ r.inode = jno /\ r.ret = 0
    BY DEF Result
  <2>3. ino \in Inode /\ phys \in Numbers
    BY <1>4, HoldsNumber DEF InodeOK
  <2>4. jno.size = ino.size /\ jno.root = ino.root /\ jno.direct = [ino.direct EXCEPT ![i] = phys] /\ ino.direct \in [0 .. NumDirect - 1 -> Numbers]
    BY <2>3 DEF Inode
  <2>5. /\ jno.direct[i] = phys /\ (\A k \in 0 .. NumDirect - 1 : k # i => jno.direct[k] = ino.direct[k])
        /\ jno.direct \in [0 .. NumDirect - 1 -> Numbers]
    BY <2>3, <2>4, <1>1
  <2>6. jno \in Inode
    BY <2>3, <2>4, <2>5 DEF Inode
  <2> HIDE DEF r, jno
  <2>7. \A k \in 0 .. NumDirect - 1 : Holds(role, u.used, f, <<0, 0, k, 0, 0>>, jno.direct[k])
    BY <2>5, <1>2 DEF InodeOK, DirectPlace
  <2>8. InodeOK(role, u.used, f, jno)
    BY <2>4, <2>6, <2>7 DEF InodeOK
  <2>9. \A p \in Place : p # Spot(i) => At(u.disk, jno, p) = At(u.disk, ino, p)
    <3> DEFINE X == {p \in Place : p # Spot(i) => At(u.disk, jno, p) = At(u.disk, ino, p)}
    <3>1. \A k \in 0 .. NumDirect - 1 : DirectPlace(k) \in X
      <4>1. SUFFICES ASSUME NEW k \in 0 .. NumDirect - 1, k # i
                     PROVE  DirectPlace(k) \in Place /\ At(u.disk, jno, DirectPlace(k)) = At(u.disk, ino, DirectPlace(k))
        BY <1>1, <1>2, TopIs
      <4>2. DirectPlace(k) \in Place /\ At(u.disk, ino, DirectPlace(k)) = ino.direct[k]
        BY DirectIs, AtDirect
      <4>3. At(u.disk, jno, DirectPlace(k)) = jno.direct[k]
        BY AtDirect
      <4>. QED
        BY <4>1, <4>2, <4>3, <2>5
    <3>2. \A l \in 1 .. 3 : RootPlace(l) \in X
      <4>1. SUFFICES ASSUME NEW l \in 1 .. 3
                     PROVE  RootPlace(l) \in Place /\ At(u.disk, jno, RootPlace(l)) = At(u.disk, ino, RootPlace(l))
        OBVIOUS
      <4>2. RootPlace(l) \in Place /\ At(u.disk, ino, RootPlace(l)) = ino.root[l]
        BY TopIs
      <4>3. At(u.disk, jno, RootPlace(l)) = jno.root[l]
        BY TopIs
      <4>. QED
        BY <4>2, <4>3, <2>4
    <3>3. ASSUME NEW p \in Place, p \in X, Inner(p), NEW k \in Digit PROVE Under(p, k) \in X
      <4>1. p # Spot(i)
        BY <3>3, <1>1, <1>2, TopIs
      <4>2. At(u.disk, jno, p) = At(u.disk, ino, p)
        BY <4>1, <3>3
      <4>3. Under(p, k) \in Place /\ At(u.disk, jno, Under(p, k)) = Down(u.disk, At(u.disk, jno, p), k)
        BY <3>3, UnderIs, AtUnder
      <4>4. At(u.disk, ino, Under(p, k)) = Down(u.disk, At(u.disk, ino, p), k)
        BY <3>3, AtUnder
      <4>. QED
        BY <4>2, <4>3, <4>4
    <3> HIDE DEF X
    <3>4. Place \subseteq X
      BY <3>1, <3>2, <3>3, PlacesTop
    <3>. QED
      BY <3>4 DEF X
  <2>10. At(u.disk, jno, Spot(i)) = phys
    BY <2>5, <1>1, <1>2, AtDirect
  <2>11. ASSUME Fine(u, ino, i) PROVE Added(u, ino, role, u, jno, 0, f, Spot(i), phys)
    <3>1. At(u.disk, ino, Spot(i)) = 0 /\ \A p \in Place : At(u.disk, ino, p) >= 0
      BY <2>11 DEF Fine
    <3>2. AtKept(u.disk, ino, u.disk, jno)
      BY <2>9, <3>1 DEF AtKept
    <3>3. AtFree(u.disk, ino, u.disk, jno, Spot(i))
      BY <2>9 DEF AtFree
    <3>4. phys > 0
      BY <1>4, HoldsBlock
    <3>5. FullIfNeg(u.used, u.disk, jno)
      <4>1. \A p \in Place : NumberAt(role, u.used, f, p, At(u.disk, ino, p))
        BY AtHolds
      <4>2. phys \in Int
        BY <1>4, HoldsNumber
      <4>. QED
        BY <2>9, <2>10, <3>1, <3>4, <4>1, <4>2 DEF FullIfNeg, NumberAt
    <3>6. NoneLost(u, role, u, jno, f)
      BY DEF NoneLost
    <3>. QED
      BY <2>10, <3>2, <3>3, <3>5, <3>6 DEF Added
  <2>12. PhysSet(role, u, ino, r, f, i, phys)
    BY <2>2, <2>4, <2>8, <2>11, <1>4 DEF PhysSet
  <2>. QED
    BY <2>1, <2>12
<1>. QED
  BY <1>5, <1>6

(* SetPhys of any file block: the volume stays in order, and the map names *)
(* the block, or the disk is full.                                         *)
LEMMA SetPhysOK ==
  ASSUME NEW role, NEW u \in Volumes, Vol(role, u), NEW f \in Files, NEW ino, InodeOK(role, u.used, f, ino),
         NEW i \in Nat, NEW phys, Holds(role, u.used, f, Spot(i), phys), phys \notin {0, -1, -2}
  PROVE  PhysSet(role, u, ino, SetPhys(u, ino, i, phys), f, i, phys)
<1>1. CASE Level(i) = 4
  <2> DEFINE r == Result(u, ino, 0, FALSE)
  <2>1. SetPhys(u, ino, i, phys) = r
    BY <1>1 DEF SetPhys
  <2>2. r.vol = u /\ r.inode = ino /\ r.ret = 0
    BY DEF Result
  <2>3. ~Fine(u, ino, i)
    BY <1>1, LevelIs, StartsAre DEF Fine
  <2>4. Kept(role, u, role, u, f)
    BY KeptSelf
  <2> HIDE DEF r
  <2>5. PhysSet(role, u, ino, r, f, i, phys)
    BY <2>2, <2>3, <2>4 DEF PhysSet
  <2>. QED
    BY <2>1, <2>5
<1>2. Level(i) \in 0 .. 4
  BY LevelIs
<1>3. CASE Level(i) = 0
  BY <1>3, SetLevel0
<1>4. CASE Level(i) = 1
  BY <1>4, SetLevel1
<1>5. CASE Level(i) = 2
  BY <1>5, SetLevel2
<1>6. CASE Level(i) = 3
  BY <1>6, SetLevel3
<1>. QED
  BY <1>1, <1>2, <1>3, <1>4, <1>5, <1>6

(* Positions *)
LEMMA TimesIs ==
  ASSUME NEW k \in Nat
  PROVE  Times(k) \in Nat /\ Times(k + 1) = Times(k) + Bytes /\ Times(0) = 0 /\ Bytes \in Nat \ {0}
  BY SfsFileAssumption DEF SfsFileAssumption, Times

(* The positions of one block are below those of the next. *)
LEMMA TimesBelow ==
  ASSUME NEW j \in Nat, NEW k \in Nat, j < k
  PROVE  Times(j) + Bytes <= Times(k)
<1>0. Bytes \in Nat \ {0}
  BY SfsFileAssumption DEF SfsFileAssumption
<1>1. PICK e \in Nat : k = j + 1 + e
  <2>1. k - j - 1 \in Nat /\ k = j + 1 + (k - j - 1)
    OBVIOUS
  <2>. QED
    BY <2>1
<1>2. k * Bytes = j * Bytes + Bytes + e * Bytes /\ e * Bytes \in Nat /\ j * Bytes \in Nat
  BY <1>0, <1>1
<1>. QED
  BY <1>0, <1>2 DEF Times

(* A position is in the block that the quotient tells. *)
LEMMA TimesDiv ==
  ASSUME NEW n \in Nat
  PROVE  /\ n \div Bytes \in Nat /\ n % Bytes \in 0 .. Bytes - 1
         /\ n = Times(n \div Bytes) + (n % Bytes)
<1>1. Bytes \in Nat \ {0}
  BY SfsFileAssumption DEF SfsFileAssumption
<1>. QED
  BY <1>1, Division DEF Times

(* And in no other. *)
LEMMA TimesTells ==
  ASSUME NEW n \in Nat, NEW k \in Nat, Times(k) <= n, n < Times(k) + Bytes
  PROVE  n \div Bytes = k /\ n % Bytes = n - Times(k)
<1> DEFINE q == n \div Bytes
           m == n % Bytes
<1>1. q \in Nat /\ m \in 0 .. Bytes - 1 /\ n = Times(q) + m
  BY TimesDiv
<1>2. Times(k) \in Nat /\ Times(q) \in Nat /\ Bytes \in Nat \ {0}
  BY <1>1, TimesIs
<1> HIDE DEF q, m
<1>3. ~(q < k)
  <2>1. q < k => Times(q) + Bytes <= Times(k)
    BY <1>1, TimesBelow
  <2>. QED
    BY <2>1, <1>1, <1>2
<1>4. ~(k < q)
  <2>1. k < q => Times(k) + Bytes <= Times(q)
    BY <1>1, TimesBelow
  <2>. QED
    BY <2>1, <1>1, <1>2
<1>5. q = k
  BY <1>1, <1>3, <1>4
<1>6. m = n - Times(k)
  BY <1>1, <1>2, <1>5
<1>. QED
  BY <1>5, <1>6 DEF q, m

(* Every block that starts inside the bound has a place in the map. *)
LEMMA TimesInMap ==
  ASSUME NEW k \in Nat, Times(k) < MaxSize
  PROVE  k \in 0 .. Starts[4] - 1
<1>1. Bytes \in Nat \ {0} /\ MaxSize \in Nat /\ MaxSize <= Bytes * Starts[4]
  BY SfsFileAssumption DEF SfsFileAssumption
<1>2. Starts[4] \in Nat
  BY StartsAre
<1>3. Bytes * Starts[4] = Starts[4] * Bytes
  BY <1>1, <1>2
<1>4. Starts[4] * Bytes = Times(Starts[4])
  BY DEF Times
<1>5. Times(k) < Times(Starts[4])
  <2>1. Times(k) \in Nat /\ Times(Starts[4]) \in Nat
    BY <1>2, TimesIs
  <2>. QED
    BY <2>1, <1>1, <1>3, <1>4
<1>6. ~(Starts[4] < k)
  <2>1. Starts[4] < k => Times(Starts[4]) + Bytes <= Times(k)
    BY <1>2, TimesBelow
  <2>2. Times(k) \in Nat /\ Times(Starts[4]) \in Nat
    BY <1>2, TimesIs
  <2>. QED
    BY <2>1, <2>2, <1>1, <1>5
<1>7. Starts[4] # k
  <2>1. Times(Starts[4]) \in Nat
    BY <1>2, TimesIs
  <2>. QED
    BY <2>1, <1>5
<1>. QED
  BY <1>2, <1>6, <1>7

(* The map reaches as far as a position may be. *)
LEMMA PositionInMap ==
  ASSUME NEW n \in Nat, n < MaxSize
  PROVE  n \div Bytes \in 0 .. Starts[4] - 1
<1>1. MaxSize \in Nat
  BY SfsFileAssumption DEF SfsFileAssumption
<1>2. n \div Bytes \in Nat /\ n = Times(n \div Bytes) + (n % Bytes) /\ n % Bytes \in 0 .. Bytes - 1
  BY TimesDiv
<1>3. Times(n \div Bytes) \in Nat /\ Bytes \in Nat
  BY <1>2, TimesIs
<1>4. Times(n \div Bytes) < MaxSize
  BY <1>1, <1>2, <1>3
<1>. QED
  BY <1>2, <1>4, TimesInMap

(* sfs_log2phys in a map in order answers a number that may stand there. *)
LEMMA LogHolds ==
  ASSUME NEW role, NEW v \in Volumes, Vol(role, v), NEW f, NEW ino, InodeOK(role, v.used, f, ino), NEW i \in Nat
  PROVE  /\ Holds(role, v.used, f, Spot(i), Log2Phys(v.disk, ino, i))
         /\ i < Starts[4] => Log2Phys(v.disk, ino, i) = At(v.disk, ino, Spot(i))
<1>1. CASE i < Starts[4]
  <2>1. Spot(i) \in Place
    BY <1>1, SpotPlace
  <2>2. NumberAt(role, v.used, f, Spot(i), At(v.disk, ino, Spot(i)))
    BY <2>1, AtHolds
  <2>. QED
    BY <2>2, <1>1, AtSpot DEF NumberAt
<1>2. CASE ~(i < Starts[4])
  <2>1. Level(i) = 4
    BY <1>2, LevelIs, StartsAre
  <2>2. Log2Phys(v.disk, ino, i) = 0
    BY <2>1 DEF Log2Phys
  <2>. QED
    BY <2>2, <1>2 DEF Holds
<1>. QED
  BY <1>1, <1>2

(* A map finds the same as long as its blocks of pointers stay the same. *)
PointersSame(role, v, w, g) == \A b \in v.used \ {0} : role[b][1] = g /\ Inner(role[b][2]) => w.disk[b] = v.disk[b]

AtsSame(v, w, ino) == \A p \in Place : At(w.disk, ino, p) = At(v.disk, ino, p)

(* A map whose pointers nobody writes stays what it is. *)
LEMMA AtSame ==
  ASSUME NEW role, NEW v \in Volumes, Vol(role, v), NEW g, NEW ino, InodeOK(role, v.used, g, ino),
         NEW w, PointersSame(role, v, w, g)
  PROVE  AtsSame(v, w, ino)
<1> DEFINE X == {p \in Place : At(w.disk, ino, p) = At(v.disk, ino, p)}
<1>1. \A k \in 0 .. NumDirect - 1 : DirectPlace(k) \in X
  BY DirectIs, AtDirect
<1>2. \A l \in 1 .. 3 : RootPlace(l) \in X
  BY TopIs
<1>3. ASSUME NEW p \in Place, p \in X, Inner(p), NEW k \in Digit
      PROVE  Under(p, k) \in X
  <2> DEFINE b == At(v.disk, ino, p)
  <2>1. NumberAt(role, v.used, g, p, b)
    BY AtHolds
  <2>2. At(w.disk, ino, p) = b
    BY <1>3
  <2>3. Under(p, k) \in Place /\ At(v.disk, ino, Under(p, k)) = Down(v.disk, b, k)
    BY <1>3, UnderIs, AtUnder
  <2>4. At(w.disk, ino, Under(p, k)) = Down(w.disk, b, k)
    BY <2>2, <1>3, AtUnder
  <2> HIDE DEF b
  <2>5. CASE b \in Blocks \ {0}
    <3>1. b > 0
      <4>1. b \in Nat
        BY <2>5, BlocksAre
      <4>. QED
        BY <4>1, <2>5
    <3>2. b \in v.used \ {0} /\ role[b][1] = g /\ role[b][2] = p
      BY <2>1, <3>1 DEF NumberAt
    <3>3. w.disk[b] = v.disk[b]
      BY <3>2, <1>3 DEF PointersSame
    <3>. QED
      BY <3>3, <2>3, <2>4 DEF Down
  <2>6. CASE b \notin Blocks \ {0}
    BY <2>6, <2>3, <2>4 DEF Down
  <2>. QED
    BY <2>5, <2>6
<1> HIDE DEF X
<1>4. Place \subseteq X
  BY <1>1, <1>2, <1>3, PlacesTop
<1>. QED
  BY <1>4 DEF X, AtsSame

(* What other files' maps find does not change. *)
LEMMA AtFramed ==
  ASSUME NEW role, NEW v \in Volumes, Vol(role, v), NEW g, NEW ino, InodeOK(role, v.used, g, ino),
         NEW role2, NEW w, NEW f, Frame(role, v, role2, w, f), g # f
  PROVE  AtsSame(v, w, ino)
<1>1. PointersSame(role, v, w, g)
  BY DEF PointersSame, Frame
<1>. HIDE DEF PointersSame
<1>. QED
  BY <1>1, AtSame

(* What one call works on *)
Calls == [used : SUBSET Blocks, disk : [Blocks -> Buffer \cup Pointers], inodes : [Files -> Inode],
          fd : Descriptor, ok : BOOLEAN]
Volume(s) == [used |-> s.used, disk |-> s.disk]
Ident(fd, gd) == gd.open = fd.open /\ gd.file = fd.file /\ gd.append = fd.append /\ gd.refused = fd.refused
Pos(fd, gd) == gd.bufpos = fd.bufpos /\ gd.filepos = fd.filepos
Blk(fd, gd) == gd.curr_blk = fd.curr_blk /\ gd.curr_log = fd.curr_log

(* The fields of a descriptor, and their types *)
LEMMA FieldsAre ==
  ASSUME NEW fd \in Descriptor
  PROVE  /\ fd.open /\ fd.file \in Files /\ fd.append \in BOOLEAN /\ fd.inode \in Inode
         /\ fd.buffer \in Buffer /\ fd.bufpos \in Int
         /\ fd.filepos \in Nat /\ fd.filepos <= MaxSize /\ fd.dirty \in BOOLEAN /\ fd.refused \in BOOLEAN
         /\ fd.curr_blk \in Numbers /\ fd.curr_blk \in Int /\ fd.curr_log \in Nat \cup {-1}
         /\ fd.inode.size \in Nat /\ fd.inode.size <= MaxSize
<1>1. MaxSize \in Nat /\ Bytes \in Nat
  BY SfsFileAssumption DEF SfsFileAssumption
<1>2. fd.open /\ fd.file \in Files /\ fd.append \in BOOLEAN /\ fd.inode \in Inode
  BY DEF Descriptor
<1>3. fd.dirty \in BOOLEAN /\ fd.refused \in BOOLEAN /\ fd.curr_blk \in Numbers /\ fd.curr_log \in Nat \cup {-1}
  BY DEF Descriptor
<1>4. fd.curr_blk \in Int
  BY <1>3, BlocksAre DEF Numbers
<1>5. fd.buffer \in Buffer
  BY DEF Descriptor, Buffer
<1>6. fd.bufpos \in Int /\ fd.filepos \in 0 .. MaxSize
  BY DEF Descriptor
<1>7. fd.inode.size \in 0 .. MaxSize
  BY <1>2 DEF Inode
<1>8. fd.bufpos \in Int /\ fd.filepos \in Nat /\ fd.filepos <= MaxSize
  BY <1>1, <1>6
<1>9. fd.inode.size \in Nat /\ fd.inode.size <= MaxSize
  BY <1>1, <1>7
<1>. QED
  BY <1>2, <1>3, <1>4, <1>5, <1>8, <1>9

(* The fields of a call's state. *)
LEMMA CallIs ==
  ASSUME NEW s \in Calls
  PROVE  /\ s.used \in SUBSET Blocks /\ s.disk \in [Blocks -> Buffer \cup Pointers] /\ s.inodes \in [Files -> Inode]
         /\ s.fd \in Descriptor /\ s.ok \in BOOLEAN /\ Volume(s) \in Volumes
         /\ Volume(s).used = s.used /\ Volume(s).disk = s.disk
  BY DEF Calls, Volume, Volumes

FetchRel(s, t) ==
  /\ t.used = s.used /\ t.disk = s.disk /\ t.inodes = s.inodes /\ t.ok = s.ok
  /\ Ident(s.fd, t.fd) /\ Pos(s.fd, t.fd) /\ Blk(s.fd, t.fd) /\ t.fd.inode = s.fd.inode /\ t.fd.dirty = s.fd.dirty
  /\ t.fd.buffer = IF s.fd.curr_blk \in Blocks THEN s.disk[s.fd.curr_blk] ELSE s.fd.buffer

(* What Fetch does. *)
LEMMA FetchIs ==
  ASSUME NEW s \in Calls, s.fd.curr_blk \in Blocks => s.disk[s.fd.curr_blk] \in Buffer
  PROVE  Fetch(s) \in Calls /\ FetchRel(s, Fetch(s))
<1>1. CASE s.fd.curr_blk \in Blocks
  <2>1. Fetch(s) = [s EXCEPT !.fd.buffer = s.disk[s.fd.curr_blk]]
    BY <1>1 DEF Fetch
  <2> DEFINE buf == s.disk[s.fd.curr_blk]
             fd == [s.fd EXCEPT !.buffer = buf]
             t == [s EXCEPT !.fd = fd]
  <2>2. Fetch(s) = t
    BY <2>1
  <2>3. buf \in Buffer /\ s.fd \in Descriptor
    BY <1>1, CallIs
  <2> HIDE DEF buf
  <2>4. fd \in Descriptor
    BY <2>3 DEF Descriptor, Buffer
  <2>5. Ident(s.fd, fd) /\ Pos(s.fd, fd) /\ Blk(s.fd, fd) /\ fd.inode = s.fd.inode /\ fd.dirty = s.fd.dirty /\ fd.buffer = buf
    BY <2>3 DEF Descriptor, Ident, Pos, Blk
  <2> HIDE DEF fd
  <2>6. t \in Calls /\ t.used = s.used /\ t.disk = s.disk /\ t.inodes = s.inodes /\ t.ok = s.ok /\ t.fd = fd
    BY <2>4 DEF Calls
  <2> HIDE DEF t
  <2>7. FetchRel(s, t)
    BY <2>5, <2>6, <1>1 DEF FetchRel, buf
  <2>. QED
    BY <2>2, <2>6, <2>7
<1>2. CASE s.fd.curr_blk \notin Blocks
  BY <1>2 DEF Fetch, FetchRel, Ident, Pos, Blk
<1>. QED
  BY <1>1, <1>2

FlushRel(s, t) ==
  /\ t.used = s.used /\ t.ok = s.ok
  /\ t.inodes = [s.inodes EXCEPT ![s.fd.file] = s.fd.inode]
  /\ t.disk = IF s.fd.curr_blk \in Blocks THEN Upd(s.disk, s.fd.curr_blk, s.fd.buffer) ELSE s.disk
  /\ Ident(s.fd, t.fd) /\ Pos(s.fd, t.fd) /\ Blk(s.fd, t.fd) /\ t.fd.inode = s.fd.inode /\ ~t.fd.dirty
  /\ t.fd.buffer = s.fd.buffer

(* What Flush does. *)
LEMMA FlushIs ==
  ASSUME NEW s \in Calls
  PROVE  Flush(s) \in Calls /\ FlushRel(s, Flush(s))
<1> DEFINE a == Store(s)
<1>0. s.fd \in Descriptor /\ s.fd.buffer \in Buffer /\ s.fd.inode \in Inode /\ s.fd.file \in Files
  BY CallIs, FieldsAre
<1>1. a \in Calls /\ a.used = s.used /\ a.ok = s.ok /\ a.inodes = s.inodes /\ a.fd = s.fd
      /\ a.disk = IF s.fd.curr_blk \in Blocks THEN Upd(s.disk, s.fd.curr_blk, s.fd.buffer) ELSE s.disk
  <2>1. CASE s.fd.curr_blk \in Blocks
    <3>1. a = [s EXCEPT !.disk[s.fd.curr_blk] = s.fd.buffer]
      BY <2>1 DEF Store
    <3>2. s.disk \in [Blocks -> Buffer \cup Pointers]
      BY CallIs
    <3>3. a.disk = Upd(s.disk, s.fd.curr_blk, s.fd.buffer) /\ a.used = s.used /\ a.ok = s.ok /\ a.inodes = s.inodes /\ a.fd = s.fd
      BY <3>1 DEF Calls, Upd
    <3>4. Upd(s.disk, s.fd.curr_blk, s.fd.buffer) \in [Blocks -> Buffer \cup Pointers]
      BY <3>2, <1>0 DEF Upd
    <3>5. a \in Calls
      BY <3>1, <3>3, <3>4 DEF Calls
    <3>. QED
      BY <3>3, <3>5, <2>1
  <2>2. CASE s.fd.curr_blk \notin Blocks
    BY <2>2 DEF Store
  <2>. QED
    BY <2>1, <2>2
<1> HIDE DEF a
<1> DEFINE b == [a EXCEPT !.inodes[a.fd.file] = a.fd.inode]
<1>2. b \in Calls /\ b.used = a.used /\ b.ok = a.ok /\ b.disk = a.disk /\ b.fd = a.fd
      /\ b.inodes = [a.inodes EXCEPT ![a.fd.file] = a.fd.inode]
  BY <1>0, <1>1 DEF Calls
<1>3. Flush(s) = [b EXCEPT !.fd.dirty = FALSE]
  BY DEF Flush, PutInode, a
<1> HIDE DEF b
<1> DEFINE c == [b EXCEPT !.fd.dirty = FALSE]
<1>4. c \in Calls /\ c.used = b.used /\ c.ok = b.ok /\ c.disk = b.disk /\ c.inodes = b.inodes
      /\ c.fd = [b.fd EXCEPT !.dirty = FALSE]
  BY <1>2 DEF Calls, Descriptor
<1>5. Ident(b.fd, c.fd) /\ Pos(b.fd, c.fd) /\ Blk(b.fd, c.fd) /\ c.fd.inode = b.fd.inode /\ ~c.fd.dirty /\ c.fd.buffer = b.fd.buffer
  BY <1>2, <1>4 DEF Calls, Descriptor, Ident, Pos, Blk
<1> HIDE DEF c
<1>6. FlushRel(s, c)
  BY <1>1, <1>2, <1>4, <1>5 DEF FlushRel
<1>. QED
  BY <1>3, <1>4, <1>6 DEF c

SeekRel(s, t) ==
  /\ t.used = s.used /\ t.disk = s.disk /\ t.inodes = s.inodes /\ t.ok = s.ok
  /\ Ident(s.fd, t.fd) /\ Pos(s.fd, t.fd) /\ t.fd.inode = s.fd.inode /\ t.fd.dirty = s.fd.dirty /\ t.fd.buffer = s.fd.buffer
  /\ t.fd.curr_log = s.fd.filepos \div Bytes
  /\ t.fd.curr_blk = Log2Phys(s.disk, s.fd.inode, s.fd.filepos \div Bytes)

(* What Seek does. *)
LEMMA SeekIs ==
  ASSUME NEW s \in Calls, Log2Phys(s.disk, s.fd.inode, s.fd.filepos \div Bytes) \in Numbers
  PROVE  Seek(s) \in Calls /\ SeekRel(s, Seek(s))
<1> DEFINE log == s.fd.filepos \div Bytes
           blk == Log2Phys(s.disk, s.fd.inode, log)
<1>1. Seek(s) = [s EXCEPT !.fd.curr_log = log, !.fd.curr_blk = blk]
  BY DEF Seek
<1>2. log \in Nat
  BY CallIs, FieldsAre, TimesDiv
<1>3. blk \in Numbers
  OBVIOUS
<1>4. s.fd \in Descriptor
  BY CallIs
<1> DEFINE fd1 == [s.fd EXCEPT !.curr_log = log]
           fd2 == [fd1 EXCEPT !.curr_blk = blk]
           t == [s EXCEPT !.fd = fd2]
<1>5. Seek(s) = t
  BY <1>1
<1> HIDE DEF log, blk
<1>6. fd1 \in Descriptor
  BY <1>2, <1>4 DEF Descriptor
<1>7. Ident(s.fd, fd1) /\ Pos(s.fd, fd1) /\ fd1.inode = s.fd.inode /\ fd1.dirty = s.fd.dirty /\ fd1.buffer = s.fd.buffer /\ fd1.curr_log = log
  BY <1>4 DEF Descriptor, Ident, Pos
<1> HIDE DEF fd1
<1>8. fd2 \in Descriptor
  BY <1>3, <1>6 DEF Descriptor
<1>9. Ident(fd1, fd2) /\ Pos(fd1, fd2) /\ fd2.inode = fd1.inode /\ fd2.dirty = fd1.dirty /\ fd2.buffer = fd1.buffer
      /\ fd2.curr_log = fd1.curr_log /\ fd2.curr_blk = blk
  BY <1>6 DEF Descriptor, Ident, Pos
<1> HIDE DEF fd2
<1>10. t \in Calls /\ t.used = s.used /\ t.disk = s.disk /\ t.inodes = s.inodes /\ t.ok = s.ok /\ t.fd = fd2
  BY <1>8 DEF Calls
<1>11. Ident(s.fd, fd2) /\ Pos(s.fd, fd2)
  BY <1>7, <1>9 DEF Ident, Pos
<1> HIDE DEF t
<1>12. t.fd.curr_log = s.fd.filepos \div Bytes /\ t.fd.curr_blk = Log2Phys(s.disk, s.fd.inode, s.fd.filepos \div Bytes)
  BY <1>7, <1>9, <1>10 DEF log, blk
<1>13. SeekRel(s, t)
  BY <1>7, <1>9, <1>10, <1>11, <1>12 DEF SeekRel
<1>. QED
  BY <1>5, <1>10, <1>13

(* What a call works on is in order; what it does leaves it so, and leaves *)
(* other files alone.                                                      *)
NodesOK(role, us, nodes) == \A g \in Files : InodeOK(role, us, g, nodes[g])
CallOK(role, s) ==
  s \in Calls /\ Vol(role, Volume(s)) /\ NodesOK(role, s.used, s.inodes) /\ DescOK(role, s.used, s.fd)
OthersKept(s, t) == \A g \in Files : g # s.fd.file => t.inodes[g] = s.inodes[g]
Goes(role, s, role2, t) ==
  CallOK(role2, t) /\ Frame(role, Volume(s), role2, Volume(t), s.fd.file) /\ Ident(s.fd, t.fd) /\ OthersKept(s, t)

(* A call that does nothing leaves all in order. *)
LEMMA GoesSelf ==
  ASSUME NEW role, NEW s, CallOK(role, s)
  PROVE  Goes(role, s, role, s)
  BY FrameSelf DEF Goes, Ident, OthersKept

(* So do two steps of a call, if each does. *)
LEMMA GoesTrans ==
  ASSUME NEW role, NEW s, NEW role2, NEW t, NEW role3, NEW u,
         Goes(role, s, role2, t), Goes(role2, t, role3, u)
  PROVE  Goes(role, s, role3, u)
<1>1. t.fd.file = s.fd.file
  BY DEF Goes, Ident
<1>2. Frame(role, Volume(s), role3, Volume(u), s.fd.file)
  BY <1>1, FrameTrans DEF Goes
<1>3. Ident(s.fd, u.fd)
  BY DEF Goes, Ident
<1>4. OthersKept(s, u)
  BY <1>1 DEF Goes, OthersKept
<1>. QED
  BY <1>2, <1>3, <1>4 DEF Goes

(* What changes only the descriptor *)
LEMMA GoesPlain ==
  ASSUME NEW role, NEW s, CallOK(role, s), NEW t \in Calls, t.used = s.used, t.disk = s.disk, t.inodes = s.inodes,
         Ident(s.fd, t.fd), DescOK(role, t.used, t.fd)
  PROVE  Goes(role, s, role, t)
<1>1. Volume(t) = Volume(s)
  BY DEF Volume
<1>2. CallOK(role, t)
  BY <1>1 DEF CallOK
<1>3. Frame(role, Volume(s), role, Volume(t), s.fd.file)
  BY <1>1, FrameSelf
<1>4. OthersKept(s, t)
  BY DEF OthersKept
<1>. QED
  BY <1>2, <1>3, <1>4 DEF Goes

(* The block in the buffer *)
LEMMA BlkIs ==
  ASSUME NEW role, NEW v \in Volumes, Vol(role, v), NEW f, NEW b, BlkOK(role, v.used, f, b)
  PROVE  /\ b \in Numbers /\ b \in Int
         /\ b \in Blocks => v.disk[b] \in Buffer
         /\ b \in Blocks \ {0} => b \in v.used \ {0} /\ role[b][1] = f /\ ~Inner(role[b][2])
<1>0. v.used \in SUBSET Blocks
  BY DEF Volumes
<1>1. PICK p \in Spots : ~Inner(p) /\ Holds(role, v.used, f, p, b)
  BY DEF BlkOK
<1>2. b \in Numbers /\ b \in Int
  BY <1>0, <1>1, HoldsNumber
<1>3. ASSUME b \in Blocks \ {0} PROVE b \in v.used \ {0} /\ role[b][1] = f /\ ~Inner(role[b][2])
  <2>1. b \notin {0, -1, -2}
    BY <1>3, BlocksAre
  <2>. QED
    BY <2>1, <1>1 DEF Holds
<1>4. ASSUME b \in Blocks PROVE v.disk[b] \in Buffer
  <2>1. CASE b = 0
    BY <2>1, <1>4 DEF Vol
  <2>2. CASE b # 0
    <3>1. b \in v.used \ {0} /\ ~Inner(role[b][2])
      BY <2>2, <1>3, <1>4
    <3>2. BlockOK(role, v, b)
      BY <3>1 DEF Vol
    <3>. QED
      BY <3>1, <3>2 DEF BlockOK
  <2>. QED
    BY <2>1, <2>2
<1>. QED
  BY <1>2, <1>3, <1>4

(* The block in the buffer is one of the descriptor's file, and holds data. *)
LEMMA CallBlk ==
  ASSUME NEW role, NEW s, CallOK(role, s)
  PROVE  /\ s.fd.curr_blk \in Blocks => s.disk[s.fd.curr_blk] \in Buffer
         /\ s.fd.curr_blk \in Blocks \ {0} => /\ s.fd.curr_blk \in s.used \ {0} /\ role[s.fd.curr_blk][1] = s.fd.file
                                              /\ ~Inner(role[s.fd.curr_blk][2])
<1>1. Volume(s) \in Volumes /\ Volume(s).used = s.used /\ Volume(s).disk = s.disk
  BY CallIs DEF CallOK
<1>2. Vol(role, Volume(s)) /\ BlkOK(role, Volume(s).used, s.fd.file, s.fd.curr_blk)
  BY <1>1 DEF CallOK, DescOK
<1>. QED
  BY <1>1, <1>2, BlkIs

(* Fetch leaves all in order. *)
LEMMA FetchGoes ==
  ASSUME NEW role, NEW s, CallOK(role, s)
  PROVE  Goes(role, s, role, Fetch(s)) /\ FetchRel(s, Fetch(s))
<1> DEFINE t == Fetch(s)
<1>1. s \in Calls
  BY DEF CallOK
<1>2. t \in Calls /\ FetchRel(s, t)
  BY <1>1, CallBlk, FetchIs
<1> HIDE DEF t
<1>3. t.fd \in Descriptor
  BY <1>2, CallIs
<1>4. DescOK(role, t.used, t.fd)
  BY <1>2, <1>3 DEF CallOK, DescOK, FetchRel, Ident, Blk
<1>5. Goes(role, s, role, t)
  BY <1>2, <1>4, GoesPlain DEF FetchRel
<1>. QED
  BY <1>2, <1>5 DEF t

(* Seek leaves all in order. *)
LEMMA SeekGoes ==
  ASSUME NEW role, NEW s, CallOK(role, s)
  PROVE  Goes(role, s, role, Seek(s)) /\ SeekRel(s, Seek(s))
<1> DEFINE t == Seek(s)
           log == s.fd.filepos \div Bytes
<1>1. s \in Calls /\ s.fd \in Descriptor
  BY CallIs DEF CallOK
<1>2. Volume(s) \in Volumes /\ Volume(s).used = s.used /\ Volume(s).disk = s.disk
  BY CallIs DEF CallOK
<1>3. log \in Nat
  BY <1>1, FieldsAre, TimesDiv
<1>4. Vol(role, Volume(s)) /\ InodeOK(role, Volume(s).used, s.fd.file, s.fd.inode)
  BY <1>2 DEF CallOK, DescOK
<1> HIDE DEF log
<1>5. Holds(role, Volume(s).used, s.fd.file, Spot(log), Log2Phys(Volume(s).disk, s.fd.inode, log))
  BY <1>2, <1>3, <1>4, LogHolds
<1>6. s.used \in SUBSET Blocks
  BY <1>1, CallIs
<1>7. Log2Phys(s.disk, s.fd.inode, log) \in Numbers
  BY <1>2, <1>5, <1>6, HoldsNumber
<1>8. t \in Calls /\ SeekRel(s, t)
  BY <1>1, <1>7, SeekIs DEF log
<1> HIDE DEF t
<1>9. t.fd \in Descriptor
  BY <1>8, CallIs
<1>10. Spot(log) \in Spots /\ ~Inner(Spot(log))
  BY <1>3, SpotIs
<1>11. t.fd.file = s.fd.file /\ t.fd.inode = s.fd.inode /\ t.used = s.used /\ t.fd.curr_blk = Log2Phys(s.disk, s.fd.inode, log)
  BY <1>8 DEF SeekRel, Ident, log
<1>12. BlkOK(role, t.used, t.fd.file, t.fd.curr_blk)
  BY <1>2, <1>5, <1>10, <1>11 DEF BlkOK
<1>13. DescOK(role, t.used, t.fd)
  BY <1>9, <1>11, <1>12 DEF CallOK, DescOK
<1>14. Goes(role, s, role, t)
  BY <1>8, <1>13, GoesPlain DEF SeekRel
<1>. QED
  BY <1>8, <1>14 DEF t

(* Saving the buffer: a block that is there for data gets data. *)
LEMMA WriteBlock ==
  ASSUME NEW role, NEW v \in Volumes, Vol(role, v), NEW f \in Files, NEW b, BlkOK(role, v.used, f, b), NEW buf \in Buffer,
         NEW w \in Volumes, w.used = v.used, w.disk = IF b \in Blocks THEN Upd(v.disk, b, buf) ELSE v.disk
  PROVE  Vol(role, w) /\ Frame(role, v, role, w, f) /\ PointersSame(role, v, w, f)
<1>1. v.used \in SUBSET Blocks /\ v.disk \in [Blocks -> Buffer \cup Pointers]
  BY DEF Volumes
<1>2. CASE b \notin Blocks
  <2>1. w.disk = v.disk
    BY <1>2
  <2>. QED
    BY <2>1 DEF Vol, Frame, PointersSame, BlockOK
<1>3. CASE b \in Blocks
  <2>1. w.disk[b] = buf /\ \A c \in Blocks \ {b} : w.disk[c] = v.disk[c]
    BY <1>1, <1>3 DEF Upd
  <2>2. b # 0 => b \in v.used \ {0} /\ role[b][1] = f /\ ~Inner(role[b][2])
    BY <1>3, BlkIs
  <2>3. Frame(role, v, role, w, f) /\ PointersSame(role, v, w, f)
    BY <1>1, <2>1, <2>2 DEF Frame, PointersSame
  <2>4. \A c \in Blocks \ (w.used \ {0}) : w.disk[c] \in Buffer
    BY <2>1 DEF Vol
  <2>5. ASSUME NEW c \in w.used \ {0} PROVE BlockOK(role, w, c)
    <3>1. BlockOK(role, v, c)
      BY <2>5 DEF Vol
    <3>2. CASE c = b
      BY <3>1, <3>2, <2>1, <2>2 DEF BlockOK
    <3>3. CASE c # b
      <4>1. w.disk[c] = v.disk[c]
        BY <3>3, <1>1, <2>1
      <4>. QED
        BY <3>1, <4>1 DEF BlockOK
    <3>. QED
      BY <3>2, <3>3
  <2>6. w.disk \in [Blocks -> Buffer \cup Pointers]
    BY DEF Volumes
  <2>. QED
    BY <2>3, <2>4, <2>5, <2>6 DEF Vol
<1>. QED
  BY <1>2, <1>3

(* Flush leaves all in order, and every pointer. *)
LEMMA FlushGoes ==
  ASSUME NEW role, NEW s, CallOK(role, s)
  PROVE  /\ Goes(role, s, role, Flush(s)) /\ FlushRel(s, Flush(s))
         /\ PointersSame(role, Volume(s), Volume(Flush(s)), s.fd.file)
<1> DEFINE t == Flush(s)
<1>1. s \in Calls /\ s.fd \in Descriptor /\ Volume(s) \in Volumes /\ Volume(s).used = s.used /\ Volume(s).disk = s.disk
  BY CallIs DEF CallOK
<1>2. t \in Calls /\ FlushRel(s, t)
  BY <1>1, FlushIs
<1> HIDE DEF t
<1>3. Volume(t) \in Volumes /\ Volume(t).used = t.used /\ Volume(t).disk = t.disk /\ t.fd \in Descriptor
  BY <1>2, CallIs
<1>4. s.fd.file \in Files /\ s.fd.buffer \in Buffer
  BY <1>1, FieldsAre
<1>5. Vol(role, Volume(s)) /\ BlkOK(role, Volume(s).used, s.fd.file, s.fd.curr_blk)
  BY <1>1 DEF CallOK, DescOK
<1>6. Volume(t).used = Volume(s).used
      /\ Volume(t).disk = IF s.fd.curr_blk \in Blocks THEN Upd(Volume(s).disk, s.fd.curr_blk, s.fd.buffer) ELSE Volume(s).disk
  BY <1>1, <1>2, <1>3 DEF FlushRel
<1>7. Vol(role, Volume(t)) /\ Frame(role, Volume(s), role, Volume(t), s.fd.file)
      /\ PointersSame(role, Volume(s), Volume(t), s.fd.file)
  BY <1>1, <1>3, <1>4, <1>5, <1>6, WriteBlock
<1>8. t.used = s.used /\ t.fd.file = s.fd.file /\ t.fd.inode = s.fd.inode /\ t.fd.curr_blk = s.fd.curr_blk /\ Ident(s.fd, t.fd)
  BY <1>2 DEF FlushRel, Ident, Blk
<1>9. DescOK(role, t.used, t.fd)
  BY <1>3, <1>8 DEF CallOK, DescOK
<1>10. t.inodes = [s.inodes EXCEPT ![s.fd.file] = s.fd.inode] /\ s.inodes \in [Files -> Inode]
  BY <1>1, <1>2, CallIs DEF FlushRel
<1>11. NodesOK(role, t.used, t.inodes)
  BY <1>8, <1>10 DEF CallOK, NodesOK, DescOK
<1>12. OthersKept(s, t)
  BY <1>10 DEF OthersKept
<1>13. CallOK(role, t)
  BY <1>2, <1>7, <1>9, <1>11 DEF CallOK
<1>14. Goes(role, s, role, t)
  BY <1>7, <1>8, <1>12, <1>13 DEF Goes
<1>. QED
  BY <1>2, <1>7, <1>14 DEF t

(* What holds of the numbers and the inodes of every file goes on holding. *)
LEMMA InodeFramed ==
  ASSUME NEW role, NEW v, NEW role2, NEW w, NEW g, Frame(role, v, role2, w, g),
         NEW f, NEW ino, InodeOK(role, v.used, f, ino)
  PROVE  InodeOK(role2, w.used, f, ino)
<1>1. ASSUME NEW p, NEW b, Holds(role, v.used, f, p, b) PROVE Holds(role2, w.used, f, p, b)
  BY <1>1, HoldsStays
<1>. QED
  BY <1>1 DEF InodeOK

(* The block in the buffer of another file stays its block. *)
LEMMA BlkFramed ==
  ASSUME NEW role, NEW v, NEW role2, NEW w, NEW g, Frame(role, v, role2, w, g),
         NEW f, NEW b, BlkOK(role, v.used, f, b)
  PROVE  BlkOK(role2, w.used, f, b)
  BY HoldsStays DEF BlkOK

(* set_bit: a block that was free is there for the place p of f. *)
LEMMA MarkNew ==
  ASSUME NEW role, NEW v \in Volumes, Vol(role, v), NEW f \in Files, NEW p \in Spots, ~Inner(p),
         NEW new \in Blocks, new \notin v.used,
         NEW w, w = [used |-> v.used \cup {new}, disk |-> v.disk], NEW role2, role2 = [role EXCEPT ![new] = <<f, p>>]
  PROVE  Kept(role, v, role2, w, f) /\ Holds(role2, w.used, f, p, new)
<1>1. v.used \in SUBSET Blocks /\ v.disk \in [Blocks -> Buffer \cup Pointers] /\ 0 \in v.used
  BY DEF Volumes, Vol
<1>2. new # 0
  BY <1>1
<1>3. w.used = v.used \cup {new} /\ w.disk = v.disk
  OBVIOUS
<1>4. w \in Volumes
  BY <1>1 DEF Volumes
<1>6. role \in [Blocks -> (Files \cup {NoFile}) \X Spots]
  BY DEF Vol
<1>8. role2 \in [Blocks -> (Files \cup {NoFile}) \X Spots] /\ role2[new] = <<f, p>>
      /\ \A c \in Blocks \ {new} : role2[c] = role[c]
  BY <1>6
<1>9. Frame(role, v, role2, w, f)
  BY <1>1, <1>3, <1>8 DEF Frame
<1>10. DataKept(role, v, w)
  BY <1>3 DEF DataKept
<1>11. ASSUME NEW c \in w.used \ {0} PROVE BlockOK(role2, w, c)
  <2>1. CASE c = new
    <3>1. role2[c][1] = f /\ role2[c][2] = p
      BY <2>1, <1>8
    <3>2. w.disk[c] \in Buffer
      BY <2>1, <1>3 DEF Vol
    <3>. QED
      BY <3>1, <3>2 DEF BlockOK
  <2>2. CASE c # new
    <3>1. c \in v.used \ {0} /\ c \in Blocks
      BY <2>2, <1>1, <1>3
    <3>2. BlockOK(role, v, c)
      BY <3>1 DEF Vol
    <3>3. Unwritten(role, v, role2, w, c)
      BY <3>1, <2>2, <1>3, <1>8 DEF Unwritten
    <3>. QED
      BY <3>2, <3>3, <1>9, BlockStays
  <2>. QED
    BY <2>1, <2>2
<1>12. \A c \in Blocks \ (w.used \ {0}) : w.disk[c] \in Buffer
  BY <1>3 DEF Vol
<1>13. Vol(role2, w)
  BY <1>1, <1>3, <1>4, <1>8, <1>11, <1>12 DEF Volumes, Vol
<1>14. Holds(role2, w.used, f, p, new)
  BY <1>2, <1>3, <1>8 DEF Holds
<1>. QED
  BY <1>4, <1>9, <1>10, <1>13, <1>14 DEF Kept

ExtendedRel(s, t, log, b, r) ==
  /\ t.used = r.vol.used /\ t.disk = r.vol.disk
  /\ t.inodes = IF r.put THEN [s.inodes EXCEPT ![s.fd.file] = r.inode] ELSE s.inodes
  /\ t.ok = (r.ret = 0)
  /\ Ident(s.fd, t.fd) /\ Pos(s.fd, t.fd) /\ t.fd.inode = r.inode /\ t.fd.dirty = s.fd.dirty /\ t.fd.buffer = s.fd.buffer
  /\ t.fd.curr_log = log /\ t.fd.curr_blk = IF r.ret = 0 THEN b ELSE s.fd.curr_blk

(* What Extended does. *)
LEMMA ExtendedIs ==
  ASSUME NEW s \in Calls, NEW log \in Nat, NEW b \in Numbers, NEW r, r.vol \in Volumes, r.inode \in Inode
  PROVE  Extended(s, log, b, r) \in Calls /\ ExtendedRel(s, Extended(s, log, b, r), log, b, r)
<1> DEFINE fd1 == [s.fd EXCEPT !.inode = r.inode]
           fd2 == [fd1 EXCEPT !.curr_log = log]
           fd3 == [fd2 EXCEPT !.curr_blk = IF r.ret = 0 THEN b ELSE s.fd.curr_blk]
           nodes == [s.inodes EXCEPT ![s.fd.file] = IF r.put THEN r.inode ELSE s.inodes[s.fd.file]]
           t == [s EXCEPT !.used = r.vol.used, !.disk = r.vol.disk, !.fd = fd3, !.inodes = nodes, !.ok = (r.ret = 0)]
<1>1. s.fd \in Descriptor /\ s.inodes \in [Files -> Inode] /\ s.fd.curr_blk \in Numbers /\ s.fd.file \in Files
  BY CallIs, FieldsAre
<1>2. Extended(s, log, b, r) = t
  <2>1. fd1.curr_blk = s.fd.curr_blk /\ fd2.curr_blk = s.fd.curr_blk
    BY <1>1 DEF Descriptor
  <2>. QED
    BY <1>1, <2>1 DEF Extended, Calls, Descriptor
<1>3. fd1 \in Descriptor
  BY <1>1 DEF Descriptor
<1>4. Ident(s.fd, fd1) /\ Pos(s.fd, fd1) /\ fd1.inode = r.inode /\ fd1.dirty = s.fd.dirty /\ fd1.buffer = s.fd.buffer /\ fd1.curr_blk = s.fd.curr_blk
  BY <1>1 DEF Descriptor, Ident, Pos
<1> HIDE DEF fd1
<1>5. fd2 \in Descriptor
  BY <1>3 DEF Descriptor
<1>6. Ident(fd1, fd2) /\ Pos(fd1, fd2) /\ fd2.inode = fd1.inode /\ fd2.dirty = fd1.dirty /\ fd2.buffer = fd1.buffer /\ fd2.curr_log = log
  BY <1>3 DEF Descriptor, Ident, Pos
<1> HIDE DEF fd2
<1>7. fd3 \in Descriptor
  BY <1>1, <1>5 DEF Descriptor
<1>8. Ident(fd2, fd3) /\ Pos(fd2, fd3) /\ fd3.inode = fd2.inode /\ fd3.dirty = fd2.dirty /\ fd3.buffer = fd2.buffer
      /\ fd3.curr_log = fd2.curr_log /\ fd3.curr_blk = IF r.ret = 0 THEN b ELSE s.fd.curr_blk
  BY <1>5 DEF Descriptor, Ident, Pos
<1> HIDE DEF fd3
<1>9. nodes \in [Files -> Inode] /\ nodes = IF r.put THEN [s.inodes EXCEPT ![s.fd.file] = r.inode] ELSE s.inodes
  BY <1>1
<1> HIDE DEF nodes
<1>10. t \in Calls /\ t.used = r.vol.used /\ t.disk = r.vol.disk /\ t.inodes = nodes /\ t.fd = fd3 /\ t.ok = (r.ret = 0)
  BY <1>7, <1>9 DEF Calls, Volumes
<1>11. Ident(s.fd, fd3) /\ Pos(s.fd, fd3)
  BY <1>4, <1>6, <1>8 DEF Ident, Pos
<1> HIDE DEF t
<1>12. t.fd.inode = r.inode /\ t.fd.dirty = s.fd.dirty /\ t.fd.buffer = s.fd.buffer /\ t.fd.curr_log = log
  BY <1>4, <1>6, <1>8, <1>10
<1>13. t.fd.curr_blk = IF r.ret = 0 THEN b ELSE s.fd.curr_blk
  BY <1>8, <1>10
<1>14. ExtendedRel(s, t, log, b, r)
  BY <1>9, <1>10, <1>11, <1>12, <1>13 DEF ExtendedRel
<1>. QED
  BY <1>2, <1>10, <1>14

(* What Extend does to the map of a file in order *)
NewNamed(us, dk, ino, us2) == \A c \in us2 \ us : us2 = Blocks \/ Names(dk, ino, c)
Gained(s, role2, t, i) ==
  /\ AtKept(s.disk, s.fd.inode, t.disk, t.fd.inode)
  /\ AtFree(s.disk, s.fd.inode, t.disk, t.fd.inode, Spot(i))
  /\ FullIfNeg(t.used, t.disk, t.fd.inode)
  /\ t.ok => /\ At(t.disk, t.fd.inode, Spot(i)) = t.fd.curr_blk \/ At(t.disk, t.fd.inode, Spot(i)) < 0
             /\ t.fd.curr_blk > 0 /\ Holds(role2, t.used, t.fd.file, Spot(i), t.fd.curr_blk)
  /\ ~t.ok => t.used = Blocks /\ At(t.disk, t.fd.inode, Spot(i)) < 0
  /\ NewNamed(s.used, t.disk, t.fd.inode, t.used)
ExtendRel(role, s, role2, t, i) ==
  /\ Ident(s.fd, t.fd) /\ Pos(s.fd, t.fd) /\ t.fd.dirty = s.fd.dirty /\ t.fd.buffer = s.fd.buffer
  /\ t.fd.inode.size = s.fd.inode.size /\ t.fd.curr_log = i
  /\ DataKept(role, Volume(s), Volume(t))
  /\ Fine(Volume(s), s.fd.inode, i) => Gained(s, role2, t, i)

(* Extend, when a block is free, leaves all in order: the map names what   *)
(* is taken.                                                               *)
LEMMA ExtendGoes ==
  ASSUME NEW role, NEW s, CallOK(role, s), s.used # Blocks, NEW i \in Nat
  PROVE  \E role2 : Goes(role, s, role2, Extend(s, i)) /\ ExtendRel(role, s, role2, Extend(s, i), i)
<1> DEFINE b == FirstCleared(s.used)
           u == [used |-> s.used \cup {b}, disk |-> s.disk]
           f == s.fd.file
           r == SetPhys(u, s.fd.inode, i, b)
           t == Extended(s, i, b, r)
           role1 == [role EXCEPT ![b] = <<f, Spot(i)>>]
<1>1. Extend(s, i) = t
  BY DEF Extend
<1>2. s \in Calls /\ s.fd \in Descriptor /\ Volume(s) \in Volumes /\ Volume(s).used = s.used /\ Volume(s).disk = s.disk
      /\ s.used \in SUBSET Blocks /\ Vol(role, Volume(s))
  BY CallIs DEF CallOK
<1>3. b \in Blocks /\ b \notin s.used
  BY <1>2, FirstClearedIs
<1>4. f \in Files
  BY <1>2, FieldsAre
<1>5. Spot(i) \in Spots /\ ~Inner(Spot(i))
  BY SpotIs
<1>6. u.used = s.used \cup {b} /\ u.disk = s.disk
  OBVIOUS
<1> HIDE DEF b, f
<1>7. u = [used |-> Volume(s).used \cup {b}, disk |-> Volume(s).disk]
  BY <1>2
<1>8. role1 = [role EXCEPT ![b] = <<f, Spot(i)>>]
  OBVIOUS
<1> HIDE DEF u, role1
<1>9. Kept(role, Volume(s), role1, u, f) /\ Holds(role1, u.used, f, Spot(i), b)
  BY <1>2, <1>3, <1>4, <1>5, <1>7, <1>8, MarkNew
<1>10. u \in Volumes /\ Vol(role1, u) /\ Frame(role, Volume(s), role1, u, f) /\ DataKept(role, Volume(s), u)
  BY <1>9 DEF Kept
<1>11. InodeOK(role, Volume(s).used, f, s.fd.inode)
  BY <1>2 DEF CallOK, DescOK, f
<1>12. InodeOK(role1, u.used, f, s.fd.inode)
  BY <1>10, <1>11, InodeFramed
<1>13. b \notin {0, -1, -2} /\ b > 0 /\ b \in Numbers
  <2>1. 0 \in s.used
    BY <1>2 DEF Vol
  <2>2. b \in Nat /\ b # 0 /\ b \in Numbers
    BY <2>1, <1>3, BlocksAre
  <2>. QED
    BY <2>2
<1>14. PhysSet(role1, u, s.fd.inode, r, f, i, b)
  BY <1>4, <1>9, <1>10, <1>12, <1>13, SetPhysOK
<1> HIDE DEF r
<1>15. PICK role2 : /\ Kept(role1, u, role2, r.vol, f)
                    /\ InodeOK(role2, r.vol.used, f, r.inode)
                    /\ r.inode.size = s.fd.inode.size
                    /\ r.ret \in {0, -1, -2}
                    /\ Fine(u, s.fd.inode, i) => Added(u, s.fd.inode, role2, r.vol, r.inode, r.ret, f, Spot(i), b)
  BY <1>14 DEF PhysSet
<1>16. r.vol \in Volumes /\ r.inode \in Inode
  BY <1>15 DEF Kept, InodeOK
<1>17. t \in Calls /\ ExtendedRel(s, t, i, b, r)
  BY <1>2, <1>13, <1>16, ExtendedIs
<1> HIDE DEF t
<1>18. Volume(t).used = t.used /\ Volume(t).disk = t.disk /\ Volume(t) \in Volumes /\ t.fd \in Descriptor
  BY <1>17, CallIs
<1>19. t.used = r.vol.used /\ t.disk = r.vol.disk /\ Volume(t) = r.vol
  <2>1. r.vol = [used |-> r.vol.used, disk |-> r.vol.disk]
    BY <1>16 DEF Volumes
  <2>2. t.used = r.vol.used /\ t.disk = r.vol.disk
    BY <1>17 DEF ExtendedRel
  <2>. QED
    BY <2>1, <2>2 DEF Volume
<1>20. Kept(role, Volume(s), role2, Volume(t), f)
  BY <1>9, <1>15, <1>19, KeptTrans
<1>21. Vol(role2, Volume(t)) /\ Frame(role, Volume(s), role2, Volume(t), f) /\ DataKept(role, Volume(s), Volume(t))
  BY <1>20 DEF Kept
<1>22. Holds(role2, t.used, f, Spot(i), b)
  BY <1>9, <1>15, <1>19, KeptHolds
<1>23. t.fd.inode = r.inode /\ Ident(s.fd, t.fd) /\ t.fd.file = f /\ t.fd.curr_blk = IF r.ret = 0 THEN b ELSE s.fd.curr_blk
  BY <1>17 DEF ExtendedRel, Ident, f
<1>24. DescOK(role2, t.used, t.fd)
  <2>1. InodeOK(role2, t.used, f, t.fd.inode)
    BY <1>15, <1>19, <1>23
  <2>2. BlkOK(role2, t.used, f, b)
    BY <1>5, <1>22 DEF BlkOK
  <2>3. BlkOK(role, Volume(s).used, f, s.fd.curr_blk)
    BY <1>2 DEF CallOK, DescOK, f
  <2>4. BlkOK(role2, Volume(t).used, f, s.fd.curr_blk)
    BY <1>21, <2>3, BlkFramed
  <2>5. BlkOK(role2, t.used, f, t.fd.curr_blk)
    BY <2>2, <2>4, <1>18, <1>23
  <2>. QED
    BY <2>1, <2>5, <1>18, <1>23 DEF DescOK
<1>25. NodesOK(role2, t.used, t.inodes)
  <2>1. ASSUME NEW g \in Files PROVE InodeOK(role2, Volume(t).used, g, s.inodes[g])
    <3>1. InodeOK(role, Volume(s).used, g, s.inodes[g])
      BY <1>2 DEF CallOK, NodesOK
    <3>. QED
      BY <3>1, <1>21, InodeFramed
  <2>2. t.inodes = IF r.put THEN [s.inodes EXCEPT ![s.fd.file] = r.inode] ELSE s.inodes
    BY <1>17 DEF ExtendedRel
  <2>3. s.inodes \in [Files -> Inode]
    BY <1>2, CallIs
  <2>. QED
    BY <2>1, <2>2, <2>3, <1>15, <1>18, <1>19 DEF NodesOK, f
<1>26. OthersKept(s, t)
  <2>1. s.inodes \in [Files -> Inode]
    BY <1>2, CallIs
  <2>. QED
    BY <2>1, <1>17 DEF ExtendedRel, OthersKept
<1>27. Goes(role, s, role2, t)
  BY <1>17, <1>21, <1>23, <1>24, <1>25, <1>26 DEF Goes, CallOK, f
<1>28. ASSUME Fine(Volume(s), s.fd.inode, i) PROVE Gained(s, role2, t, i)
  <2>1. Fine(u, s.fd.inode, i)
    BY <1>2, <1>6, <1>28 DEF Fine
  <2>2. Added(u, s.fd.inode, role2, r.vol, r.inode, r.ret, f, Spot(i), b)
    BY <2>1, <1>15
  <2> DEFINE x == At(t.disk, t.fd.inode, Spot(i))
  <2>3. /\ AtKept(s.disk, s.fd.inode, t.disk, t.fd.inode)
        /\ AtFree(s.disk, s.fd.inode, t.disk, t.fd.inode, Spot(i))
        /\ FullIfNeg(t.used, t.disk, t.fd.inode)
        /\ x = b \/ x < 0
        /\ r.ret = 0 \/ (r.ret < 0 /\ t.used = Blocks /\ x < 0)
        /\ NoneLost(u, role2, r.vol, t.fd.inode, f)
    BY <2>2, <1>6, <1>19, <1>23 DEF Added
  <2>4. t.ok = (r.ret = 0)
    BY <1>17 DEF ExtendedRel
  <2>5. t.ok => (x = t.fd.curr_blk \/ x < 0) /\ t.fd.curr_blk > 0 /\ Holds(role2, t.used, t.fd.file, Spot(i), t.fd.curr_blk)
    BY <2>3, <2>4, <1>13, <1>22, <1>23
  <2>6. ~t.ok => t.used = Blocks /\ x < 0
    BY <2>3, <2>4
  <2>7. Spot(i) \in Place
    BY <2>1, SpotPlace DEF Fine
  <2>9. NewNamed(s.used, t.disk, t.fd.inode, t.used)
    <3>1. ASSUME NEW c \in t.used \ s.used, t.used # Blocks PROVE Names(t.disk, t.fd.inode, c)
      <4>1. CASE c = b
        <5>1. ~(x < 0)
          BY <2>3, <2>7, <3>1 DEF FullIfNeg
        <5>. QED
          BY <5>1, <2>3, <2>7, <4>1 DEF Names
      <4>2. CASE c # b
        <5>1. c \in r.vol.used \ u.used
          BY <4>2, <3>1, <1>6, <1>19
        <5>. QED
          BY <5>1, <2>3, <3>1, <1>19 DEF NoneLost
      <4>. QED
        BY <4>1, <4>2
    <3>. QED
      BY <3>1 DEF NewNamed
  <2>. QED
    BY <2>3, <2>5, <2>6, <2>9 DEF Gained
<1>29. ExtendRel(role, s, role2, t, i)
  <2>1. Ident(s.fd, t.fd) /\ Pos(s.fd, t.fd) /\ t.fd.dirty = s.fd.dirty /\ t.fd.buffer = s.fd.buffer /\ t.fd.curr_log = i
    BY <1>17 DEF ExtendedRel
  <2>. QED
    BY <2>1, <1>15, <1>21, <1>23, <1>28 DEF ExtendRel
<1>. QED
  BY <1>1, <1>27, <1>29

(* A call that finds the volume full gives up, and that is all. *)
GaveUp(s, t) == t.used = s.used /\ t.disk = s.disk /\ t.inodes = s.inodes /\ t.fd = s.fd /\ ~t.ok
(* When none is free it takes nothing. *)
LEMMA ExtendFull ==
  ASSUME NEW role, NEW s, CallOK(role, s), s.used = Blocks, NEW i
  PROVE  Goes(role, s, role, Extend(s, i)) /\ GaveUp(s, Extend(s, i))
<1> DEFINE t == [s EXCEPT !.ok = FALSE]
<1>1. Extend(s, i) = t
  BY DEF Extend
<1>2. s \in Calls
  BY DEF CallOK
<1>3. t \in Calls /\ t.used = s.used /\ t.disk = s.disk /\ t.inodes = s.inodes /\ t.fd = s.fd /\ t.ok = FALSE
  BY <1>2 DEF Calls
<1> HIDE DEF t
<1>4. DescOK(role, t.used, t.fd) /\ Ident(s.fd, t.fd)
  BY <1>3 DEF CallOK, Ident
<1>5. Goes(role, s, role, t)
  BY <1>3, <1>4, GoesPlain
<1>. QED
  BY <1>1, <1>3, <1>5 DEF GaveUp

(* A file's size has nothing to do with where its blocks are. *)
LEMMA AtSized ==
  ASSUME NEW dk, NEW ino, NEW jno, jno.direct = ino.direct, jno.root = ino.root
  PROVE  \A p : At(dk, jno, p) = At(dk, ino, p)
  BY DEF At

(* An inode of another size. *)
LEMMA InodeSized ==
  ASSUME NEW role, NEW us, NEW f, NEW ino, InodeOK(role, us, f, ino), NEW n \in 0 .. MaxSize,
         NEW jno, jno = [ino EXCEPT !.size = n]
  PROVE  InodeOK(role, us, f, jno) /\ jno.size = n /\ jno.direct = ino.direct /\ jno.root = ino.root
<1>1. ino \in Inode
  BY DEF InodeOK
<1>2. jno \in Inode /\ jno.size = n /\ jno.direct = ino.direct /\ jno.root = ino.root
  BY <1>1 DEF Inode
<1>. QED
  BY <1>2 DEF InodeOK

(* A file that grows inside its last block needs no other blocks. *)
LEMMA MappedNear ==
  ASSUME NEW dk, NEW ino, NEW k \in Nat, NEW m \in Nat, NEW n \in Nat,
         Times(k) < m, m <= n, n <= Times(k) + Bytes, Mapped(dk, ino, m)
  PROVE  Mapped(dk, ino, n)
<1>1. Starts[4] \in Nat
  BY StartsAre
<1>2. ASSUME NEW j \in 0 .. Starts[4] - 1 PROVE Times(j) < m <=> Times(j) < n
  <2>1. Times(j) \in Nat /\ Times(k) \in Nat /\ Bytes \in Nat
    BY <1>1, TimesIs
  <2>2. CASE j < k
    <3>1. Times(j) + Bytes <= Times(k)
      BY <2>2, <1>1, TimesBelow
    <3>. QED
      BY <2>1, <3>1
  <2>3. CASE j = k
    BY <2>1, <2>3
  <2>4. CASE k < j
    <3>1. Times(k) + Bytes <= Times(j)
      BY <2>4, <1>1, TimesBelow
    <3>. QED
      BY <2>1, <3>1
  <2>. QED
    BY <2>2, <2>3, <2>4, <1>1
<1>. QED
  BY <1>2 DEF Mapped

(* What a map shows is the same when it finds the same. *)
LEMMA MapSame ==
  ASSUME NEW v, NEW w, NEW ino, NEW jno, \A p \in Place : At(w.disk, jno, p) = At(v.disk, ino, p)
  PROVE  /\ \A m : Mapped(v.disk, ino, m) => Mapped(w.disk, jno, m)
         /\ \A us : FullIfNeg(us, v.disk, ino) => FullIfNeg(us, w.disk, jno)
         /\ \A role, us, f : AllNamed(role, us, v.disk, ino, f) => AllNamed(role, us, w.disk, jno, f)
<1>1. \A j \in 0 .. Starts[4] - 1 : Spot(j) \in Place
  BY StartsAre, SpotPlace
<1>2. \A m : Mapped(v.disk, ino, m) => Mapped(w.disk, jno, m)
  BY <1>1 DEF Mapped
<1>3. \A us : FullIfNeg(us, v.disk, ino) => FullIfNeg(us, w.disk, jno)
  BY DEF FullIfNeg
<1>4. \A b : Names(v.disk, ino, b) => Names(w.disk, jno, b)
  BY DEF Names
<1>5. \A role, us, f : AllNamed(role, us, v.disk, ino, f) => AllNamed(role, us, w.disk, jno, f)
  BY <1>4 DEF AllNamed
<1>. QED
  BY <1>2, <1>3, <1>5

(* The block of a byte of the file *)
ByteBlock(role, us, f, j, x) == x \in Int /\ (x < 0 \/ (x \in us \ {0} /\ x > 0 /\ role[x] = <<f, Spot(j)>>))
(* The map of a file has a block, or a code, for each position below its   *)
(* size.                                                                   *)
LEMMA MapNumber ==
  ASSUME NEW role, NEW v \in Volumes, Vol(role, v), NEW f, NEW ino, InodeOK(role, v.used, f, ino),
         NEW m \in Nat, m <= MaxSize, Mapped(v.disk, ino, m), NEW p \in Nat, p < m
  PROVE  /\ p \div Bytes \in 0 .. Starts[4] - 1 /\ p % Bytes \in 0 .. Bytes - 1
         /\ p = Times(p \div Bytes) + (p % Bytes)
         /\ ByteBlock(role, v.used, f, p \div Bytes, At(v.disk, ino, Spot(p \div Bytes)))
<1> DEFINE j == p \div Bytes
           x == At(v.disk, ino, Spot(j))
<1>1. MaxSize \in Nat
  BY SfsFileAssumption DEF SfsFileAssumption
<1>2. j \in Nat /\ p % Bytes \in 0 .. Bytes - 1 /\ p = Times(j) + (p % Bytes)
  BY TimesDiv
<1>3. p < MaxSize
  BY <1>1
<1>4. j \in 0 .. Starts[4] - 1
  BY <1>3, PositionInMap
<1>5. Spot(j) \in Place
  BY <1>4, StartsAre, SpotPlace
<1> HIDE DEF j
<1>6. NumberAt(role, v.used, f, Spot(j), x)
  BY <1>5, AtHolds
<1>7. Times(j) < m
  <2>1. Times(j) \in Nat /\ Bytes \in Nat
    BY <1>2, TimesIs
  <2>. QED
    BY <2>1, <1>2
<1>8. x # 0
  BY <1>4, <1>7 DEF Mapped
<1> HIDE DEF x
<1>9. ByteBlock(role, v.used, f, j, x)
  BY <1>6, <1>8 DEF ByteBlock, NumberAt
<1>. QED
  BY <1>2, <1>4, <1>9 DEF j, x

(* Block k has been saved: nothing depends on the buffer any more. *)
LEMMA SaveData ==
  ASSUME NEW role, NEW v \in Volumes, Vol(role, v), NEW f \in Files, NEW ino, InodeOK(role, v.used, f, ino),
         NEW b, BlkOK(role, v.used, f, b), NEW buf \in Buffer,
         NEW w \in Volumes, w.used = v.used, w.disk = IF b \in Blocks THEN Upd(v.disk, b, buf) ELSE v.disk,
         NEW k \in Nat, Buffered(role, v.used, v.disk, ino, f, k, b, buf),
         NEW dirty, MapOK(role, v.used, v.disk, ino, f, dirty, b)
  PROVE  MapOK(role, w.used, w.disk, ino, f, FALSE, 0)
<1>1. PointersSame(role, v, w, f)
  BY WriteBlock
<1>2. AtsSame(v, w, ino)
  BY <1>1, AtSame
<1>3. Mapped(v.disk, ino, ino.size) /\ DataRight(v.disk, ino, f, dirty, b)
  BY DEF MapOK, MapTo
<1>4. Mapped(w.disk, ino, ino.size) /\ FullIfNeg(w.used, w.disk, ino) /\ AllNamed(role, w.used, w.disk, ino, f)
  BY <1>2, MapSame DEF MapOK, MapTo, AtsSame
<1>5. v.disk \in [Blocks -> Buffer \cup Pointers] /\ v.used \in SUBSET Blocks
  BY DEF Volumes
<1>6. ino.size \in Nat /\ ino.size <= MaxSize
  BY SfsFileAssumption DEF InodeOK, Inode, SfsFileAssumption
<1>7. ASSUME NEW p \in 0 .. ino.size - 1 PROVE ByteOn(w.disk, ino, f, p)
  <2> DEFINE j == p \div Bytes
             x == At(v.disk, ino, Spot(j))
  <2>0. p \in Nat /\ p < ino.size
    BY <1>6
  <2>1. /\ j \in 0 .. Starts[4] - 1 /\ p % Bytes \in 0 .. Bytes - 1 /\ p = Times(j) + (p % Bytes)
        /\ ByteBlock(role, v.used, f, j, x)
    BY <2>0, <1>3, <1>6, MapNumber
  <2>2. At(w.disk, ino, Spot(j)) = x
    BY <2>1, <1>2, StartsAre, SpotPlace DEF AtsSame
  <2>3. CASE x < 0
    BY <2>2, <2>3 DEF ByteOn
  <2>4. CASE ~(x < 0)
    <3>1. x \in v.used \ {0} /\ x > 0 /\ role[x] = <<f, Spot(j)>> /\ x \in Blocks
      BY <2>1, <2>4, <1>5 DEF ByteBlock
    <3>2. ~(x < 0)
      BY <2>4
    <3>3. CASE x = b
      <4>1. b \notin {0, -1, -2} /\ Holds(role, v.used, f, Spot(k), b)
        BY <3>1, <3>3 DEF Buffered
      <4>2. role[b] = <<f, Spot(k)>>
        BY <4>1 DEF Holds
      <4>3. Spot(j) = Spot(k)
        BY <4>2, <3>1, <3>3
      <4>4. j = k
        BY <4>3, <2>1, StartsAre, SpotTells
      <4>5. InBuffer(buf, ino.size, f, k)
        BY <4>3, <3>2 DEF Buffered
      <4>6. buf[p % Bytes] = <<f, p>>
        BY <4>4, <4>5, <2>0, <2>1 DEF InBuffer
      <4>7. w.disk[x] = buf
        BY <3>1, <3>3, <1>5 DEF Upd
      <4>. QED
        BY <4>6, <4>7, <2>2 DEF ByteOn
    <3>4. CASE x # b
      <4>1. w.disk[x] = v.disk[x]
        BY <3>1, <3>4, <1>5 DEF Upd
      <4>2. ByteOn(v.disk, ino, f, p)
        BY <3>4, <1>3 DEF DataRight
      <4>. QED
        BY <4>1, <4>2, <2>2 DEF ByteOn
    <3>. QED
      BY <3>3, <3>4
  <2>. QED
    BY <2>3, <2>4
<1>8. DataRight(w.disk, ino, f, FALSE, 0)
  BY <1>7 DEF DataRight
<1>. QED
  BY <1>4, <1>8 DEF MapOK, MapTo

(* Block k read from the disk *)
LEMMA LoadData ==
  ASSUME NEW role, NEW v \in Volumes, Vol(role, v), NEW f, NEW ino, InodeOK(role, v.used, f, ino),
         MapOK(role, v.used, v.disk, ino, f, FALSE, 0),
         NEW k \in 0 .. Starts[4] - 1, NEW b, b = At(v.disk, ino, Spot(k)), NEW buf, b \in Blocks => buf = v.disk[b]
  PROVE  Buffered(role, v.used, v.disk, ino, f, k, b, buf)
<1>1. Mapped(v.disk, ino, ino.size) /\ DataRight(v.disk, ino, f, FALSE, 0)
  BY DEF MapOK, MapTo
<1>2. Spot(k) \in Place
  BY StartsAre, SpotPlace
<1>3. NumberAt(role, v.used, f, Spot(k), b)
  BY <1>2, AtHolds
<1>4. ino.size \in Nat /\ ino.size <= MaxSize
  BY SfsFileAssumption DEF InodeOK, Inode, SfsFileAssumption
<1>5. ASSUME ~(b < 0), NEW q \in 0 .. Bytes - 1, Times(k) + q < ino.size PROVE buf[q] = <<f, Times(k) + q>>
  <2> DEFINE p == Times(k) + q
  <2>1. k \in Nat /\ Times(k) \in Nat /\ Bytes \in Nat
    BY StartsAre, TimesIs
  <2>2. p \in Nat /\ p < ino.size /\ Times(k) <= p /\ p < Times(k) + Bytes /\ q = p - Times(k)
    BY <2>1, <1>5
  <2> HIDE DEF p
  <2>3. p \div Bytes = k /\ p % Bytes = q
    BY <2>1, <2>2, TimesTells
  <2>4. p \in 0 .. ino.size - 1
    BY <2>2, <1>4
  <2>5. ByteOn(v.disk, ino, f, p)
    BY <2>4, <1>1 DEF DataRight
  <2>6. v.disk[b][q] = <<f, p>>
    BY <2>3, <2>5, <1>5 DEF ByteOn
  <2>7. b \in Blocks
    <3>1. ByteBlock(role, v.used, f, k, b)
      BY <2>2, <2>3, <1>1, <1>4, MapNumber
    <3>. QED
      BY <3>1, <1>5 DEF ByteBlock, Volumes
  <2>. QED
    BY <2>6, <2>7 DEF p
<1>6. b < 0 \/ InBuffer(buf, ino.size, f, k)
  BY <1>5 DEF InBuffer
<1>. QED
  BY <1>3, <1>6 DEF Buffered, NumberAt

(* A file whose map is in order, with room on the volume, can grow. *)
LEMMA GrowFine ==
  ASSUME NEW role, NEW v \in Volumes, Vol(role, v), NEW f, NEW ino, InodeOK(role, v.used, f, ino),
         NEW m, MapTo(role, v.used, v.disk, ino, f, FALSE, 0, m), v.used # Blocks,
         NEW i \in 0 .. Starts[4] - 1, ~(Times(i) < m)
  PROVE  Fine(v, ino, i)
<1>1. Spot(i) \in Place /\ i < Starts[4]
  BY StartsAre, SpotPlace
<1>2. \A p \in Place : NumberAt(role, v.used, f, p, At(v.disk, ino, p))
  BY AtHolds
<1>3. \A p \in Place : At(v.disk, ino, p) >= 0
  BY <1>2 DEF NumberAt, MapTo, FullIfNeg
<1>4. At(v.disk, ino, Spot(i)) <= 0
  BY DEF MapTo, Mapped
<1>5. At(v.disk, ino, Spot(i)) = 0
  BY <1>1, <1>2, <1>3, <1>4 DEF NumberAt
<1>. QED
  BY <1>1, <1>3, <1>5 DEF Fine

(* The map with block i added: it reaches one position further. *)
LEMMA GrowData ==
  ASSUME NEW role, NEW s, CallOK(role, s), NEW i \in 0 .. Starts[4] - 1, s.fd.inode.size = Times(i),
         MapOK(role, s.used, s.disk, s.fd.inode, s.fd.file, FALSE, 0), s.used # Blocks,
         NEW role2, NEW t, Goes(role, s, role2, t), t.fd.inode.size = s.fd.inode.size,
         DataKept(role, Volume(s), Volume(t)), Gained(s, role2, t, i)
  PROVE  /\ t.ok => MapTo(role2, t.used, t.disk, t.fd.inode, t.fd.file, FALSE, 0, s.fd.inode.size + 1)
         /\ ~t.ok => MapOK(role2, t.used, t.disk, t.fd.inode, t.fd.file, FALSE, 0)
<1> DEFINE f == s.fd.file
           ino == s.fd.inode
           jno == t.fd.inode
           n == ino.size
           v == Volume(s)
           w == Volume(t)
<1>1. s \in Calls /\ v \in Volumes /\ v.used = s.used /\ v.disk = s.disk /\ s.fd \in Descriptor /\ s.used \in SUBSET Blocks
  BY CallIs DEF CallOK
<1>2. Vol(role, v) /\ InodeOK(role, v.used, f, ino)
  BY <1>1 DEF CallOK, DescOK
<1>3. CallOK(role2, t) /\ t.fd.file = f /\ Frame(role, v, role2, w, f)
  BY DEF Goes, Ident
<1>4. t \in Calls /\ w \in Volumes /\ w.used = t.used /\ w.disk = t.disk /\ t.used \in SUBSET Blocks
  BY <1>3, CallIs DEF CallOK
<1>5. n \in Nat /\ n <= MaxSize
  BY <1>1, FieldsAre
<1>6. MapOK(role, v.used, v.disk, ino, f, FALSE, 0)
  BY <1>1
<1>7. Mapped(v.disk, ino, n) /\ FullIfNeg(v.used, v.disk, ino) /\ AllNamed(role, v.used, v.disk, ino, f) /\ DataRight(v.disk, ino, f, FALSE, 0)
  BY <1>6 DEF MapOK, MapTo
<1>8. \A p \in Place : NumberAt(role, v.used, f, p, At(v.disk, ino, p))
  BY <1>1, <1>2, AtHolds
<1>9. \A p \in Place : At(v.disk, ino, p) >= 0 /\ At(v.disk, ino, p) \in Int
  BY <1>1, <1>7, <1>8 DEF NumberAt, FullIfNeg
<1>10. \A j \in 0 .. Starts[4] - 1 : Spot(j) \in Place /\ ~Inner(Spot(j)) /\ (j # i => Spot(j) # Spot(i))
  BY StartsAre, SpotPlace, SpotTells
<1>11. /\ \A p \in Place : At(v.disk, ino, p) > 0 => At(w.disk, jno, p) = At(v.disk, ino, p)
       /\ \A p \in Place : ~Inner(p) /\ p # Spot(i) /\ At(v.disk, ino, p) = 0 => At(w.disk, jno, p) <= 0
       /\ FullIfNeg(w.used, w.disk, jno) /\ NewNamed(v.used, w.disk, jno, w.used)
       /\ t.ok => t.fd.curr_blk > 0 /\ (At(w.disk, jno, Spot(i)) = t.fd.curr_blk \/ At(w.disk, jno, Spot(i)) < 0)
       /\ ~t.ok => At(w.disk, jno, Spot(i)) < 0
  BY <1>1, <1>4 DEF Gained, AtKept, AtFree
<1>12. n = Times(i)
  OBVIOUS
<1>13. jno.size = n
  OBVIOUS
<1>14. ASSUME NEW j \in 0 .. Starts[4] - 1
       PROVE  /\ Times(j) < n <=> j < i
              /\ Times(j) < n + 1 <=> j <= i
  <2>1. j \in Nat /\ i \in Nat /\ Times(j) \in Nat /\ Times(i) \in Nat /\ Bytes \in Nat \ {0}
    BY StartsAre, TimesIs
  <2>2. CASE j < i
    <3>1. Times(j) + Bytes <= Times(i)
      BY <2>1, <2>2, TimesBelow
    <3>. QED
      BY <2>1, <2>2, <3>1, <1>12
  <2>3. CASE j = i
    BY <2>1, <2>3, <1>12
  <2>4. CASE i < j
    <3>1. Times(i) + Bytes <= Times(j)
      BY <2>1, <2>4, TimesBelow
    <3>. QED
      BY <2>1, <2>4, <3>1, <1>12
  <2>. QED
    BY <2>1, <2>2, <2>3, <2>4
<1> HIDE DEF ino, jno, v, w, f, n
<1>15. ASSUME NEW j \in 0 .. Starts[4] - 1
       PROVE  /\ j < i => At(w.disk, jno, Spot(j)) # 0
              /\ j > i => At(w.disk, jno, Spot(j)) <= 0
  <2>0. j \in Nat /\ i \in Nat
    BY StartsAre
  <2>1. CASE j < i
    <3>1. At(v.disk, ino, Spot(j)) # 0
      BY <2>1, <1>7, <1>14 DEF Mapped
    <3>. QED
      BY <2>0, <2>1, <3>1, <1>9, <1>10, <1>11
  <2>2. CASE j > i
    <3>1. ~(Times(j) < n)
      BY <2>0, <2>2, <1>14
    <3>2. At(v.disk, ino, Spot(j)) <= 0
      BY <3>1, <1>7 DEF Mapped
    <3>3. At(v.disk, ino, Spot(j)) = 0
      BY <3>2, <1>9, <1>10
    <3>. QED
      BY <2>0, <2>2, <3>3, <1>10, <1>11
  <2>. QED
    BY <2>1, <2>2, <2>0
<1>16. t.ok => Mapped(w.disk, jno, n + 1)
  <2>1. ASSUME t.ok, NEW j \in 0 .. Starts[4] - 1
        PROVE  IF Times(j) < n + 1 THEN At(w.disk, jno, Spot(j)) # 0 ELSE At(w.disk, jno, Spot(j)) <= 0
    <3>1. t.ok /\ j \in Nat /\ i \in Nat /\ (Times(j) < n + 1 <=> j <= i)
      BY <2>1, <1>14, StartsAre
    <3>2. At(w.disk, jno, Spot(i)) # 0
      BY <3>1, <1>11
    <3>3. CASE j <= i
      <4>1. At(w.disk, jno, Spot(j)) # 0
        BY <3>1, <3>2, <3>3, <1>15
      <4>. QED
        BY <3>1, <3>3, <4>1
    <3>4. CASE ~(j <= i)
      <4>1. At(w.disk, jno, Spot(j)) <= 0
        BY <3>1, <3>4, <1>15
      <4>. QED
        BY <3>1, <3>4, <4>1
    <3>. QED
      BY <3>3, <3>4
  <2>. QED
    BY <2>1 DEF Mapped
<1>17. ~t.ok => Mapped(w.disk, jno, n)
  <2>1. ASSUME ~t.ok, NEW j \in 0 .. Starts[4] - 1
        PROVE  IF Times(j) < n THEN At(w.disk, jno, Spot(j)) # 0 ELSE At(w.disk, jno, Spot(j)) <= 0
    <3>1. ~t.ok /\ j \in Nat /\ i \in Nat /\ (Times(j) < n <=> j < i)
      BY <2>1, <1>14, StartsAre
    <3>2. At(w.disk, jno, Spot(i)) <= 0
      <4>1. At(w.disk, jno, Spot(i)) < 0
        BY <3>1, <1>11
      <4>2. At(w.disk, jno, Spot(i)) \in Int
        <5>1. InodeOK(role2, w.used, f, jno) /\ Vol(role2, w)
          BY <1>3, <1>4 DEF CallOK, DescOK, jno, w, f
        <5>2. NumberAt(role2, w.used, f, Spot(i), At(w.disk, jno, Spot(i)))
          BY <5>1, <1>4, <1>10, AtHolds
        <5>. QED
          BY <5>2 DEF NumberAt
      <4>. QED
        BY <4>1, <4>2
    <3>3. CASE j < i
      <4>1. At(w.disk, jno, Spot(j)) # 0
        BY <3>1, <3>3, <1>15
      <4>. QED
        BY <3>1, <3>3, <4>1
    <3>4. CASE ~(j < i)
      <4>1. At(w.disk, jno, Spot(j)) <= 0
        BY <3>1, <3>2, <3>4, <1>15
      <4>. QED
        BY <3>1, <3>4, <4>1
    <3>. QED
      BY <3>3, <3>4
  <2>. QED
    BY <2>1 DEF Mapped
<1>18. AllNamed(role2, w.used, w.disk, jno, f)
  <2>1. SUFFICES ASSUME w.used # Blocks, NEW b \in w.used \ {0}, role2[b][1] = f PROVE Names(w.disk, jno, b)
    BY DEF AllNamed
  <2>2. CASE b \in v.used
    <3>1. role[b][1] = f
      BY <2>1, <2>2, <1>3 DEF Frame
    <3>2. Names(v.disk, ino, b)
      BY <2>1, <2>2, <3>1, <1>1, <1>7 DEF AllNamed
    <3>3. PICK p \in Place : At(v.disk, ino, p) = b
      BY <3>2 DEF Names
    <3>4. b > 0
      BY <3>3, <2>1, <1>9
    <3>. QED
      BY <3>3, <3>4, <1>11 DEF Names
  <2>3. CASE b \notin v.used
    BY <2>1, <2>3, <1>11 DEF NewNamed
  <2>. QED
    BY <2>2, <2>3
<1>19. DataRight(w.disk, jno, f, FALSE, 0)
  <2>1. SUFFICES ASSUME NEW p \in 0 .. n - 1 PROVE ByteOn(w.disk, jno, f, p)
    BY <1>13 DEF DataRight
  <2> DEFINE j == p \div Bytes
             x == At(v.disk, ino, Spot(j))
  <2>2. p \in Nat /\ p < n
    BY <1>5
  <2>3. j \in 0 .. Starts[4] - 1 /\ ByteBlock(role, v.used, f, j, x)
    BY <2>2, <1>1, <1>2, <1>5, <1>7, MapNumber
  <2> HIDE DEF j
  <2>4. Spot(j) \in Place /\ ~Inner(Spot(j))
    BY <2>3, <1>10
  <2>5. x >= 0
    BY <2>4, <1>9
  <2>6. x \in v.used \ {0} /\ x > 0 /\ role[x] = <<f, Spot(j)>>
    BY <2>3, <2>5 DEF ByteBlock
  <2>7. At(w.disk, jno, Spot(j)) = x
    BY <2>4, <2>6, <1>11
  <2>8. w.disk[x] = v.disk[x]
    BY <2>4, <2>6 DEF DataKept, v, w
  <2>9. ByteOn(v.disk, ino, f, p)
    BY <1>7, <2>1 DEF DataRight, n
  <2>10. v.disk[x][p % Bytes] = <<f, p>>
    <3>1. ~(x < 0)
      BY <2>3, <2>5 DEF ByteBlock
    <3>. QED
      BY <3>1, <2>9 DEF ByteOn, j
  <2>. QED
    BY <2>7, <2>8, <2>10 DEF ByteOn, j
<1>20. t.ok => MapTo(role2, w.used, w.disk, jno, f, FALSE, 0, n + 1)
  BY <1>11, <1>16, <1>18, <1>19 DEF MapTo
<1>21. ~t.ok => MapOK(role2, w.used, w.disk, jno, f, FALSE, 0)
  BY <1>11, <1>13, <1>17, <1>18, <1>19 DEF MapTo, MapOK
<1>. QED
  BY <1>3, <1>4, <1>20, <1>21 DEF jno, n, f, ino

(* A write, byte by byte.  It is in block k and has room in it; it is in   *)
(* block k; it has been refused.  curr_log is right if it is needed before *)
(* the position final, where the call ends.                                *)
LogOk(fd, k, final) == fd.curr_log = k \/ fd.inode.size > Times(k + 1) \/ Times(k + 1) >= final
Reached(fd) == IF fd.inode.size <= fd.filepos THEN fd.filepos + 1 ELSE fd.inode.size
FdMapTo(role, s, m) == MapTo(role, s.used, s.disk, s.fd.inode, s.fd.file, s.fd.dirty, s.fd.curr_blk, m)
FdMapOK(role, s) == MapOK(role, s.used, s.disk, s.fd.inode, s.fd.file, s.fd.dirty, s.fd.curr_blk)
FdBuffered(role, s, k) == Buffered(role, s.used, s.disk, s.fd.inode, s.fd.file, k, s.fd.curr_blk, s.fd.buffer)
Ready(role, s, k) ==
  /\ k \in 0 .. Starts[4] - 1 /\ s.fd.filepos = Times(k) + s.fd.bufpos /\ s.fd.bufpos \in 0 .. Bytes - 1
  /\ s.fd.filepos <= s.fd.inode.size
  /\ FdBuffered(role, s, k) /\ FdMapTo(role, s, Reached(s.fd))
Going(role, s, k) == k \in 0 .. Starts[4] - 1 /\ OnPos(s.fd, k) /\ FdBuffered(role, s, k) /\ FdMapOK(role, s)
Failed(role, s) == ~s.fd.dirty /\ s.fd.bufpos \in 0 .. Bytes /\ s.used = Blocks /\ FdMapOK(role, s)
Grew(fd, n) == fd.inode.size = IF fd.filepos > n THEN fd.filepos ELSE n

TakenRel(s, t) ==
  /\ t.used = s.used /\ t.disk = s.disk /\ t.inodes = s.inodes /\ t.ok = s.ok
  /\ Ident(s.fd, t.fd) /\ Blk(s.fd, t.fd) /\ t.fd.dirty
  /\ t.fd.bufpos = s.fd.bufpos + 1 /\ t.fd.filepos = s.fd.filepos + 1
  /\ t.fd.buffer = [s.fd.buffer EXCEPT ![s.fd.bufpos] = <<s.fd.file, s.fd.filepos>>]
  /\ t.fd.inode = [s.fd.inode EXCEPT !.size = Reached(s.fd)]

(* What Taken does. *)
LEMMA TakenIs ==
  ASSUME NEW s \in Calls, s.ok, s.fd.filepos < MaxSize, s.fd.bufpos \in 0 .. Bytes - 1
  PROVE  Taken(s) \in Calls /\ TakenRel(s, Taken(s))
<1> DEFINE fd1 == [s.fd EXCEPT !.buffer = [s.fd.buffer EXCEPT ![s.fd.bufpos] = <<s.fd.file, s.fd.filepos>>]]
           fd2 == [fd1 EXCEPT !.bufpos = s.fd.bufpos + 1]
           fd3 == [fd2 EXCEPT !.dirty = TRUE]
           fd4 == [fd3 EXCEPT !.filepos = s.fd.filepos + 1]
           fd5 == [fd4 EXCEPT !.inode = [s.fd.inode EXCEPT !.size = Reached(s.fd)]]
           t == [s EXCEPT !.fd = fd5]
<1>1. s.fd \in Descriptor
  BY CallIs
<1>2. s.fd.file \in Files /\ s.fd.buffer \in Buffer /\ s.fd.bufpos \in Int /\ s.fd.filepos \in Nat /\ s.fd.inode \in Inode
      /\ s.fd.inode.size \in Nat /\ s.fd.inode.size <= MaxSize
  BY <1>1, FieldsAre
<1>3. MaxSize \in Nat /\ Bytes \in Nat \ {0}
  BY SfsFileAssumption DEF SfsFileAssumption
<1>4. Reached(s.fd) \in 0 .. MaxSize /\ (IF s.fd.filepos + 1 > s.fd.inode.size THEN s.fd.filepos + 1 ELSE s.fd.inode.size) = Reached(s.fd)
  BY <1>2, <1>3 DEF Reached
<1>5. Taken(s) = t
  <2>1. fd1.bufpos = s.fd.bufpos /\ fd3.filepos = s.fd.filepos /\ fd4.inode = s.fd.inode
    BY <1>1 DEF Descriptor
  <2>2. s.fd.inode.size \in Nat
    BY <1>2
  <2>. QED
    BY <1>1, <1>4, <2>1 DEF Taken, Calls, Descriptor, Inode
<1>6. fd1 \in Descriptor
  <2>1. <<s.fd.file, s.fd.filepos>> \in Byte
    BY <1>2, <1>3 DEF Byte
  <2>2. [s.fd.buffer EXCEPT ![s.fd.bufpos] = <<s.fd.file, s.fd.filepos>>] \in Buffer
    BY <1>2, <2>1 DEF Buffer
  <2>. QED
    BY <1>1, <2>2 DEF Descriptor, Buffer
<1>7. Ident(s.fd, fd1) /\ Blk(s.fd, fd1) /\ fd1.buffer = [s.fd.buffer EXCEPT ![s.fd.bufpos] = <<s.fd.file, s.fd.filepos>>]
  BY <1>1 DEF Descriptor, Ident, Blk
<1> HIDE DEF fd1
<1>8. fd2 \in Descriptor
  <2>1. s.fd.bufpos + 1 \in Int
    BY <1>2, <1>3
  <2>. QED
    BY <2>1, <1>6 DEF Descriptor
<1>9. Ident(fd1, fd2) /\ Blk(fd1, fd2) /\ fd2.buffer = fd1.buffer /\ fd2.bufpos = s.fd.bufpos + 1
  BY <1>6 DEF Descriptor, Ident, Blk
<1> HIDE DEF fd2
<1>10. fd3 \in Descriptor
  BY <1>8 DEF Descriptor
<1>11. Ident(fd2, fd3) /\ Blk(fd2, fd3) /\ fd3.buffer = fd2.buffer /\ fd3.bufpos = fd2.bufpos /\ fd3.dirty
  BY <1>8 DEF Descriptor, Ident, Blk
<1> HIDE DEF fd3
<1>12. fd4 \in Descriptor
  <2>1. s.fd.filepos + 1 \in 0 .. MaxSize
    BY <1>2, <1>3
  <2>. QED
    BY <2>1, <1>10 DEF Descriptor
<1>13. Ident(fd3, fd4) /\ Blk(fd3, fd4) /\ fd4.buffer = fd3.buffer /\ fd4.bufpos = fd3.bufpos /\ fd4.dirty = fd3.dirty /\ fd4.filepos = s.fd.filepos + 1
  BY <1>10 DEF Descriptor, Ident, Blk
<1> HIDE DEF fd4
<1>14. [s.fd.inode EXCEPT !.size = Reached(s.fd)] \in Inode
  BY <1>2, <1>4 DEF Inode
<1>15. fd5 \in Descriptor
  BY <1>12, <1>14 DEF Descriptor
<1>16. Ident(fd4, fd5) /\ Blk(fd4, fd5) /\ fd5.buffer = fd4.buffer /\ fd5.bufpos = fd4.bufpos /\ fd5.dirty = fd4.dirty /\ fd5.filepos = fd4.filepos
       /\ fd5.inode = [s.fd.inode EXCEPT !.size = Reached(s.fd)]
  BY <1>12 DEF Descriptor, Ident, Blk
<1> HIDE DEF fd5
<1>17. t \in Calls /\ t.used = s.used /\ t.disk = s.disk /\ t.inodes = s.inodes /\ t.ok = s.ok /\ t.fd = fd5
  BY <1>15 DEF Calls
<1>18. Ident(s.fd, fd5) /\ Blk(s.fd, fd5)
  BY <1>7, <1>9, <1>11, <1>13, <1>16 DEF Ident, Blk
<1> HIDE DEF t
<1>19. TakenRel(s, t)
  BY <1>7, <1>9, <1>11, <1>13, <1>16, <1>17, <1>18 DEF TakenRel
<1>. QED
  BY <1>5, <1>17, <1>19

(* Taken leaves all in order. *)
LEMMA TakenGoes ==
  ASSUME NEW role, NEW s, CallOK(role, s), s.ok, s.fd.filepos < MaxSize, s.fd.bufpos \in 0 .. Bytes - 1
  PROVE  Goes(role, s, role, Taken(s)) /\ TakenRel(s, Taken(s))
<1> DEFINE t == Taken(s)
<1>1. s \in Calls
  BY DEF CallOK
<1>2. t \in Calls /\ TakenRel(s, t)
  BY <1>1, TakenIs
<1> HIDE DEF t
<1>3. t.fd \in Descriptor /\ s.fd \in Descriptor
  BY <1>1, <1>2, CallIs
<1>4. Reached(s.fd) \in 0 .. MaxSize
  <2>1. MaxSize \in Nat
    BY SfsFileAssumption DEF SfsFileAssumption
  <2>. QED
    BY <2>1, <1>3, FieldsAre DEF Reached
<1>5. t.fd.file = s.fd.file /\ t.used = s.used /\ t.fd.curr_blk = s.fd.curr_blk /\ Ident(s.fd, t.fd)
      /\ t.fd.inode = [s.fd.inode EXCEPT !.size = Reached(s.fd)]
  BY <1>2 DEF TakenRel, Ident, Blk
<1>6. InodeOK(role, s.used, s.fd.file, s.fd.inode) /\ BlkOK(role, s.used, s.fd.file, s.fd.curr_blk)
  BY DEF CallOK, DescOK
<1>7. InodeOK(role, s.used, s.fd.file, t.fd.inode)
  BY <1>4, <1>5, <1>6, InodeSized
<1>8. DescOK(role, t.used, t.fd)
  BY <1>3, <1>5, <1>6, <1>7 DEF DescOK
<1>9. Goes(role, s, role, t)
  BY <1>2, <1>5, <1>8, GoesPlain DEF TakenRel
<1>. QED
  BY <1>2, <1>9 DEF t

(* A byte put into a buffer with room for it *)
LEMMA TakenReady ==
  ASSUME NEW role, NEW s, CallOK(role, s), s.ok, s.fd.filepos < MaxSize, NEW k, Ready(role, s, k),
         NEW t, t \in Calls, TakenRel(s, t)
  PROVE  /\ Going(role, t, k)
         /\ \A final \in Nat : LogOk(s.fd, k, final) => LogOk(t.fd, k, final)
         /\ \A n \in Nat : Grew(s.fd, n) => Grew(t.fd, n)
<1> DEFINE fd == s.fd
           gd == t.fd
           f == fd.file
           pos == fd.filepos
           size == fd.inode.size
           m == Reached(fd)
           x == At(s.disk, fd.inode, Spot(k))
<1>1. s \in Calls /\ fd \in Descriptor /\ gd \in Descriptor
  BY CallIs DEF CallOK
<1>2. fd.bufpos \in Int /\ pos \in Nat /\ size \in Nat /\ size <= MaxSize /\ fd.buffer \in Buffer /\ fd.inode \in Inode
  BY <1>1, FieldsAre
<1>3. MaxSize \in Nat /\ Bytes \in Nat \ {0}
  BY SfsFileAssumption DEF SfsFileAssumption
<1>4. k \in 0 .. Starts[4] - 1 /\ pos = Times(k) + fd.bufpos /\ fd.bufpos \in 0 .. Bytes - 1 /\ pos <= size /\ FdBuffered(role, s, k) /\ FdMapTo(role, s, m)
  BY DEF Ready
<1>5. k \in Nat /\ Times(k) \in Nat
  BY <1>4, StartsAre, TimesIs
<1>6. /\ t.used = s.used /\ t.disk = s.disk /\ gd.file = f /\ gd.curr_blk = fd.curr_blk /\ gd.curr_log = fd.curr_log /\ gd.dirty
      /\ gd.bufpos = fd.bufpos + 1 /\ gd.filepos = pos + 1
      /\ gd.buffer = [fd.buffer EXCEPT ![fd.bufpos] = <<f, pos>>]
      /\ gd.inode = [fd.inode EXCEPT !.size = m]
  BY DEF TakenRel, Ident, Blk
<1>7. m \in Nat /\ m = (IF size <= pos THEN pos + 1 ELSE size)
  BY <1>2 DEF Reached
<1>8. gd.inode.size = m /\ gd.inode.direct = fd.inode.direct /\ gd.inode.root = fd.inode.root
  BY <1>2, <1>6 DEF Inode
<1>9. \A p : At(s.disk, gd.inode, p) = At(s.disk, fd.inode, p)
  BY <1>8, AtSized
<1>10. /\ Holds(role, s.used, f, Spot(k), fd.curr_blk)
       /\ x < 0 \/ (fd.curr_blk = x /\ InBuffer(fd.buffer, size, f, k))
  BY <1>4 DEF FdBuffered, Buffered
<1>11. Mapped(s.disk, fd.inode, m) /\ FullIfNeg(s.used, s.disk, fd.inode) /\ AllNamed(role, s.used, s.disk, fd.inode, f)
       /\ DataRight(s.disk, fd.inode, f, fd.dirty, fd.curr_blk)
  BY <1>4 DEF FdMapTo, MapTo
<1> HIDE DEF m, x, fd, gd, f, pos, size
<1>12. OnPos(gd, k)
  <2>1. gd.filepos = Times(k) + gd.bufpos
    BY <1>2, <1>4, <1>5, <1>6
  <2>2. gd.bufpos \in 0 .. Bytes
    BY <1>2, <1>3, <1>4, <1>6
  <2>3. Times(k) < gd.inode.size /\ gd.filepos <= gd.inode.size
    BY <1>2, <1>4, <1>5, <1>6, <1>7, <1>8
  <2>. QED
    BY <2>1, <2>2, <2>3 DEF OnPos
<1>13. InBuffer(fd.buffer, size, f, k) => InBuffer(gd.buffer, m, f, k)
  <2>1. SUFFICES ASSUME InBuffer(fd.buffer, size, f, k), NEW q \in 0 .. Bytes - 1, Times(k) + q < m
                 PROVE  gd.buffer[q] = <<f, Times(k) + q>>
    BY DEF InBuffer
  <2>2. CASE q = fd.bufpos
    <3>1. gd.buffer[q] = <<f, pos>>
      BY <2>2, <1>2, <1>6 DEF Buffer
    <3>. QED
      BY <3>1, <2>2, <1>4
  <2>3. CASE q # fd.bufpos
    <3>1. gd.buffer[q] = fd.buffer[q]
      BY <2>3, <1>2, <1>6 DEF Buffer
    <3>2. Times(k) + q < size
      <4>1. q \in Nat
        BY <1>3
      <4>2. CASE size <= pos
        <5>1. Times(k) + q < pos + 1
          BY <2>1, <4>2, <1>7
        <5>2. q < fd.bufpos
          BY <4>1, <5>1, <2>3, <1>2, <1>4, <1>5
        <5>. QED
          BY <4>1, <5>2, <1>2, <1>4, <1>5
      <4>3. CASE ~(size <= pos)
        BY <2>1, <4>3, <1>7
      <4>. QED
        BY <4>2, <4>3
    <3>. QED
      BY <2>1, <3>1, <3>2 DEF InBuffer
  <2>. QED
    BY <2>2, <2>3
<1>14. FdBuffered(role, t, k)
  <2>1. At(t.disk, gd.inode, Spot(k)) = x
    BY <1>6, <1>9 DEF x, fd
  <2>2. Holds(role, t.used, gd.file, Spot(k), gd.curr_blk)
    BY <1>6, <1>10
  <2>3. x < 0 \/ (gd.curr_blk = x /\ InBuffer(gd.buffer, gd.inode.size, gd.file, k))
    BY <1>6, <1>8, <1>10, <1>13
  <2>. QED
    BY <2>1, <2>2, <2>3 DEF FdBuffered, Buffered, gd
<1>15. DataRight(s.disk, gd.inode, f, gd.dirty, gd.curr_blk)
  <2>1. SUFFICES ASSUME NEW p \in 0 .. m - 1
                 PROVE  ByteOn(s.disk, gd.inode, f, p) \/ gd.curr_blk = At(s.disk, gd.inode, Spot(p \div Bytes))
    BY <1>6, <1>8 DEF DataRight
  <2>2. ByteOn(s.disk, fd.inode, f, p) <=> ByteOn(s.disk, gd.inode, f, p)
    BY <1>9 DEF ByteOn
  <2>3. CASE p < size
    <3>1. p \in 0 .. size - 1
      BY <2>3, <1>2, <1>7
    <3>2. ByteOn(s.disk, fd.inode, f, p) \/ fd.curr_blk = At(s.disk, fd.inode, Spot(p \div Bytes))
      BY <3>1, <1>11 DEF DataRight, size
    <3>. QED
      BY <3>2, <2>2, <1>6, <1>9
  <2>4. CASE ~(p < size)
    <3>1. p = pos
      BY <2>1, <2>4, <1>2, <1>4, <1>7
    <3>2. p \in Nat /\ Times(k) <= p /\ p < Times(k) + Bytes
      BY <3>1, <1>2, <1>3, <1>4, <1>5
    <3>3. p \div Bytes = k
      BY <3>2, <1>5, TimesTells
    <3>4. x = At(s.disk, gd.inode, Spot(p \div Bytes))
      BY <3>3, <1>9 DEF x, fd
    <3>5. CASE x < 0
      BY <3>4, <3>5 DEF ByteOn
    <3>6. CASE ~(x < 0)
      BY <3>4, <3>6, <1>6, <1>10
    <3>. QED
      BY <3>5, <3>6
  <2>. QED
    BY <2>3, <2>4
<1>16. Mapped(s.disk, gd.inode, m) /\ FullIfNeg(s.used, s.disk, gd.inode) /\ AllNamed(role, s.used, s.disk, gd.inode, f)
  <2> DEFINE v == [disk |-> s.disk]
  <2>1. v.disk = s.disk /\ \A p \in Place : At(v.disk, gd.inode, p) = At(v.disk, fd.inode, p)
    BY <1>9
  <2> HIDE DEF v
  <2>2. /\ Mapped(v.disk, fd.inode, m) => Mapped(v.disk, gd.inode, m)
        /\ FullIfNeg(s.used, v.disk, fd.inode) => FullIfNeg(s.used, v.disk, gd.inode)
        /\ AllNamed(role, s.used, v.disk, fd.inode, f) => AllNamed(role, s.used, v.disk, gd.inode, f)
    BY <2>1, MapSame
  <2>. QED
    BY <2>1, <2>2, <1>11
<1>17. FdMapOK(role, t)
  <2>1. MapTo(role, t.used, t.disk, gd.inode, gd.file, gd.dirty, gd.curr_blk, gd.inode.size)
    BY <1>6, <1>8, <1>15, <1>16 DEF MapTo
  <2>. QED
    BY <2>1 DEF FdMapOK, MapOK, gd
<1>18. Going(role, t, k)
  BY <1>4, <1>12, <1>14, <1>17 DEF Going, gd
<1>19. ASSUME NEW final \in Nat, LogOk(fd, k, final) PROVE LogOk(gd, k, final)
  <2>1. size <= m
    BY <1>2, <1>4, <1>7
  <2>2. Times(k + 1) \in Nat
    BY <1>5, TimesIs
  <2>. QED
    BY <1>19, <2>1, <2>2, <1>2, <1>6, <1>7, <1>8 DEF LogOk, size
<1>20. ASSUME NEW n \in Nat, Grew(fd, n) PROVE Grew(gd, n)
  <2>1. size = (IF pos > n THEN pos ELSE n)
    BY <1>20 DEF Grew, size, pos
  <2>2. m = (IF pos + 1 > n THEN pos + 1 ELSE n)
    BY <2>1, <1>2, <1>4, <1>7
  <2>. QED
    BY <2>2, <1>6, <1>8 DEF Grew
<1>. QED
  BY <1>18, <1>19, <1>20 DEF gd, fd

(* Another position, and nothing else *)
MoveRel(s, t, filepos, bufpos) ==
  /\ t.used = s.used /\ t.disk = s.disk /\ t.inodes = s.inodes /\ t.ok = s.ok
  /\ Ident(s.fd, t.fd) /\ Blk(s.fd, t.fd) /\ t.fd.inode = s.fd.inode /\ t.fd.dirty = s.fd.dirty /\ t.fd.buffer = s.fd.buffer
  /\ t.fd.filepos = filepos /\ t.fd.bufpos = bufpos

(* What a change of the position does. *)
LEMMA MoveIs ==
  ASSUME NEW s \in Calls, NEW filepos \in 0 .. MaxSize, NEW bufpos \in Int,
         NEW t, t = [s EXCEPT !.fd = [[s.fd EXCEPT !.filepos = filepos] EXCEPT !.bufpos = bufpos]]
  PROVE  t \in Calls /\ MoveRel(s, t, filepos, bufpos)
<1> DEFINE fd1 == [s.fd EXCEPT !.filepos = filepos]
           fd2 == [fd1 EXCEPT !.bufpos = bufpos]
<1>1. s.fd \in Descriptor
  BY CallIs
<1>2. fd1 \in Descriptor
  BY <1>1 DEF Descriptor
<1>3. Ident(s.fd, fd1) /\ Blk(s.fd, fd1) /\ fd1.inode = s.fd.inode /\ fd1.dirty = s.fd.dirty /\ fd1.buffer = s.fd.buffer /\ fd1.filepos = filepos
  BY <1>1 DEF Descriptor, Ident, Blk
<1>4. t = [s EXCEPT !.fd = fd2]
  OBVIOUS
<1> HIDE DEF fd1
<1>5. fd2 \in Descriptor
  BY <1>2 DEF Descriptor
<1>6. Ident(fd1, fd2) /\ Blk(fd1, fd2) /\ fd2.inode = fd1.inode /\ fd2.dirty = fd1.dirty /\ fd2.buffer = fd1.buffer
      /\ fd2.filepos = fd1.filepos /\ fd2.bufpos = bufpos
  BY <1>2 DEF Descriptor, Ident, Blk
<1> HIDE DEF fd2
<1>7. t \in Calls /\ t.used = s.used /\ t.disk = s.disk /\ t.inodes = s.inodes /\ t.ok = s.ok /\ t.fd = fd2
  BY <1>4, <1>5 DEF Calls
<1>8. Ident(s.fd, fd2) /\ Blk(s.fd, fd2)
  BY <1>3, <1>6 DEF Ident, Blk
<1>. QED
  BY <1>3, <1>6, <1>7, <1>8 DEF MoveRel

(* It leaves all in order. *)
LEMMA MoveGoes ==
  ASSUME NEW role, NEW s, CallOK(role, s), NEW filepos, NEW bufpos, NEW t \in Calls, MoveRel(s, t, filepos, bufpos)
  PROVE  Goes(role, s, role, t)
<1>1. t.fd \in Descriptor
  BY CallIs
<1>2. DescOK(role, t.used, t.fd)
  BY <1>1 DEF MoveRel, Ident, Blk, CallOK, DescOK
<1>. QED
  BY <1>2, GoesPlain DEF MoveRel

(* bufpos = 0 *)
LEMMA RewindGoes ==
  ASSUME NEW role, NEW s, CallOK(role, s), NEW t, t = [s EXCEPT !.fd.bufpos = 0]
  PROVE  Goes(role, s, role, t) /\ MoveRel(s, t, s.fd.filepos, 0)
<1>1. s \in Calls /\ s.fd \in Descriptor
  BY CallIs DEF CallOK
<1>2. s.fd.filepos \in 0 .. MaxSize /\ 0 \in Int
  <2>1. s.fd.filepos \in 0 .. MaxSize
    BY <1>1 DEF Descriptor
  <2>2. MaxSize \in Nat /\ Bytes \in Nat
    BY SfsFileAssumption DEF SfsFileAssumption
  <2>. QED
    BY <2>1, <2>2
<1>3. [s.fd EXCEPT !.filepos = s.fd.filepos] = s.fd
  BY <1>1 DEF Descriptor
<1>4. t = [s EXCEPT !.fd = [[s.fd EXCEPT !.filepos = s.fd.filepos] EXCEPT !.bufpos = 0]]
  BY <1>3
<1>5. t \in Calls /\ MoveRel(s, t, s.fd.filepos, 0)
  BY <1>1, <1>2, <1>4, MoveIs
<1>. QED
  BY <1>5, MoveGoes

(* With nothing unsaved the block in the buffer does not matter. *)
LEMMA MapClean ==
  ASSUME NEW role, NEW us, NEW dk, NEW ino, NEW f, NEW m, NEW d, ~d, NEW b, MapTo(role, us, dk, ino, f, d, b, m), NEW e, NEW c
  PROVE  MapTo(role, us, dk, ino, f, e, c, m)
  BY DEF MapTo, DataRight

(* A buffer with nothing to save tells nothing about the map. *)
LEMMA MapOKClean ==
  ASSUME NEW role, NEW us, NEW dk, NEW ino, NEW f, NEW d, ~d, NEW b, MapOK(role, us, dk, ino, f, d, b), NEW e, NEW c
  PROVE  MapOK(role, us, dk, ino, f, e, c)
  BY MapClean DEF MapOK

(* The buffer saved *)
LEMMA FlushData ==
  ASSUME NEW role, NEW s, CallOK(role, s), NEW k \in Nat, FdBuffered(role, s, k), FdMapOK(role, s),
         NEW t \in Calls, FlushRel(s, t)
  PROVE  FdMapOK(role, t) /\ ~t.fd.dirty
<1> DEFINE v == Volume(s)
           w == Volume(t)
           f == s.fd.file
           ino == s.fd.inode
           b == s.fd.curr_blk
           buf == s.fd.buffer
<1>1. s \in Calls /\ s.fd \in Descriptor /\ v \in Volumes /\ v.used = s.used /\ v.disk = s.disk
  BY CallIs DEF CallOK
<1>2. w \in Volumes /\ w.used = t.used /\ w.disk = t.disk
  BY CallIs
<1>3. f \in Files /\ buf \in Buffer
  BY <1>1, FieldsAre
<1>4. Vol(role, v) /\ InodeOK(role, v.used, f, ino) /\ BlkOK(role, v.used, f, b)
  BY <1>1 DEF CallOK, DescOK
<1>5. t.used = s.used /\ t.disk = (IF b \in Blocks THEN Upd(s.disk, b, buf) ELSE s.disk)
      /\ t.fd.inode = ino /\ t.fd.file = f /\ ~t.fd.dirty
  BY DEF FlushRel, Ident
<1>6. Buffered(role, v.used, v.disk, ino, f, k, b, buf) /\ MapOK(role, v.used, v.disk, ino, f, s.fd.dirty, b)
  BY <1>1 DEF FdBuffered, FdMapOK
<1>7. w.used = v.used /\ w.disk = (IF b \in Blocks THEN Upd(v.disk, b, buf) ELSE v.disk)
  BY <1>1, <1>2, <1>5
<1> HIDE DEF v, w, f, ino, b, buf
<1>8. MapOK(role, w.used, w.disk, ino, f, FALSE, 0)
  BY <1>1, <1>2, <1>3, <1>4, <1>6, <1>7, SaveData
<1>9. MapOK(role, t.used, t.disk, t.fd.inode, t.fd.file, FALSE, 0)
  BY <1>2, <1>5, <1>8
<1>10. MapOK(role, t.used, t.disk, t.fd.inode, t.fd.file, t.fd.dirty, t.fd.curr_blk)
  BY <1>9, MapOKClean
<1>. QED
  BY <1>5, <1>10 DEF FdMapOK

(* A block read into the buffer *)
LEMMA LoadCall ==
  ASSUME NEW role, NEW s, CallOK(role, s), ~s.fd.dirty, FdMapOK(role, s), NEW k \in 0 .. Starts[4] - 1,
         s.fd.curr_blk = At(s.disk, s.fd.inode, Spot(k)), s.fd.curr_blk \in Blocks => s.fd.buffer = s.disk[s.fd.curr_blk]
  PROVE  FdBuffered(role, s, k)
<1> DEFINE v == Volume(s)
<1>1. s \in Calls /\ v \in Volumes /\ v.used = s.used /\ v.disk = s.disk
  BY CallIs DEF CallOK
<1>2. Vol(role, v) /\ InodeOK(role, v.used, s.fd.file, s.fd.inode)
  BY <1>1 DEF CallOK, DescOK
<1>3. MapOK(role, s.used, s.disk, s.fd.inode, s.fd.file, s.fd.dirty, s.fd.curr_blk)
  BY DEF FdMapOK
<1>4. MapOK(role, s.used, s.disk, s.fd.inode, s.fd.file, FALSE, 0)
  BY <1>3, MapOKClean
<1> HIDE DEF v
<1>5. Buffered(role, v.used, v.disk, s.fd.inode, s.fd.file, k, s.fd.curr_blk, s.fd.buffer)
  BY <1>1, <1>2, <1>4, LoadData
<1>. QED
  BY <1>1, <1>5 DEF FdBuffered

(* curr_log = filepos / bufsize, and the block read *)
LEMMA SeekFetch ==
  ASSUME NEW role, NEW s, CallOK(role, s), NEW t, t = Fetch(Seek(s))
  PROVE  /\ Goes(role, s, role, t) /\ t.ok = s.ok /\ Pos(s.fd, t.fd) /\ t.fd.inode = s.fd.inode /\ t.fd.dirty = s.fd.dirty
         /\ t.used = s.used /\ t.disk = s.disk /\ t.inodes = s.inodes
<1> DEFINE x == Seek(s)
<1>0. t = Fetch(x)
  OBVIOUS
<1>1. Goes(role, s, role, x) /\ SeekRel(s, x)
  BY SeekGoes
<1> HIDE DEF x
<1>2. CallOK(role, x)
  BY <1>1 DEF Goes
<1>3. Goes(role, x, role, t) /\ FetchRel(x, t)
  BY <1>0, <1>2, FetchGoes
<1>4. Goes(role, s, role, t)
  BY <1>1, <1>3, GoesTrans
<1>5. t.ok = s.ok /\ Pos(s.fd, t.fd) /\ t.fd.inode = s.fd.inode /\ t.fd.dirty = s.fd.dirty
  BY <1>1, <1>3 DEF SeekRel, FetchRel, Pos
<1>6. t.used = s.used /\ t.disk = s.disk /\ t.inodes = s.inodes
  BY <1>1, <1>3 DEF SeekRel, FetchRel
<1>. QED
  BY <1>4, <1>5, <1>6

(* Seek and Fetch bring the block of the position into the buffer. *)
LEMMA SeekData ==
  ASSUME NEW role, NEW s, CallOK(role, s), ~s.fd.dirty, FdMapOK(role, s),
         NEW k \in 0 .. Starts[4] - 1, Times(k) <= s.fd.filepos, s.fd.filepos < Times(k) + Bytes,
         NEW t, t = Fetch(Seek(s))
  PROVE  /\ FdBuffered(role, t, k) /\ FdMapOK(role, t) /\ ~t.fd.dirty
         /\ Pos(s.fd, t.fd) /\ t.fd.inode = s.fd.inode /\ t.fd.curr_log = k
<1> DEFINE x == Seek(s)
<1>0. t = Fetch(x)
  OBVIOUS
<1>1. s \in Calls /\ s.fd \in Descriptor
  BY CallIs DEF CallOK
<1>2. s.fd.filepos \in Nat /\ k \in Nat
  BY <1>1, FieldsAre, StartsAre
<1>3. s.fd.filepos \div Bytes = k
  BY <1>2, TimesTells
<1>4. Goes(role, s, role, x) /\ SeekRel(s, x)
  BY SeekGoes
<1> HIDE DEF x
<1>5. CallOK(role, x)
  BY <1>4 DEF Goes
<1>6. Goes(role, x, role, t) /\ FetchRel(x, t)
  BY <1>0, <1>5, FetchGoes
<1>7. CallOK(role, t) /\ Goes(role, s, role, t)
  BY <1>4, <1>6, GoesTrans DEF Goes
<1>8. /\ x.used = s.used /\ x.disk = s.disk /\ x.inodes = s.inodes /\ x.ok = s.ok /\ x.fd.file = s.fd.file /\ Pos(s.fd, x.fd)
      /\ x.fd.inode = s.fd.inode /\ x.fd.dirty = s.fd.dirty /\ x.fd.curr_log = k
      /\ x.fd.curr_blk = Log2Phys(s.disk, s.fd.inode, k)
  BY <1>3, <1>4 DEF SeekRel, Ident
<1>9. /\ t.used = x.used /\ t.disk = x.disk /\ t.inodes = x.inodes /\ t.ok = x.ok /\ t.fd.file = x.fd.file /\ Pos(x.fd, t.fd)
      /\ t.fd.inode = x.fd.inode /\ t.fd.dirty = x.fd.dirty /\ t.fd.curr_log = x.fd.curr_log /\ t.fd.curr_blk = x.fd.curr_blk
      /\ t.fd.buffer = IF x.fd.curr_blk \in Blocks THEN x.disk[x.fd.curr_blk] ELSE x.fd.buffer
  BY <1>6 DEF FetchRel, Ident, Blk
<1>10. Log2Phys(s.disk, s.fd.inode, k) = At(s.disk, s.fd.inode, Spot(k))
  <2>1. k < Starts[4]
    BY StartsAre
  <2>. QED
    BY <2>1, <1>2, AtSpot
<1>11. t.fd.curr_blk = At(t.disk, t.fd.inode, Spot(k)) /\ (t.fd.curr_blk \in Blocks => t.fd.buffer = t.disk[t.fd.curr_blk])
  BY <1>8, <1>9, <1>10
<1>12. FdMapOK(role, t) /\ ~t.fd.dirty
  <2>1. MapOK(role, s.used, s.disk, s.fd.inode, s.fd.file, t.fd.dirty, t.fd.curr_blk)
    BY MapOKClean DEF FdMapOK
  <2>. QED
    BY <2>1, <1>8, <1>9 DEF FdMapOK
<1>13. FdBuffered(role, t, k)
  BY <1>7, <1>11, <1>12, LoadCall
<1>14. Pos(s.fd, t.fd)
  BY <1>8, <1>9 DEF Pos
<1>. QED
  BY <1>8, <1>9, <1>12, <1>13, <1>14

(* A block made at the end of the file *)
LEMMA ExtendReady ==
  ASSUME NEW role, NEW s, CallOK(role, s), NEW i \in Nat
  PROVE  \E role2 :
           /\ Goes(role, s, role2, Extend(s, i)) /\ Pos(s.fd, Extend(s, i).fd)
           /\ Extend(s, i).fd.inode.size = s.fd.inode.size
           /\ /\ s.fd.inode.size = Times(i) /\ s.fd.filepos = Times(i) /\ s.fd.bufpos = 0 /\ ~s.fd.dirty
              /\ FdMapOK(role, s) /\ i \in 0 .. Starts[4] - 1
              => IF Extend(s, i).ok THEN Ready(role2, Extend(s, i), i) /\ Extend(s, i).fd.curr_log = i
                 ELSE Failed(role2, Extend(s, i))
<1> DEFINE t == Extend(s, i)
<1>0. Bytes \in Nat \ {0} /\ Times(i) \in Nat /\ Times(i) + 0 = Times(i)
  BY TimesIs
<1>1. CASE s.used = Blocks
  <2>1. Goes(role, s, role, t) /\ GaveUp(s, t)
    BY <1>1, ExtendFull
  <2> HIDE DEF t
  <2>2. Pos(s.fd, t.fd) /\ t.fd.inode.size = s.fd.inode.size
    BY <2>1 DEF GaveUp, Pos
  <2>3. s.fd.bufpos = 0 /\ ~s.fd.dirty /\ FdMapOK(role, s) => ~t.ok /\ Failed(role, t)
    BY <1>0, <1>1, <2>1 DEF GaveUp, Failed, FdMapOK
  <2>. QED
    BY <2>1, <2>2, <2>3 DEF t, GaveUp
<1>2. CASE s.used # Blocks
  <2>1. PICK role2 : Goes(role, s, role2, t) /\ ExtendRel(role, s, role2, t, i)
    BY <1>2, ExtendGoes
  <2> HIDE DEF t
  <2>2. /\ Pos(s.fd, t.fd) /\ t.fd.inode.size = s.fd.inode.size /\ t.fd.dirty = s.fd.dirty /\ t.fd.curr_log = i
        /\ DataKept(role, Volume(s), Volume(t)) /\ (Fine(Volume(s), s.fd.inode, i) => Gained(s, role2, t, i))
    BY <2>1 DEF ExtendRel
  <2>3. ASSUME s.fd.inode.size = Times(i), s.fd.filepos = Times(i), s.fd.bufpos = 0, ~s.fd.dirty,
               FdMapOK(role, s), i \in 0 .. Starts[4] - 1
        PROVE  IF t.ok THEN Ready(role2, t, i) /\ t.fd.curr_log = i ELSE Failed(role2, t)
    <3>1. s \in Calls /\ Volume(s) \in Volumes /\ Volume(s).used = s.used /\ Volume(s).disk = s.disk
      BY CallIs DEF CallOK
    <3>2. Vol(role, Volume(s)) /\ InodeOK(role, Volume(s).used, s.fd.file, s.fd.inode)
      BY <3>1 DEF CallOK, DescOK
    <3>3. MapOK(role, s.used, s.disk, s.fd.inode, s.fd.file, FALSE, 0)
      BY <2>3, MapOKClean DEF FdMapOK
    <3>4. MapTo(role, Volume(s).used, Volume(s).disk, s.fd.inode, s.fd.file, FALSE, 0, s.fd.inode.size)
      BY <3>1, <3>3 DEF MapOK
    <3>5. ~(Times(i) < s.fd.inode.size)
      BY <2>3, <1>0
    <3>6. Fine(Volume(s), s.fd.inode, i)
      BY <3>1, <3>2, <3>4, <3>5, <1>2, <2>3, GrowFine
    <3>7. Gained(s, role2, t, i)
      BY <3>6, <2>2
    <3>8. /\ t.ok => MapTo(role2, t.used, t.disk, t.fd.inode, t.fd.file, FALSE, 0, s.fd.inode.size + 1)
          /\ ~t.ok => MapOK(role2, t.used, t.disk, t.fd.inode, t.fd.file, FALSE, 0)
      BY <3>3, <3>7, <1>2, <2>1, <2>2, <2>3, GrowData
    <3>9. t.fd.filepos = Times(i) /\ t.fd.bufpos = 0 /\ ~t.fd.dirty /\ t.fd.inode.size = Times(i)
      BY <2>2, <2>3 DEF Pos
    <3>10. CASE t.ok
      <4>1. Reached(t.fd) = s.fd.inode.size + 1
        BY <3>9, <1>0, <2>3 DEF Reached
      <4>2. MapTo(role2, t.used, t.disk, t.fd.inode, t.fd.file, t.fd.dirty, t.fd.curr_blk, s.fd.inode.size + 1)
        BY <3>8, <3>10, MapClean
      <4>3. InBuffer(t.fd.buffer, t.fd.inode.size, t.fd.file, i)
        <5>1. \A q \in 0 .. Bytes - 1 : ~(Times(i) + q < Times(i))
          BY <1>0
        <5>. QED
          BY <5>1, <3>9 DEF InBuffer
      <4>4. FdBuffered(role2, t, i)
        BY <3>7, <3>10, <4>3 DEF Gained, FdBuffered, Buffered
      <4>5. t.fd.filepos = Times(i) + t.fd.bufpos /\ t.fd.bufpos \in 0 .. Bytes - 1 /\ t.fd.filepos <= t.fd.inode.size
        BY <3>9, <1>0
      <4>6. Ready(role2, t, i)
        BY <4>1, <4>2, <4>4, <4>5, <2>3 DEF Ready, FdMapTo
      <4>. QED
        BY <3>10, <4>6, <2>2
    <3>11. CASE ~t.ok
      <4>1. MapOK(role2, t.used, t.disk, t.fd.inode, t.fd.file, t.fd.dirty, t.fd.curr_blk)
        BY <3>8, <3>11, MapOKClean
      <4>2. t.used = Blocks
        BY <3>7, <3>11 DEF Gained
      <4>3. Failed(role2, t)
        BY <4>1, <4>2, <3>9, <1>0 DEF Failed, FdMapOK
      <4>. QED
        BY <3>11, <4>3
    <3>. QED
      BY <3>10, <3>11
  <2>. QED
    BY <2>1, <2>2, <2>3 DEF t
<1>. QED
  BY <1>1, <1>2

(* A write that has room for a byte, or stands at the end of its buffer,   *)
(* or has been refused; and one that has just put a byte.                  *)
Begun(role, s, n, final) ==
  Grew(s.fd, n) /\ IF s.ok THEN \E k \in Nat : Ready(role, s, k) /\ LogOk(s.fd, k, final) ELSE Failed(role, s)
AtFull(role, s, n, final) ==
  Grew(s.fd, n) /\ s.ok /\ \E k \in Nat : Going(role, s, k) /\ s.fd.bufpos = Bytes /\ LogOk(s.fd, k, final)
Between(role, s, n, final) == Begun(role, s, n, final) \/ AtFull(role, s, n, final)
Done(role, s, n, final) ==
  Grew(s.fd, n) /\ IF s.ok THEN \E k \in Nat : Going(role, s, k) /\ LogOk(s.fd, k, final) ELSE Failed(role, s)

(* NextBlock leaves all in order, and is ready to write the block. *)
LEMMA NextBlockGoes ==
  ASSUME NEW role, NEW s, CallOK(role, s), s.ok, NEW final \in Nat, NEW n \in Nat, final <= MaxSize
  PROVE  \E role2 :
           /\ Goes(role, s, role2, NextBlock(s)) /\ NextBlock(s).fd.bufpos = 0 /\ NextBlock(s).fd.filepos = s.fd.filepos
           /\ AtFull(role, s, n, final) /\ s.fd.filepos < final => Begun(role2, NextBlock(s), n, final)
<1> DEFINE u == [s EXCEPT !.fd.bufpos = 0]
           x == Flush(u)
           t == NextBlock(s)
<1>1. t = Refilled(x)
  BY DEF NextBlock
<1>2. Goes(role, s, role, u) /\ MoveRel(s, u, s.fd.filepos, 0)
  BY RewindGoes
<1> HIDE DEF u
<1>3. CallOK(role, u) /\ u \in Calls
  BY <1>2 DEF Goes, CallOK
<1>4. Goes(role, u, role, x) /\ FlushRel(u, x)
  BY <1>3, FlushGoes
<1> HIDE DEF x, t
<1>5. CallOK(role, x) /\ x \in Calls /\ Goes(role, s, role, x)
  BY <1>2, <1>4, GoesTrans DEF Goes, CallOK
<1>6. /\ x.ok /\ x.fd.filepos = s.fd.filepos /\ x.fd.bufpos = 0 /\ ~x.fd.dirty /\ x.fd.inode = s.fd.inode /\ x.fd.curr_log = s.fd.curr_log
      /\ u.used = s.used /\ u.disk = s.disk /\ u.fd.inode = s.fd.inode /\ u.fd.file = s.fd.file /\ u.fd.curr_blk = s.fd.curr_blk
      /\ u.fd.buffer = s.fd.buffer /\ u.fd.dirty = s.fd.dirty
  BY <1>2, <1>4 DEF MoveRel, FlushRel, Pos, Blk, Ident
<1>7. x.fd \in Descriptor /\ x.fd.filepos \in Nat /\ x.fd.inode.size \in Nat /\ x.fd.inode.size <= MaxSize /\ x.fd.curr_log + 1 \in Nat
      /\ s.fd.filepos \in Nat /\ s.fd.filepos <= MaxSize
  BY <1>5, <1>6, CallIs, FieldsAre
<1>8. ASSUME NEW k \in Nat, Going(role, s, k), s.fd.bufpos = Bytes, s.fd.filepos < final
      PROVE  /\ FdMapOK(role, x) /\ x.fd.filepos = Times(k + 1) /\ k + 1 \in 0 .. Starts[4] - 1
             /\ x.fd.filepos <= x.fd.inode.size
  <2>1. FdBuffered(role, s, k) /\ FdMapOK(role, s) /\ OnPos(s.fd, k) /\ k \in 0 .. Starts[4] - 1
    BY <1>8 DEF Going
  <2>2. FdBuffered(role, u, k) /\ FdMapOK(role, u)
    BY <2>1, <1>6 DEF FdBuffered, FdMapOK
  <2>3. FdMapOK(role, x)
    BY <2>2, <1>3, <1>4, <1>5, FlushData
  <2>4. x.fd.filepos = Times(k + 1)
    BY <2>1, <1>6, <1>8, TimesIs DEF OnPos
  <2>5. x.fd.filepos <= x.fd.inode.size
    BY <2>1, <1>6 DEF OnPos
  <2>6. Times(k + 1) < MaxSize
    <3>1. MaxSize \in Nat
      BY SfsFileAssumption DEF SfsFileAssumption
    <3>. QED
      BY <3>1, <2>4, <1>6, <1>7, <1>8
  <2>7. k + 1 \in 0 .. Starts[4] - 1
    BY <2>6, TimesInMap
  <2>. QED
    BY <2>3, <2>4, <2>5, <2>7
<1>9. CASE x.fd.filepos < x.fd.inode.size
  <2>1. t = Fetch(Seek(x))
    BY <1>1, <1>9 DEF Refilled
  <2>2. Goes(role, x, role, t) /\ t.ok = x.ok /\ Pos(x.fd, t.fd) /\ t.fd.inode = x.fd.inode
    BY <2>1, <1>5, SeekFetch
  <2>3. Goes(role, s, role, t)
    BY <2>2, <1>5, GoesTrans
  <2>4. ASSUME AtFull(role, s, n, final), s.fd.filepos < final PROVE Begun(role, t, n, final)
    <3>1. PICK k \in Nat : Going(role, s, k) /\ s.fd.bufpos = Bytes
      BY <2>4 DEF AtFull
    <3>2. FdMapOK(role, x) /\ x.fd.filepos = Times(k + 1) /\ k + 1 \in 0 .. Starts[4] - 1
      BY <3>1, <2>4, <1>8
    <3>3. Times(k + 1) \in Nat /\ Bytes \in Nat \ {0} /\ Times(k + 1) <= Times(k + 1) /\ Times(k + 1) < Times(k + 1) + Bytes
      <4>1. k + 1 \in Nat
        OBVIOUS
      <4>2. Times(k + 1) \in Nat /\ Bytes \in Nat \ {0}
        BY <4>1, TimesIs
      <4>. QED
        BY <4>2
    <3> DEFINE l == k + 1
    <3>4. l \in 0 .. Starts[4] - 1 /\ Times(l) <= x.fd.filepos /\ x.fd.filepos < Times(l) + Bytes
      BY <3>2, <3>3
    <3> HIDE DEF l
    <3>5. FdBuffered(role, t, l) /\ FdMapOK(role, t) /\ t.fd.curr_log = l
      BY <3>2, <3>4, <2>1, <1>5, <1>6, SeekData
    <3>6. t.fd.filepos = Times(l) + t.fd.bufpos /\ t.fd.bufpos \in 0 .. Bytes - 1 /\ t.fd.filepos < t.fd.inode.size /\ t.fd.filepos \in Nat /\ t.fd.inode.size \in Nat
      BY <3>2, <3>3, <2>2, <1>6, <1>7, <1>9 DEF Pos, l
    <3>7. Reached(t.fd) = t.fd.inode.size
      BY <3>6 DEF Reached
    <3>8. FdMapTo(role, t, Reached(t.fd))
      BY <3>5, <3>7 DEF FdMapOK, FdMapTo, MapOK
    <3>9. t.fd.filepos <= t.fd.inode.size
      BY <3>6
    <3>10. Ready(role, t, l)
      BY <3>4, <3>5, <3>6, <3>8, <3>9 DEF Ready
    <3>11. Grew(t.fd, n)
      BY <2>2, <2>4, <1>6 DEF AtFull, Grew, Pos
    <3>12. l \in Nat /\ LogOk(t.fd, l, final)
      BY <3>5 DEF LogOk, l
    <3>. QED
      BY <3>10, <3>11, <3>12, <2>2, <1>6 DEF Begun
  <2>5. t.fd.bufpos = 0 /\ t.fd.filepos = s.fd.filepos
    BY <2>2, <1>6 DEF Pos
  <2>. QED
    BY <2>3, <2>4, <2>5 DEF t
<1>10. CASE ~(x.fd.filepos < x.fd.inode.size)
  <2> DEFINE i == x.fd.curr_log + 1
  <2>1. t = Extend(x, i)
    BY <1>1, <1>10 DEF Refilled
  <2>2. i \in Nat
    BY <1>7
  <2>7. i = x.fd.curr_log + 1
    OBVIOUS
  <2> HIDE DEF i
  <2>3. PICK role2 : /\ Goes(role, x, role2, t) /\ Pos(x.fd, t.fd)
                     /\ t.fd.inode.size = x.fd.inode.size
                     /\ /\ x.fd.inode.size = Times(i) /\ x.fd.filepos = Times(i) /\ x.fd.bufpos = 0 /\ ~x.fd.dirty
                        /\ FdMapOK(role, x) /\ i \in 0 .. Starts[4] - 1
                        => IF t.ok THEN Ready(role2, t, i) /\ t.fd.curr_log = i ELSE Failed(role2, t)
    BY <2>1, <2>2, <1>5, ExtendReady
  <2>4. Goes(role, s, role2, t)
    BY <2>3, <1>5, GoesTrans
  <2>5. ASSUME AtFull(role, s, n, final), s.fd.filepos < final PROVE Begun(role2, t, n, final)
    <3>1. PICK k \in Nat : Going(role, s, k) /\ s.fd.bufpos = Bytes /\ LogOk(s.fd, k, final)
      BY <2>5 DEF AtFull
    <3>2. FdMapOK(role, x) /\ x.fd.filepos = Times(k + 1) /\ k + 1 \in 0 .. Starts[4] - 1 /\ x.fd.filepos <= x.fd.inode.size
      BY <3>1, <2>5, <1>8
    <3>3. x.fd.inode.size = Times(k + 1)
      BY <3>2, <1>7, <1>10
    <3>4. s.fd.curr_log = k
      <4>1. ~(s.fd.inode.size > Times(k + 1))
        BY <3>3, <1>6, <1>7
      <4>2. ~(Times(k + 1) >= final)
        BY <3>2, <2>5, <1>6, <1>7
      <4>. QED
        BY <3>1, <4>1, <4>2 DEF LogOk
    <3>5. i = k + 1
      BY <3>4, <2>7, <1>6
    <3>6. IF t.ok THEN Ready(role2, t, i) /\ t.fd.curr_log = i ELSE Failed(role2, t)
      BY <3>2, <3>3, <3>5, <2>3, <1>6
    <3>7. Grew(t.fd, n)
      BY <2>3, <2>5, <1>6 DEF AtFull, Grew, Pos
    <3>. QED
      BY <3>6, <3>7, <2>2 DEF Begun, LogOk
  <2>6. t.fd.bufpos = 0 /\ t.fd.filepos = s.fd.filepos
    BY <2>3, <1>6 DEF Pos
  <2>. QED
    BY <2>4, <2>5, <2>6 DEF t
<1>. QED
  BY <1>9, <1>10

(* One byte *)
LEMMA TakenDone ==
  ASSUME NEW role, NEW s, CallOK(role, s), s.ok => s.fd.filepos < MaxSize /\ s.fd.bufpos \in 0 .. Bytes - 1,
         NEW final \in Nat, NEW n \in Nat
  PROVE  /\ Goes(role, s, role, Taken(s)) /\ Taken(s).fd.filepos <= s.fd.filepos + 1
         /\ Begun(role, s, n, final) => Done(role, Taken(s), n, final)
<1> DEFINE t == Taken(s)
<1>0. s \in Calls /\ s.fd.filepos \in Nat
  BY CallIs, FieldsAre DEF CallOK
<1>1. CASE ~s.ok
  <2>1. t = s
    BY <1>1 DEF Taken
  <2>2. Begun(role, s, n, final) => Done(role, s, n, final)
    BY <1>1 DEF Begun, Done
  <2>. QED
    BY <2>1, <2>2, <1>0, GoesSelf
<1>2. CASE s.ok
  <2>1. Goes(role, s, role, t) /\ TakenRel(s, t)
    BY <1>2, TakenGoes
  <2> HIDE DEF t
  <2>2. t \in Calls /\ t.ok /\ t.fd.filepos <= s.fd.filepos + 1
    BY <2>1, <1>0, <1>2 DEF Goes, CallOK, TakenRel
  <2>3. ASSUME Begun(role, s, n, final) PROVE Done(role, t, n, final)
    <3>1. PICK k \in Nat : Ready(role, s, k) /\ LogOk(s.fd, k, final)
      BY <2>3, <1>2 DEF Begun
    <3>2. Grew(s.fd, n)
      BY <2>3 DEF Begun
    <3>3. Going(role, t, k) /\ LogOk(t.fd, k, final) /\ Grew(t.fd, n)
      BY <3>1, <3>2, <2>1, <2>2, <1>2, TakenReady
    <3>. QED
      BY <3>3, <2>2 DEF Done
  <2>. QED
    BY <2>1, <2>2, <2>3 DEF t
<1>. QED
  BY <1>1, <1>2

(* PutByte leaves all in order, and every byte written so far in its place. *)
LEMMA PutByteGoes ==
  ASSUME NEW role, NEW s, CallOK(role, s), s.fd.filepos < MaxSize, NEW final \in Nat, NEW n \in Nat, final <= MaxSize
  PROVE  \E role2 :
           /\ Goes(role, s, role2, PutByte(s)) /\ PutByte(s).fd.filepos <= s.fd.filepos + 1
           /\ Between(role, s, n, final) /\ s.fd.filepos < final => Done(role2, PutByte(s), n, final)
<1> DEFINE t == PutByte(s)
<1>0. Bytes \in Nat \ {0} /\ s.fd.bufpos \in Int
  BY CallIs, FieldsAre, SfsFileAssumption DEF CallOK, SfsFileAssumption
<1>1. CASE s.ok /\ Full(s.fd)
  <2> DEFINE x == NextBlock(s)
  <2>1. t = Taken(x)
    BY <1>1 DEF PutByte
  <2>2. PICK role1 : /\ Goes(role, s, role1, x) /\ x.fd.bufpos = 0 /\ x.fd.filepos = s.fd.filepos
                     /\ AtFull(role, s, n, final) /\ s.fd.filepos < final => Begun(role1, x, n, final)
    BY <1>1, NextBlockGoes
  <2> HIDE DEF x, t
  <2>3. CallOK(role1, x) /\ x.fd.filepos < MaxSize /\ x.fd.bufpos \in 0 .. Bytes - 1
    BY <2>2, <1>0 DEF Goes
  <2>4. /\ Goes(role1, x, role1, t) /\ t.fd.filepos <= x.fd.filepos + 1
        /\ Begun(role1, x, n, final) => Done(role1, t, n, final)
    BY <2>1, <2>3, TakenDone
  <2>5. Goes(role, s, role1, t)
    BY <2>2, <2>4, GoesTrans
  <2>6. ASSUME Between(role, s, n, final), s.fd.filepos < final PROVE Done(role1, t, n, final)
    <3>1. ~Begun(role, s, n, final)
      <4>1. \A k : ~Ready(role, s, k)
        BY <1>0, <1>1 DEF Ready, Full
      <4>. QED
        BY <4>1, <1>1 DEF Begun
    <3>. QED
      BY <3>1, <2>2, <2>4, <2>6 DEF Between
  <2>. QED
    BY <2>2, <2>4, <2>5, <2>6 DEF t
<1>2. CASE ~(s.ok /\ Full(s.fd))
  <2>1. t = Taken(s)
    BY <1>2 DEF PutByte
  <2>2. s.ok => s.fd.filepos < MaxSize /\ s.fd.bufpos \in 0 .. Bytes - 1
    BY <1>0, <1>2 DEF Full
  <2> HIDE DEF t
  <2>3. /\ Goes(role, s, role, t) /\ t.fd.filepos <= s.fd.filepos + 1
        /\ Begun(role, s, n, final) => Done(role, t, n, final)
    BY <2>1, <2>2, TakenDone
  <2>4. ~AtFull(role, s, n, final)
    BY <1>0, <1>2 DEF AtFull, Full
  <2>. QED
    BY <2>3, <2>4 DEF Between, t
<1>. QED
  BY <1>1, <1>2

(* After a byte, there may be another. *)
LEMMA DoneBetween ==
  ASSUME NEW role, NEW s, CallOK(role, s), NEW final \in Nat, NEW n \in Nat, Done(role, s, n, final)
  PROVE  Between(role, s, n, final)
<1>1. CASE ~s.ok
  BY <1>1 DEF Done, Between, Begun
<1>2. CASE s.ok
  <2>1. PICK k \in Nat : Going(role, s, k) /\ LogOk(s.fd, k, final)
    BY <1>2 DEF Done
  <2>2. Grew(s.fd, n)
    BY DEF Done
  <2>3. OnPos(s.fd, k) /\ FdMapOK(role, s) /\ FdBuffered(role, s, k) /\ k \in 0 .. Starts[4] - 1
    BY <2>1 DEF Going
  <2>4. CASE s.fd.bufpos = Bytes
    BY <2>1, <2>2, <2>4, <1>2 DEF Between, AtFull
  <2>5. CASE s.fd.bufpos # Bytes
    <3>1. Bytes \in Nat \ {0} /\ Times(k) \in Nat
      BY TimesIs
    <3>2. s.fd \in Descriptor /\ s.fd.bufpos \in Int /\ s.fd.filepos \in Nat /\ s.fd.inode.size \in Nat
      BY CallIs, FieldsAre DEF CallOK
    <3>3. s.fd.filepos = Times(k) + s.fd.bufpos /\ s.fd.bufpos \in 0 .. Bytes - 1 /\ Times(k) < s.fd.inode.size /\ s.fd.filepos <= s.fd.inode.size
      BY <3>1, <3>2, <2>3, <2>5 DEF OnPos
    <3> DEFINE m == Reached(s.fd)
    <3>4. m \in Nat /\ s.fd.inode.size <= m /\ (m = s.fd.inode.size \/ m <= Times(k) + Bytes)
      BY <3>1, <3>2, <3>3 DEF Reached
    <3> HIDE DEF m
    <3>5. Mapped(s.disk, s.fd.inode, s.fd.inode.size) => Mapped(s.disk, s.fd.inode, m)
      <4>1. CASE m = s.fd.inode.size
        BY <4>1
      <4>2. CASE m <= Times(k) + Bytes
        BY <4>2, <3>2, <3>3, <3>4, MappedNear
      <4>. QED
        BY <4>1, <4>2, <3>4
    <3>6. FdMapTo(role, s, m)
      BY <3>5, <2>3 DEF FdMapOK, FdMapTo, MapOK, MapTo
    <3>7. Ready(role, s, k)
      BY <3>3, <3>6, <2>3 DEF Ready, m
    <3>. QED
      BY <3>7, <2>1, <2>2, <1>2 DEF Between, Begun
  <2>. QED
    BY <2>4, <2>5
<1>. QED
  BY <1>1, <1>2

(* Where a write starts, and what it needs to know of a file that was not  *)
(* misused.                                                                *)
Start(fd) == IF fd.append /\ fd.inode.size > 0 THEN fd.inode.size ELSE fd.filepos
LogNear(fd, final) ==
  \/ fd.curr_log * Bytes + fd.bufpos = fd.filepos
  \/ fd.inode.size > fd.filepos - fd.bufpos + Bytes
  \/ fd.filepos - fd.bufpos + Bytes >= final
MayWrite(role, s, n, final) ==
  /\ FdRight(role, s.used, s.disk, s.fd) /\ FdMapOK(role, s) /\ ~s.fd.refused /\ s.ok /\ s.fd.inode.size = n
  /\ s.fd.append => ~s.fd.dirty
  /\ ~s.fd.append => ~Ended(s.fd) /\ LogNear(s.fd, final)
  /\ Start(s.fd) < final

(* One more position in a map that already has its block *)
LEMMA MappedOn ==
  ASSUME NEW dk, NEW ino, NEW k \in Nat, NEW m, m = Times(k), Mapped(dk, ino, m), At(dk, ino, Spot(k)) # 0
  PROVE  Mapped(dk, ino, m + 1)
<1>1. Starts[4] \in Nat /\ Bytes \in Nat \ {0} /\ m \in Nat
  BY StartsAre, TimesIs
<1>2. ASSUME NEW j \in 0 .. Starts[4] - 1
      PROVE  IF Times(j) < m + 1 THEN At(dk, ino, Spot(j)) # 0 ELSE At(dk, ino, Spot(j)) <= 0
  <2>1. j \in Nat /\ Times(j) \in Nat
    BY <1>1, TimesIs
  <2>2. IF Times(j) < m THEN At(dk, ino, Spot(j)) # 0 ELSE At(dk, ino, Spot(j)) <= 0
    BY DEF Mapped
  <2>3. CASE j = k
    <3>1. Times(j) < m + 1
      BY <2>3, <1>1
    <3>. QED
      BY <3>1, <2>3
  <2>4. CASE j < k
    <3>1. Times(j) + Bytes <= m
      BY <2>1, <2>4, TimesBelow
    <3>2. Times(j) < m /\ Times(j) < m + 1
      BY <3>1, <2>1, <1>1
    <3>. QED
      BY <3>2, <2>2
  <2>5. CASE k < j
    <3>1. m + Bytes <= Times(j)
      BY <2>1, <2>5, TimesBelow
    <3>2. ~(Times(j) < m) /\ ~(Times(j) < m + 1)
      BY <3>1, <2>1, <1>1
    <3>. QED
      BY <3>2, <2>2
  <2>. QED
    BY <2>1, <2>3, <2>4, <2>5
<1>. QED
  BY <1>2 DEF Mapped

(* Reading a new block over the buffer *)
LEMMA FetchReady ==
  ASSUME NEW role, NEW s, NEW t, FetchRel(s, t), NEW k, Ready(role, s, k), s.fd.inode.size = Times(k), k \in Nat
  PROVE  Ready(role, t, k) /\ t.fd.curr_log = s.fd.curr_log
<1>1. /\ t.used = s.used /\ t.disk = s.disk /\ t.fd.file = s.fd.file /\ t.fd.inode = s.fd.inode /\ t.fd.dirty = s.fd.dirty
      /\ t.fd.curr_blk = s.fd.curr_blk /\ t.fd.curr_log = s.fd.curr_log /\ t.fd.filepos = s.fd.filepos /\ t.fd.bufpos = s.fd.bufpos
  BY DEF FetchRel, Ident, Pos, Blk
<1>2. InBuffer(t.fd.buffer, t.fd.inode.size, t.fd.file, k)
  <2>1. Times(k) \in Nat /\ Bytes \in Nat \ {0}
    BY TimesIs
  <2>2. \A q \in 0 .. Bytes - 1 : ~(Times(k) + q < Times(k))
    BY <2>1
  <2>. QED
    BY <2>2, <1>1 DEF InBuffer
<1>3. FdBuffered(role, s, k) /\ FdMapTo(role, s, Reached(s.fd))
  BY DEF Ready
<1>4. FdBuffered(role, t, k)
  BY <1>1, <1>2, <1>3 DEF FdBuffered, Buffered
<1>5. Reached(t.fd) = Reached(s.fd)
  BY <1>1 DEF Reached
<1>6. FdMapTo(role, t, Reached(t.fd))
  BY <1>1, <1>3, <1>5 DEF FdMapTo
<1>. QED
  BY <1>1, <1>4, <1>6 DEF Ready

(* The position of an append *)
LEMMA AtEndGoes ==
  ASSUME NEW role, NEW s, CallOK(role, s), NEW t, t = AtEnd(s)
  PROVE  Goes(role, s, role, t) /\ MoveRel(s, t, s.fd.inode.size, s.fd.inode.size % Bytes)
<1> DEFINE p == s.fd.inode.size
           q == p % Bytes
<1>1. s \in Calls /\ s.fd \in Descriptor
  BY CallIs DEF CallOK
<1>2. p \in Nat /\ p <= MaxSize /\ s.fd.inode \in Inode
  BY <1>1, FieldsAre
<1>3. q \in 0 .. Bytes - 1
  BY <1>2, TimesDiv
<1>4. MaxSize \in Nat /\ Bytes \in Nat \ {0}
  BY SfsFileAssumption DEF SfsFileAssumption
<1>5. t = [s EXCEPT !.fd = [[s.fd EXCEPT !.filepos = p] EXCEPT !.bufpos = q]]
  BY <1>1 DEF AtEnd, Calls, Descriptor
<1> HIDE DEF q
<1>6. p \in 0 .. MaxSize /\ q \in Int
  BY <1>2, <1>3, <1>4
<1> HIDE DEF p
<1>7. t \in Calls /\ MoveRel(s, t, p, q)
  BY <1>1, <1>5, <1>6, MoveIs
<1>8. Goes(role, s, role, t)
  BY <1>7, MoveGoes
<1>. QED
  BY <1>7, <1>8 DEF p, q

(* An append to a file with bytes: its last block is read, or the next one *)
(* made if that is full.                                                   *)
LEMMA PositionAppend ==
  ASSUME NEW role, NEW s, CallOK(role, s), s.ok, s.fd.inode.size > 0, s.fd.append, NEW n \in Nat, NEW final \in Nat, final <= MaxSize,
         NEW t, t = Loaded(FoundOrNew(Seek(AtEnd(s))))
  PROVE  \E role2 : /\ Goes(role, s, role2, t) /\ t.fd.filepos = s.fd.inode.size
                    /\ MayWrite(role, s, n, final) => Between(role2, t, n, final)
<1> DEFINE a == AtEnd(s)
           b == Seek(a)
           c == FoundOrNew(b)
           p == s.fd.inode.size
           k == p \div Bytes
           r == p % Bytes
<1>1. s \in Calls /\ s.fd \in Descriptor /\ p \in Nat /\ p <= MaxSize
  BY CallIs, FieldsAre DEF CallOK
<1>2. k \in Nat /\ r \in 0 .. Bytes - 1 /\ p = Times(k) + r /\ Times(k) \in Nat /\ Bytes \in Nat \ {0}
  BY <1>1, TimesDiv, TimesIs
<1>3. Goes(role, s, role, a) /\ MoveRel(s, a, p, r)
  BY AtEndGoes
<1> HIDE DEF a
<1>4. CallOK(role, a) /\ a \in Calls /\ a.fd.filepos = p /\ a.fd.bufpos = r /\ a.fd.inode = s.fd.inode /\ a.disk = s.disk /\ a.used = s.used
      /\ a.fd.dirty = s.fd.dirty /\ a.fd.file = s.fd.file /\ a.fd.curr_blk = s.fd.curr_blk /\ a.ok
  BY <1>3 DEF Goes, CallOK, MoveRel, Ident, Blk
<1>5. Goes(role, a, role, b) /\ SeekRel(a, b)
  BY <1>4, SeekGoes
<1>6. Goes(role, s, role, b) /\ CallOK(role, b) /\ b \in Calls
  BY <1>3, <1>5, GoesTrans DEF Goes, CallOK
<1>7. /\ b.used = s.used /\ b.disk = s.disk /\ b.ok /\ b.fd.filepos = p /\ b.fd.bufpos = r /\ b.fd.inode = s.fd.inode
      /\ b.fd.dirty = s.fd.dirty /\ b.fd.file = s.fd.file
      /\ b.fd.curr_log = k /\ b.fd.curr_blk = Log2Phys(b.disk, b.fd.inode, k)
  BY <1>4, <1>5 DEF SeekRel, Ident, Pos, k
<1>8. ASSUME MayWrite(role, s, n, final)
      PROVE  /\ k \in 0 .. Starts[4] - 1 /\ ~s.fd.dirty /\ p = n
             /\ FdMapOK(role, a) /\ FdMapOK(role, b) /\ b.fd.curr_blk = At(b.disk, b.fd.inode, Spot(k))
             /\ Mapped(s.disk, s.fd.inode, p)
  <2>1. ~s.fd.dirty /\ p = n /\ p < final /\ FdMapOK(role, s)
    BY <1>8 DEF MayWrite, Start
  <2>2. p < MaxSize
    BY <2>1, <1>1, SfsFileAssumption DEF SfsFileAssumption
  <2>3. k \in 0 .. Starts[4] - 1
    BY <2>2, <1>1, PositionInMap
  <2>4. FdMapOK(role, a)
    BY <2>1, <1>4 DEF FdMapOK
  <2>5. FdMapOK(role, b)
    BY <2>1, <1>7, MapOKClean DEF FdMapOK
  <2>6. Log2Phys(b.disk, b.fd.inode, k) = At(b.disk, b.fd.inode, Spot(k))
    BY <2>3, <1>2, StartsAre, AtSpot
  <2>7. Mapped(s.disk, s.fd.inode, p)
    BY <2>1 DEF FdMapOK, MapOK, MapTo
  <2>. QED
    BY <2>1, <2>3, <2>4, <2>5, <2>6, <2>7, <1>7
<1>9. CASE b.fd.curr_blk # 0
  <2>1. t = Fetch(Seek(a))
    BY <1>7, <1>9 DEF FoundOrNew, Loaded, a, b
  <2>2. Goes(role, a, role, t) /\ t.ok = a.ok /\ Pos(a.fd, t.fd) /\ t.fd.inode = a.fd.inode /\ t.disk = a.disk
    BY <2>1, <1>4, SeekFetch
  <2>3. Goes(role, s, role, t)
    BY <2>2, <1>3, GoesTrans
  <2>4. t.ok /\ t.fd.filepos = p /\ t.fd.bufpos = r /\ t.fd.inode = s.fd.inode /\ t.disk = s.disk /\ CallOK(role, t)
    BY <2>2, <1>4 DEF Pos, Goes
  <2> HIDE DEF b, c, r
  <2>5. ASSUME MayWrite(role, s, n, final) PROVE Between(role, t, n, final)
    <3>0. ~a.fd.dirty /\ FdMapOK(role, a) /\ k \in 0 .. Starts[4] - 1 /\ Times(k) <= a.fd.filepos /\ a.fd.filepos < Times(k) + Bytes /\ p = n
      BY <2>5, <1>2, <1>4, <1>8
    <3>1. FdBuffered(role, t, k) /\ FdMapOK(role, t) /\ t.fd.curr_log = k
      <4> HIDE DEF k
      <4>. QED
        BY <3>0, <2>1, <1>4, SeekData
    <3>2. LogOk(t.fd, k, final)
      BY <3>1 DEF LogOk
    <3>3. Grew(t.fd, n)
      BY <2>4, <3>0, <1>1 DEF Grew
    <3> HIDE DEF k
    <3>4. CASE r > 0
      <4>1. OnPos(t.fd, k)
        BY <3>4, <2>4, <1>2 DEF OnPos
      <4>2. Going(role, t, k)
        BY <4>1, <3>0, <3>1 DEF Going
      <4>3. Done(role, t, n, final)
        BY <4>2, <3>2, <3>3, <2>4, <1>2 DEF Done
      <4>. QED
        BY <4>3, <2>4, DoneBetween
    <3>5. CASE r = 0
      <4>1. p = Times(k) /\ p < p + 1 /\ p + 1 \in Nat
        BY <3>5, <1>2
      <4>2. At(s.disk, s.fd.inode, Spot(k)) # 0 /\ Mapped(s.disk, s.fd.inode, p)
        BY <2>5, <1>7, <1>8, <1>9
      <4>3. Mapped(t.disk, t.fd.inode, p + 1)
        <5>1. Mapped(s.disk, s.fd.inode, p + 1)
          BY <4>1, <4>2, <1>2, MappedOn
        <5>. QED
          BY <5>1, <2>4
      <4>4. Reached(t.fd) = p + 1
        BY <2>4, <1>1 DEF Reached
      <4>5. FdMapTo(role, t, Reached(t.fd))
        BY <4>3, <4>4, <3>1 DEF FdMapOK, FdMapTo, MapOK, MapTo
      <4>6. Ready(role, t, k)
        BY <4>1, <4>5, <3>0, <3>1, <3>5, <2>4, <1>1, <1>2 DEF Ready
      <4>. QED
        BY <4>6, <3>2, <3>3, <2>4, <1>2 DEF Between, Begun
    <3>. QED
      BY <3>4, <3>5, <1>2
  <2>. QED
    BY <2>3, <2>4, <2>5
<1>10. CASE b.fd.curr_blk = 0
  <2> HIDE DEF b
  <2>1. c = Extend(b, k) /\ t = Loaded(c)
    BY <1>7, <1>10 DEF FoundOrNew, a, b
  <2> HIDE DEF c, k, r
  <2>2. PICK role2 : /\ Goes(role, b, role2, c) /\ Pos(b.fd, c.fd)
                     /\ c.fd.inode.size = b.fd.inode.size
                     /\ /\ b.fd.inode.size = Times(k) /\ b.fd.filepos = Times(k) /\ b.fd.bufpos = 0 /\ ~b.fd.dirty
                        /\ FdMapOK(role, b) /\ k \in 0 .. Starts[4] - 1
                        => IF c.ok THEN Ready(role2, c, k) /\ c.fd.curr_log = k ELSE Failed(role2, c)
    BY <2>1, <1>2, <1>6, ExtendReady
  <2>3. Goes(role, s, role2, c) /\ CallOK(role2, c) /\ c.fd.filepos = p /\ c.fd.inode.size = p
    BY <2>2, <1>6, <1>7, GoesTrans DEF Goes, Pos
  <2>4. MayWrite(role, s, n, final) => IF c.ok THEN Ready(role2, c, k) /\ c.fd.curr_log = k ELSE Failed(role2, c)
    <3>1. SUFFICES ASSUME MayWrite(role, s, n, final)
                   PROVE  IF c.ok THEN Ready(role2, c, k) /\ c.fd.curr_log = k ELSE Failed(role2, c)
      OBVIOUS
    <3>2. k \in 0 .. Starts[4] - 1 /\ ~b.fd.dirty /\ FdMapOK(role, b) /\ At(s.disk, s.fd.inode, Spot(k)) = 0 /\ Mapped(s.disk, s.fd.inode, p)
      BY <3>1, <1>7, <1>8, <1>10
    <3>3. ~(Times(k) < p)
      BY <3>2 DEF Mapped
    <3>4. r = 0 /\ p = Times(k)
      BY <3>3, <1>1, <1>2
    <3>. QED
      BY <3>2, <3>4, <2>2, <1>7
  <2>5. MayWrite(role, s, n, final) => p = n
    BY <1>8
  <2>6. CASE ~c.ok
    <3>1. t = c
      BY <2>1, <2>6 DEF Loaded
    <3>2. MayWrite(role, s, n, final) => Between(role2, t, n, final)
      BY <3>1, <2>3, <2>4, <2>5, <2>6, <1>1 DEF Between, Begun, Grew
    <3>. QED
      BY <3>1, <3>2, <2>3
  <2>7. CASE c.ok
    <3>1. t = Fetch(c)
      BY <2>1, <2>7 DEF Loaded
    <3>2. Goes(role2, c, role2, t) /\ FetchRel(c, t)
      BY <3>1, <2>3, FetchGoes
    <3>3. Goes(role, s, role2, t)
      BY <3>2, <2>3, GoesTrans
    <3>4. t.ok /\ t.fd.filepos = p /\ t.fd.inode.size = p
      BY <3>2, <2>3, <2>7 DEF FetchRel, Pos
    <3>5. ASSUME MayWrite(role, s, n, final) PROVE Between(role2, t, n, final)
      <4>1. Ready(role2, c, k) /\ c.fd.curr_log = k /\ p = n
        BY <3>5, <2>4, <2>5, <2>7
      <4>2. At(s.disk, s.fd.inode, Spot(k)) = 0 /\ Mapped(s.disk, s.fd.inode, p) /\ k \in 0 .. Starts[4] - 1
        BY <3>5, <1>7, <1>8, <1>10
      <4>3. ~(Times(k) < p)
        BY <4>2 DEF Mapped
      <4>4. c.fd.inode.size = Times(k)
        BY <4>3, <2>3, <1>1, <1>2
      <4>5. Ready(role2, t, k) /\ t.fd.curr_log = k
        BY <4>1, <4>4, <3>2, <1>2, FetchReady
      <4>6. Grew(t.fd, n)
        BY <4>1, <3>4, <1>1 DEF Grew
      <4>. QED
        BY <4>5, <4>6, <3>4, <1>2 DEF Between, Begun, LogOk
    <3>. QED
      BY <3>3, <3>4, <3>5
  <2>. QED
    BY <2>6, <2>7
<1>. QED
  BY <1>9, <1>10

(* A descriptor of a file that was not misused, and of which a write may   *)
(* make use, is in the block of its position.                              *)
LEMMA LogIs ==
  ASSUME NEW fd \in Descriptor, NEW k \in Nat, OnPos(fd, k), NEW final \in Nat, LogNear(fd, final)
  PROVE  LogOk(fd, k, final)
<1> DEFINE l == fd.curr_log
           z == fd.bufpos
           x == Times(k)
<1>1. Bytes \in Nat \ {0} /\ x \in Nat /\ z \in Nat /\ fd.filepos = x + z /\ l \in Nat \cup {-1} /\ fd.inode.size \in Nat /\ Times(k + 1) = x + Bytes
  BY TimesIs, FieldsAre DEF OnPos
<1>2. CASE l * Bytes + z = fd.filepos
  <2>1. l \in Nat
    <3>1. SUFFICES ASSUME l = -1 PROVE FALSE
      BY <1>1
    <3>2. (-1) * Bytes = -Bytes
      BY <1>1
    <3>3. (-1) * Bytes + z = fd.filepos
      BY <3>1, <1>2
    <3>. QED
      BY <3>2, <3>3, <1>1
  <2>2. Times(l) = x
    <3>1. Times(l) = l * Bytes /\ Times(l) \in Nat
      BY <2>1, TimesIs DEF Times
    <3>2. Times(l) + z = x + z
      BY <3>1, <1>1, <1>2
    <3> HIDE DEF l, x, z
    <3>. QED
      BY <3>1, <3>2, <1>1
  <2>3. l = k
    <3> HIDE DEF l, x
    <3>1. ~(l < k)
      <4>1. SUFFICES ASSUME l < k PROVE FALSE
        OBVIOUS
      <4>2. Times(l) + Bytes <= Times(k)
        BY <4>1, <2>1, TimesBelow
      <4>. QED
        BY <4>2, <2>2, <1>1 DEF x
    <3>2. ~(k < l)
      <4>1. SUFFICES ASSUME k < l PROVE FALSE
        OBVIOUS
      <4>2. Times(k) + Bytes <= Times(l)
        BY <4>1, <2>1, TimesBelow
      <4>. QED
        BY <4>2, <2>2, <1>1 DEF x
    <3>. QED
      BY <3>1, <3>2, <2>1
  <2>. QED
    BY <2>3 DEF LogOk
<1>3. CASE fd.inode.size > fd.filepos - z + Bytes
  BY <1>1, <1>3 DEF LogOk
<1>4. CASE fd.filepos - z + Bytes >= final
  BY <1>1, <1>4 DEF LogOk
<1>. QED
  BY <1>2, <1>3, <1>4 DEF LogNear

(* A write starts in order, behind the end if it appends. *)
LEMMA PositionedGoes ==
  ASSUME NEW role, NEW s, CallOK(role, s), s.ok, NEW n \in Nat, NEW final \in Nat, final <= MaxSize,
         NEW t, t = Positioned(s)
  PROVE  \E role2 : /\ Goes(role, s, role2, t) /\ t.fd.filepos = Start(s.fd)
                    /\ MayWrite(role, s, n, final) => Between(role2, t, n, final)
<1>1. s \in Calls /\ s.fd \in Descriptor /\ s.fd.inode.size \in Nat /\ s.fd.filepos \in Nat
  BY CallIs, FieldsAre DEF CallOK
<1>2. CASE s.fd.inode.size = 0
  <2> DEFINE i == 0
  <2>1. t = Extend(s, i) /\ i \in Nat /\ Times(i) = 0 /\ i \in 0 .. Starts[4] - 1
    BY <1>2, TimesIs, StartsAre DEF Positioned
  <2> HIDE DEF i
  <2>2. PICK role2 : /\ Goes(role, s, role2, t) /\ Pos(s.fd, t.fd)
                     /\ t.fd.inode.size = s.fd.inode.size
                     /\ /\ s.fd.inode.size = Times(i) /\ s.fd.filepos = Times(i) /\ s.fd.bufpos = 0 /\ ~s.fd.dirty
                        /\ FdMapOK(role, s) /\ i \in 0 .. Starts[4] - 1
                        => IF t.ok THEN Ready(role2, t, i) /\ t.fd.curr_log = i ELSE Failed(role2, t)
    BY <2>1, ExtendReady
  <2>3. t.fd.filepos = Start(s.fd)
    BY <2>2, <1>2 DEF Start, Pos
  <2>4. ASSUME MayWrite(role, s, n, final) PROVE Between(role2, t, n, final)
    <3>1. FdRight(role, s.used, s.disk, s.fd) /\ FdMapOK(role, s) /\ ~s.fd.refused /\ s.fd.inode.size = n
      BY <2>4 DEF MayWrite
    <3>2. ~Ended(s.fd)
      BY <1>2 DEF Ended
    <3>3. \A k \in 0 .. Starts[4] - 1 : ~On(role, s.used, s.disk, s.fd, k)
      <4>1. \A k \in 0 .. Starts[4] - 1 : Times(k) \in Nat
        BY TimesIs, StartsAre
      <4>. QED
        BY <4>1, <1>2 DEF On, OnPos
    <3>4. Empty(s.fd)
      BY <3>1, <3>2, <3>3 DEF FdRight
    <3>5. IF t.ok THEN Ready(role2, t, i) /\ t.fd.curr_log = i ELSE Failed(role2, t)
      BY <3>1, <3>4, <2>1, <2>2 DEF Empty
    <3>6. Grew(t.fd, n)
      BY <3>1, <3>4, <2>2, <1>2 DEF Grew, Pos, Empty
    <3>. QED
      BY <3>5, <3>6, <2>1 DEF Between, Begun, LogOk
  <2>. QED
    BY <2>2, <2>3, <2>4
<1>3. CASE s.fd.inode.size > 0 /\ s.fd.append
  <2>1. t = Loaded(FoundOrNew(Seek(AtEnd(s))))
    BY <1>3 DEF Positioned
  <2>2. Start(s.fd) = s.fd.inode.size
    BY <1>3 DEF Start
  <2>. QED
    BY <2>1, <2>2, <1>3, PositionAppend
<1>4. CASE s.fd.inode.size > 0 /\ ~s.fd.append
  <2>1. t = s /\ t.fd.filepos = Start(s.fd)
    BY <1>4 DEF Positioned, Start
  <2>2. ASSUME MayWrite(role, s, n, final) PROVE Between(role, t, n, final)
    <3>1. FdRight(role, s.used, s.disk, s.fd) /\ FdMapOK(role, s) /\ ~s.fd.refused /\ s.fd.inode.size = n /\ ~Ended(s.fd) /\ LogNear(s.fd, final)
      BY <2>2, <1>4 DEF MayWrite
    <3>2. PICK k \in 0 .. Starts[4] - 1 : On(role, s.used, s.disk, s.fd, k)
      BY <3>1, <1>4 DEF FdRight, Empty
    <3>3. k \in Nat /\ OnPos(s.fd, k)
      BY <3>2, StartsAre DEF On
    <3>4. Going(role, s, k)
      BY <3>1, <3>2 DEF On, Going, FdBuffered
    <3>5. LogOk(s.fd, k, final)
      BY <3>1, <3>3, <1>1, LogIs
    <3>6. Grew(s.fd, n)
      BY <3>1, <3>3, <1>1 DEF Grew, OnPos
    <3>7. Done(role, s, n, final)
      BY <3>3, <3>4, <3>5, <3>6 DEF Done
    <3>. QED
      BY <3>7, <2>1, DoneBetween
  <2>. QED
    BY <2>1, <2>2, GoesSelf
<1>. QED
  BY <1>1, <1>2, <1>3, <1>4

(* The calls' states, byte after byte: w tells a write from a read. *)
Turn(w, x) == IF w THEN PutByte(x) ELSE GetByte(x)
Runs(w, a, n, f) == f = [k \in 0 .. n |-> IF k = 0 THEN a ELSE Turn(w, f[k - 1])]

(* The states of a loop. *)
LEMMA RunsIs ==
  ASSUME NEW w, NEW a, NEW n \in Nat, NEW f, Runs(w, a, n, f)
  PROVE  DOMAIN f = 0 .. n /\ f[0] = a /\ \A k \in 1 .. n : f[k] = Turn(w, f[k - 1])
<1>1. DOMAIN f = 0 .. n
  BY DEF Runs
<1>2. \A k \in 0 .. n : f[k] = IF k = 0 THEN a ELSE Turn(w, f[k - 1])
  BY DEF Runs
<1>. QED
  BY <1>1, <1>2

(* There are such states: no least number of bytes has none. *)
LEMMA RunsExist == ASSUME NEW w, NEW a, NEW n \in Nat PROVE \E f : Runs(w, a, n, f)
<1> DEFINE S == {m \in Nat : ~\E f : Runs(w, a, m, f)}
<1>1. S = {}
  <2>1. SUFFICES ASSUME S # {} PROVE FALSE
    OBVIOUS
  <2>2. PICK m \in S : \A j \in S : m <= j
    BY <2>1, LeastExists
  <2>3. m # 0
    <3> DEFINE f == [k \in 0 .. 0 |-> a]
    <3>1. Runs(w, a, 0, f)
      <4>1. \A k \in 0 .. 0 : k = 0
        OBVIOUS
      <4>. QED
        BY <4>1 DEF Runs
    <3>. QED
      BY <2>2, <3>1
  <2>4. m \in Nat /\ m - 1 \in Nat /\ ~(m <= m - 1)
    BY <2>2, <2>3
  <2>5. PICK f : Runs(w, a, m - 1, f)
    BY <2>2, <2>4
  <2> DEFINE e == [k \in 0 .. m |-> IF k = m THEN Turn(w, f[m - 1]) ELSE f[k]]
  <2>6. DOMAIN f = 0 .. m - 1 /\ f[0] = a /\ \A k \in 1 .. m - 1 : f[k] = Turn(w, f[k - 1])
    BY <2>4, <2>5, RunsIs
  <2>7. DOMAIN e = 0 .. m /\ (\A k \in 0 .. m - 1 : e[k] = f[k]) /\ e[m] = Turn(w, f[m - 1])
    BY <2>4
  <2>8. e = [k \in 0 .. m |-> e[k]]
    OBVIOUS
  <2> HIDE DEF e
  <2>9. ASSUME NEW k \in 0 .. m PROVE e[k] = IF k = 0 THEN a ELSE Turn(w, e[k - 1])
    <3>1. CASE k = 0
      BY <2>4, <2>6, <2>7, <3>1
    <3>2. CASE k = m
      <4>1. m - 1 \in 0 .. m - 1
        BY <2>4
      <4>. QED
        BY <2>3, <2>7, <3>2, <4>1
    <3>3. CASE k # 0 /\ k # m
      <4>1. k \in 1 .. m - 1 /\ k \in 0 .. m - 1 /\ k - 1 \in 0 .. m - 1
        BY <2>4, <3>3
      <4>. QED
        BY <2>6, <2>7, <3>3, <4>1
    <3>. QED
      BY <3>1, <3>2, <3>3
  <2>10. Runs(w, a, m, e)
    BY <2>8, <2>9 DEF Runs
  <2>. QED
    BY <2>2, <2>10
<1>. QED
  BY <1>1

(* What holds before the first byte and is kept by each *)
LEMMA AllTurns ==
  ASSUME NEW n \in Nat, NEW S, 0 \in S, \A k \in 0 .. n - 1 : k \in S => k + 1 \in S
  PROVE  n \in S
<1> DEFINE T == {k \in 0 .. n : k \notin S}
<1>1. SUFFICES ASSUME T # {} PROVE FALSE
  OBVIOUS
<1>2. T \in SUBSET Nat
  OBVIOUS
<1>3. PICK k \in T : \A j \in T : k <= j
  BY <1>1, <1>2, LeastExists
<1>4. k # 0 /\ k \in 0 .. n /\ k \notin S
  BY <1>3
<1>5. k - 1 \in 0 .. n - 1 /\ k - 1 \in 0 .. n /\ ~(k <= k - 1) /\ (k - 1) + 1 = k
  BY <1>4
<1>6. k - 1 \in S
  BY <1>3, <1>5
<1>. QED
  BY <1>4, <1>5, <1>6

(* The loop of Write. *)
LEMMA PutIs ==
  ASSUME NEW s, NEW n \in Nat
  PROVE  \E f : Runs(TRUE, Positioned(s), n, f) /\ Put(s, n) = f[n]
<1> DEFINE f == CHOOSE f : Runs(TRUE, Positioned(s), n, f)
<1>1. Runs(TRUE, Positioned(s), n, f)
  BY RunsExist
<1>2. Put(s, n) = f[n]
  BY DEF Put, Runs, Turn
<1>. QED
  BY <1>1, <1>2

(* The loop of Read. *)
LEMMA GetIs ==
  ASSUME NEW s, NEW n \in Nat
  PROVE  \E f : Runs(FALSE, s, n, f) /\ Get(s, n) = f[n]
<1> DEFINE f == CHOOSE f : Runs(FALSE, s, n, f)
<1>1. Runs(FALSE, s, n, f)
  BY RunsExist
<1>2. Get(s, n) = f[n]
  BY DEF Get, Runs, Turn
<1>. QED
  BY <1>1, <1>2

(* A whole write *)
Wrote(role, s, start, n, final, k, t, first) ==
  \E role2 : /\ Goes(role, s, role2, t) /\ t.fd.filepos <= start + k
             /\ MayWrite(role, s, n, final) => IF first THEN Between(role2, t, n, final) ELSE Done(role2, t, n, final)

(* A write of any length leaves all in order, and its bytes in their places. *)
LEMMA PutGoes ==
  ASSUME NEW role, NEW s, CallOK(role, s), s.ok, NEW m \in Nat \ {0}, NEW start, start = Start(s.fd),
         NEW final, final = start + m, final <= MaxSize, NEW n \in Nat, NEW t, t = Put(s, m)
  PROVE  \E role2 : Goes(role, s, role2, t) /\ (MayWrite(role, s, n, final) => Done(role2, t, n, final))
<1>1. s \in Calls /\ s.fd \in Descriptor /\ s.fd.inode.size \in Nat /\ s.fd.filepos \in Nat
  BY CallIs, FieldsAre DEF CallOK
<1>2. start \in Nat /\ final \in Nat /\ MaxSize \in Nat
  BY <1>1, SfsFileAssumption DEF Start, SfsFileAssumption
<1>3. PICK f : Runs(TRUE, Positioned(s), m, f) /\ t = f[m]
  BY PutIs
<1>4. f[0] = Positioned(s) /\ \A k \in 1 .. m : f[k] = PutByte(f[k - 1])
  <2> DEFINE w == TRUE
  <2>1. m \in Nat /\ Runs(w, Positioned(s), m, f)
    BY <1>3
  <2> HIDE DEF w
  <2>2. f[0] = Positioned(s) /\ \A k \in 1 .. m : f[k] = Turn(w, f[k - 1])
    BY <2>1, RunsIs
  <2>. QED
    BY <2>2 DEF Turn, w
<1> DEFINE S == {k \in 0 .. m : Wrote(role, s, start, n, final, k, f[k], k = 0)}
<1>5. 0 \in S
  <2>1. PICK role2 : /\ Goes(role, s, role2, f[0]) /\ f[0].fd.filepos = Start(s.fd)
                     /\ MayWrite(role, s, n, final) => Between(role2, f[0], n, final)
    BY <1>2, <1>4, PositionedGoes
  <2>2. f[0].fd.filepos <= start + 0
    BY <2>1, <1>2
  <2>3. Wrote(role, s, start, n, final, 0, f[0], 0 = 0)
    BY <2>1, <2>2 DEF Wrote
  <2>. QED
    BY <2>3
<1>6. ASSUME NEW k \in 0 .. m - 1, k \in S PROVE k + 1 \in S
  <2> DEFINE x == f[k]
             y == f[k + 1]
  <2>1. k + 1 \in 1 .. m /\ k + 1 \in 0 .. m /\ (k + 1) - 1 = k /\ k + 1 # 0 /\ k \in Nat /\ k < m
    OBVIOUS
  <2>2. y = PutByte(x)
    BY <1>4, <2>1
  <2>3. Wrote(role, s, start, n, final, k, x, k = 0)
    BY <1>6
  <2> HIDE DEF x, y, S
  <2>4. PICK role1 : /\ Goes(role, s, role1, x) /\ x.fd.filepos <= start + k
                     /\ MayWrite(role, s, n, final) => IF k = 0 THEN Between(role1, x, n, final) ELSE Done(role1, x, n, final)
    BY <2>3 DEF Wrote
  <2>5. CallOK(role1, x) /\ x.fd.filepos \in Nat /\ x.fd.filepos < final /\ x.fd.filepos < MaxSize
    <3>1. CallOK(role1, x)
      BY <2>4 DEF Goes
    <3>2. x.fd.filepos \in Nat
      BY <3>1, CallIs, FieldsAre DEF CallOK
    <3>. QED
      BY <3>1, <3>2, <2>1, <2>4, <1>2
  <2>6. PICK role2 : /\ Goes(role1, x, role2, y) /\ y.fd.filepos <= x.fd.filepos + 1
                     /\ Between(role1, x, n, final) /\ x.fd.filepos < final => Done(role2, y, n, final)
    BY <2>2, <2>5, <1>2, PutByteGoes
  <2>7. Goes(role, s, role2, y)
    BY <2>4, <2>6, GoesTrans
  <2>8. y.fd.filepos \in Nat
    BY <2>7, CallIs, FieldsAre DEF Goes, CallOK
  <2>9. y.fd.filepos <= start + (k + 1)
    BY <2>1, <2>4, <2>5, <2>6, <2>8, <1>2
  <2>10. MayWrite(role, s, n, final) => Done(role2, y, n, final)
    BY <2>4, <2>5, <2>6, <1>2, DoneBetween
  <2>11. Wrote(role, s, start, n, final, k + 1, y, k + 1 = 0)
    BY <2>1, <2>7, <2>9, <2>10 DEF Wrote
  <2>. QED
    BY <2>1, <2>11 DEF S, y
<1>7. m \in S
  <2> HIDE DEF S
  <2>. QED
    BY <1>5, <1>6, AllTurns
<1>8. Wrote(role, s, start, n, final, m, t, m = 0)
  BY <1>3, <1>7
<1>. QED
  BY <1>8 DEF Wrote

(* A descriptor of a file that was not misused, in a read: before the      *)
(* first byte, at the end, or with a byte at hand.                         *)
Reading(role, s) ==
  /\ FdMapOK(role, s)
  /\ \/ Empty(s.fd)
     \/ Ended(s.fd)
     \/ \E k \in Nat : Going(role, s, k) /\ (s.fd.bufpos \in 0 .. Bytes - 1 \/ s.fd.filepos = s.fd.inode.size)

(* What a read leaves as it was *)
GetRel(role, s, t) ==
  /\ Goes(role, s, role, t) /\ t.used = s.used /\ t.fd.inode = s.fd.inode /\ t.ok = s.ok
  /\ ~s.fd.dirty => t.disk = s.disk /\ t.inodes = s.inodes /\ ~t.fd.dirty
  /\ Reading(role, s) => Reading(role, t)

(* Two bytes read are read right. *)
LEMMA GetRelTrans ==
  ASSUME NEW role, NEW s, NEW t, NEW u, GetRel(role, s, t), GetRel(role, t, u)
  PROVE  GetRel(role, s, u)
<1>1. Goes(role, s, role, t) /\ Goes(role, t, role, u)
  BY DEF GetRel
<1>2. Goes(role, s, role, u)
  BY <1>1, GoesTrans
<1>. QED
  BY <1>2 DEF GetRel

(* A byte from the middle of the buffer *)
LEMMA GetNear ==
  ASSUME NEW role, NEW s, CallOK(role, s), s.fd.filepos < s.fd.inode.size, s.fd.bufpos + 1 \in 0 .. Bytes - 1,
         NEW t \in Calls, MoveRel(s, t, s.fd.filepos + 1, s.fd.bufpos + 1)
  PROVE  GetRel(role, s, t)
<1>1. s \in Calls /\ s.fd \in Descriptor /\ s.fd.filepos \in Nat /\ s.fd.bufpos \in Int /\ s.fd.inode.size \in Nat
  BY CallIs, FieldsAre DEF CallOK
<1>2. Goes(role, s, role, t)
  BY MoveGoes
<1>3. /\ t.used = s.used /\ t.disk = s.disk /\ t.inodes = s.inodes /\ t.ok = s.ok /\ t.fd.file = s.fd.file
      /\ t.fd.curr_blk = s.fd.curr_blk /\ t.fd.inode = s.fd.inode /\ t.fd.dirty = s.fd.dirty /\ t.fd.buffer = s.fd.buffer
      /\ t.fd.filepos = s.fd.filepos + 1 /\ t.fd.bufpos = s.fd.bufpos + 1
  BY DEF MoveRel, Ident, Blk
<1>4. ASSUME Reading(role, s) PROVE Reading(role, t)
  <2>1. PICK k \in Nat : Going(role, s, k)
    BY <1>1, <1>4 DEF Reading, Empty, Ended
  <2>2. OnPos(s.fd, k) /\ FdBuffered(role, s, k) /\ FdMapOK(role, s) /\ k \in 0 .. Starts[4] - 1
    BY <2>1 DEF Going
  <2>3. Times(k) \in Nat /\ Bytes \in Nat \ {0}
    BY TimesIs
  <2>4. t.fd.filepos = Times(k) + t.fd.bufpos /\ t.fd.bufpos \in 0 .. Bytes /\ t.fd.bufpos \in 0 .. Bytes - 1 /\ t.fd.filepos <= t.fd.inode.size
        /\ Times(k) < t.fd.inode.size
    BY <2>2, <2>3, <1>1, <1>3 DEF OnPos
  <2>5. FdBuffered(role, t, k) /\ FdMapOK(role, t)
    BY <2>2, <1>3 DEF FdBuffered, FdMapOK
  <2>6. Going(role, t, k)
    BY <2>2, <2>4, <2>5 DEF Going, OnPos
  <2>. QED
    BY <2>4, <2>5, <2>6 DEF Reading
<1>. QED
  BY <1>2, <1>3, <1>4 DEF GetRel

(* The buffer saved if it must be *)
SavedRel(role, s, t) ==
  /\ Goes(role, s, role, t) /\ t.used = s.used /\ t.fd.inode = s.fd.inode /\ t.ok = s.ok /\ Pos(s.fd, t.fd) /\ ~t.fd.dirty
  /\ ~s.fd.dirty => t.disk = s.disk /\ t.inodes = s.inodes /\ t = s
  /\ \A k \in Nat : FdBuffered(role, s, k) /\ FdMapOK(role, s) => FdMapOK(role, t)

(* Saved leaves all in order and nothing to save. *)
LEMMA SavedGoes ==
  ASSUME NEW role, NEW s, CallOK(role, s), NEW t, t = Saved(s)
  PROVE  SavedRel(role, s, t)
<1>1. CASE s.fd.dirty
  <2>1. t = Flush(s)
    BY <1>1 DEF Saved
  <2>2. Goes(role, s, role, t) /\ FlushRel(s, t)
    BY <2>1, FlushGoes
  <2>3. t \in Calls
    BY <2>2 DEF Goes, CallOK
  <2>4. \A k \in Nat : FdBuffered(role, s, k) /\ FdMapOK(role, s) => FdMapOK(role, t)
    BY <2>2, <2>3, FlushData
  <2>. QED
    BY <2>2, <2>4, <1>1 DEF FlushRel, SavedRel
<1>2. CASE ~s.fd.dirty
  <2>1. t = s
    BY <1>2 DEF Saved
  <2>2. Goes(role, s, role, s)
    BY GoesSelf
  <2>. QED
    BY <2>1, <2>2, <1>2 DEF Pos, SavedRel
<1>. QED
  BY <1>1, <1>2

(* The last byte of the buffer: it is saved, and the next block is read if *)
(* there is one.                                                           *)
LEMMA GetNext ==
  ASSUME NEW role, NEW s, CallOK(role, s), s.fd.filepos < s.fd.inode.size, s.fd.bufpos + 1 \notin 0 .. Bytes - 1,
         NEW y \in Calls, MoveRel(s, y, s.fd.filepos + 1, 0),
         NEW z, z = IF y.fd.dirty THEN Flush(y) ELSE y,
         NEW t, t = IF z.fd.filepos < z.fd.inode.size THEN Fetch(Seek(z)) ELSE z
  PROVE  GetRel(role, s, t) /\ t \in Calls /\ ~t.fd.dirty
<1>1. s \in Calls /\ s.fd \in Descriptor /\ s.fd.filepos \in Nat /\ s.fd.bufpos \in Int /\ s.fd.inode.size \in Nat /\ s.fd.inode.size <= MaxSize
  BY CallIs, FieldsAre DEF CallOK
<1>2. Goes(role, s, role, y)
  BY MoveGoes
<1>3. /\ y.used = s.used /\ y.disk = s.disk /\ y.inodes = s.inodes /\ y.ok = s.ok /\ y.fd.file = s.fd.file
      /\ y.fd.curr_blk = s.fd.curr_blk /\ y.fd.inode = s.fd.inode /\ y.fd.dirty = s.fd.dirty /\ y.fd.buffer = s.fd.buffer
      /\ y.fd.filepos = s.fd.filepos + 1 /\ y.fd.bufpos = 0
  BY DEF MoveRel, Ident, Blk
<1>4. CallOK(role, y)
  BY <1>2 DEF Goes
<1>5. SavedRel(role, y, z)
  BY <1>4, SavedGoes DEF Saved
<1>6. Goes(role, s, role, z) /\ CallOK(role, z) /\ z \in Calls
  BY <1>2, <1>5, GoesTrans DEF SavedRel, Goes, CallOK
<1>7. z.fd.filepos = s.fd.filepos + 1 /\ z.fd.bufpos = 0 /\ z.fd.inode = s.fd.inode
  BY <1>3, <1>5 DEF SavedRel, Pos
<1>8. ASSUME NEW k \in Nat, Going(role, s, k), s.fd.bufpos \in 0 .. Bytes - 1
      PROVE  FdMapOK(role, z) /\ z.fd.filepos = Times(k + 1) /\ z.fd.filepos <= z.fd.inode.size
  <2>1. OnPos(s.fd, k) /\ FdBuffered(role, s, k) /\ FdMapOK(role, s)
    BY <1>8 DEF Going
  <2>2. FdBuffered(role, y, k) /\ FdMapOK(role, y)
    BY <2>1, <1>3 DEF FdBuffered, FdMapOK
  <2>3. FdMapOK(role, z)
    BY <2>2, <1>5 DEF SavedRel
  <2>4. s.fd.bufpos + 1 = Bytes
    <3>1. Bytes \in Nat
      BY TimesIs
    <3>. QED
      BY <3>1, <1>1, <1>8
  <2>5. z.fd.filepos = Times(k + 1)
    <3>1. Times(k) \in Nat /\ Times(k + 1) = Times(k) + Bytes /\ Bytes \in Nat
      BY TimesIs
    <3>2. s.fd.filepos = Times(k) + s.fd.bufpos
      BY <2>1 DEF OnPos
    <3>. QED
      BY <3>1, <3>2, <2>4, <1>1, <1>7
  <2>6. z.fd.filepos <= z.fd.inode.size
    BY <1>1, <1>7
  <2>. QED
    BY <2>3, <2>5, <2>6
<1>9. ASSUME Reading(role, s)
      PROVE  \E k \in Nat : Going(role, s, k) /\ s.fd.bufpos \in 0 .. Bytes - 1
  BY <1>1, <1>9 DEF Reading, Empty, Ended
<1>10. CASE z.fd.filepos < z.fd.inode.size
  <2>1. t = Fetch(Seek(z))
    BY <1>10
  <2>2. /\ Goes(role, z, role, t) /\ t.ok = z.ok /\ Pos(z.fd, t.fd) /\ t.fd.inode = z.fd.inode /\ t.fd.dirty = z.fd.dirty
        /\ t.used = z.used /\ t.disk = z.disk /\ t.inodes = z.inodes
    BY <2>1, <1>6, SeekFetch
  <2>3. Goes(role, s, role, t) /\ t \in Calls
    BY <2>2, <1>6, GoesTrans DEF Goes, CallOK
  <2>4. ASSUME Reading(role, s) PROVE Reading(role, t)
    <3>1. PICK k \in Nat : Going(role, s, k) /\ s.fd.bufpos \in 0 .. Bytes - 1
      BY <2>4, <1>9
    <3> DEFINE l == k + 1
    <3>2. FdMapOK(role, z) /\ z.fd.filepos = Times(l) /\ l \in Nat
      BY <3>1, <1>8
    <3> HIDE DEF l
    <3>3. Times(l) \in Nat /\ Bytes \in Nat \ {0}
      BY <3>2, TimesIs
    <3>4. Times(l) < MaxSize
      BY <3>2, <3>3, <1>1, <1>7, <1>10, SfsFileAssumption DEF SfsFileAssumption
    <3>5. l \in 0 .. Starts[4] - 1
      BY <3>2, <3>4, TimesInMap
    <3>6. Times(l) <= z.fd.filepos /\ z.fd.filepos < Times(l) + Bytes
      BY <3>2, <3>3
    <3>7. FdBuffered(role, t, l) /\ FdMapOK(role, t)
      BY <3>2, <3>5, <3>6, <2>1, <1>5, <1>6, SeekData DEF SavedRel
    <3>8. t.fd.filepos = Times(l) /\ t.fd.bufpos = 0 /\ Times(l) < t.fd.inode.size
      BY <3>2, <2>2, <1>7, <1>10 DEF Pos
    <3>9. OnPos(t.fd, l) /\ t.fd.bufpos \in 0 .. Bytes - 1
      BY <3>3, <3>8, <2>2, <1>1, <1>7 DEF OnPos
    <3>10. Going(role, t, l)
      BY <3>5, <3>7, <3>9 DEF Going
    <3>. QED
      BY <3>2, <3>7, <3>9, <3>10 DEF Reading
  <2>. QED
    BY <2>2, <2>3, <2>4, <1>3, <1>5 DEF SavedRel, GetRel
<1>11. CASE ~(z.fd.filepos < z.fd.inode.size)
  <2>1. t = z
    BY <1>11
  <2>2. ASSUME Reading(role, s) PROVE Reading(role, z)
    <3>1. PICK k \in Nat : Going(role, s, k) /\ s.fd.bufpos \in 0 .. Bytes - 1
      BY <2>2, <1>9
    <3>2. FdMapOK(role, z) /\ z.fd.filepos <= z.fd.inode.size
      BY <3>1, <1>8
    <3>3. Ended(z.fd)
      BY <3>2, <1>1, <1>5, <1>7, <1>11 DEF SavedRel, Ended
    <3>. QED
      BY <3>2, <3>3 DEF Reading
  <2>. QED
    BY <2>1, <2>2, <1>3, <1>5, <1>6 DEF SavedRel, GetRel
<1>. QED
  BY <1>10, <1>11

(* GetByte leaves all in order, and the next byte in the buffer. *)
LEMMA GetByteGoes ==
  ASSUME NEW role, NEW s, CallOK(role, s), NEW t, t = GetByte(s)
  PROVE  GetRel(role, s, t)
<1> DEFINE fd == s.fd
           p == fd.filepos + 1
           q == fd.bufpos + 1
<1>1. s \in Calls /\ fd \in Descriptor /\ fd.filepos \in Nat /\ fd.bufpos \in Int /\ fd.inode.size \in Nat /\ fd.inode.size <= MaxSize
  BY CallIs, FieldsAre DEF CallOK
<1>2. MaxSize \in Nat /\ Bytes \in Nat \ {0}
  BY SfsFileAssumption DEF SfsFileAssumption
<1>3. CASE fd.filepos >= fd.inode.size
  <2>1. t = s
    BY <1>3 DEF GetByte
  <2>. QED
    BY <2>1, GoesSelf DEF GetRel
<1>4. CASE fd.filepos < fd.inode.size
  <2> DEFINE u == [s EXCEPT !.fd.bufpos = @ + 1, !.fd.filepos = @ + 1]
  <2>1. t = Given(u)
    BY <1>1, <1>4 DEF GetByte
  <2>2. p \in 0 .. MaxSize
    BY <1>1, <1>2, <1>4
  <2>3. u.fd.bufpos = q /\ u.fd = [[fd EXCEPT !.bufpos = q] EXCEPT !.filepos = p] /\ u.fd.dirty = fd.dirty
    BY <1>1 DEF Calls, Descriptor
  <2>4. CASE q \in 0 .. Bytes - 1
    <3>1. t = u
      BY <2>1, <2>3, <2>4 DEF Given, Full
    <3>2. u = [s EXCEPT !.fd = [[fd EXCEPT !.filepos = p] EXCEPT !.bufpos = q]]
      BY <1>1 DEF Calls, Descriptor
    <3> HIDE DEF u
    <3>3. q \in Int
      BY <1>1, <1>2, <2>4
    <3>4. t \in Calls /\ MoveRel(s, t, p, q)
      <4> HIDE DEF p, q, fd
      <4>. QED
        BY <1>1, <2>2, <3>1, <3>2, <3>3, MoveIs DEF fd
    <3>. QED
      BY <1>4, <2>4, <3>4, GetNear
  <2>5. CASE q \notin 0 .. Bytes - 1
    <3> DEFINE y == [s EXCEPT !.fd = [[fd EXCEPT !.filepos = p] EXCEPT !.bufpos = 0]]
               z == IF y.fd.dirty THEN Flush(y) ELSE y
               x == IF z.fd.filepos < z.fd.inode.size THEN Fetch(Seek(z)) ELSE z
    <3>1. [u EXCEPT !.fd.bufpos = 0] = y
      BY <1>1 DEF Calls, Descriptor
    <3>2. y.fd.dirty = fd.dirty
      BY <1>1 DEF Calls, Descriptor
    <3>3. t = Onward(AtBufferEnd(u))
      BY <1>1, <1>2, <2>1, <2>3, <2>5 DEF Given, Full
    <3>4. AtBufferEnd(u) = z
      BY <2>3, <3>1, <3>2 DEF AtBufferEnd
    <3> HIDE DEF u
    <3>5. 0 \in Int
      BY <1>2
    <3>6. y \in Calls /\ MoveRel(s, y, p, 0)
      <4> DEFINE r == 0
      <4>1. r \in Int
        BY <3>5
      <4> HIDE DEF p, q, fd, r
      <4>2. y = [s EXCEPT !.fd = [[s.fd EXCEPT !.filepos = p] EXCEPT !.bufpos = r]]
        BY DEF fd, r
      <4> HIDE DEF y
      <4>3. y \in Calls /\ MoveRel(s, y, p, r)
        BY <1>1, <2>2, <4>1, <4>2, MoveIs
      <4>. QED
        BY <4>3 DEF r
    <3> HIDE DEF y
    <3>7. GetRel(role, s, x) /\ x \in Calls /\ ~x.fd.dirty
      <4> HIDE DEF z
      <4>1. z = IF y.fd.dirty THEN Flush(y) ELSE y
        BY DEF z
      <4> HIDE DEF x
      <4>2. x = IF z.fd.filepos < z.fd.inode.size THEN Fetch(Seek(z)) ELSE z
        BY DEF x
      <4>. QED
        BY <4>1, <4>2, <1>4, <2>5, <3>6, GetNext
    <3>8. t = x
      <4>1. t = Onward(z)
        BY <3>3, <3>4
      <4> HIDE DEF z
      <4>2. CASE z.fd.filepos < z.fd.inode.size
        <5>1. t = [Fetch(Seek(z)) EXCEPT !.fd.dirty = FALSE] /\ x = Fetch(Seek(z))
          BY <4>1, <4>2 DEF Onward
        <5> HIDE DEF x
        <5>2. [x EXCEPT !.fd.dirty = FALSE] = x
          BY <3>7 DEF Calls, Descriptor
        <5>. QED
          BY <5>1, <5>2
      <4>3. CASE ~(z.fd.filepos < z.fd.inode.size)
        BY <4>1, <4>3 DEF Onward
      <4>. QED
        BY <4>2, <4>3
    <3>. QED
      BY <3>7, <3>8
  <2>. QED
    BY <1>1, <1>2, <2>4, <2>5
<1>. QED
  BY <1>1, <1>3, <1>4

(* A whole read *)
LEMMA GetGoes ==
  ASSUME NEW role, NEW s, CallOK(role, s), NEW m \in Nat, NEW t, t = Get(s, m)
  PROVE  GetRel(role, s, t)
<1>3. PICK f : Runs(FALSE, s, m, f) /\ t = f[m]
  BY GetIs
<1>4. f[0] = s /\ \A k \in 1 .. m : f[k] = GetByte(f[k - 1])
  <2> DEFINE w == FALSE
  <2>1. m \in Nat /\ Runs(w, s, m, f)
    BY <1>3
  <2> HIDE DEF w
  <2>2. f[0] = s /\ \A k \in 1 .. m : f[k] = Turn(w, f[k - 1])
    BY <2>1, RunsIs
  <2>. QED
    BY <2>2 DEF Turn, w
<1> DEFINE S == {k \in 0 .. m : GetRel(role, s, f[k])}
<1>5. 0 \in S
  BY <1>4, GoesSelf DEF GetRel
<1>6. ASSUME NEW k \in 0 .. m - 1, k \in S PROVE k + 1 \in S
  <2> DEFINE x == f[k]
             y == f[k + 1]
  <2>1. k + 1 \in 1 .. m /\ k + 1 \in 0 .. m /\ (k + 1) - 1 = k
    OBVIOUS
  <2>2. y = GetByte(x)
    BY <1>4, <2>1
  <2>3. GetRel(role, s, x)
    BY <1>6
  <2> HIDE DEF x, y, S
  <2>4. CallOK(role, x)
    BY <2>3 DEF GetRel, Goes
  <2>5. GetRel(role, s, y)
    BY <2>2, <2>3, <2>4, GetByteGoes, GetRelTrans
  <2>. QED
    BY <2>1, <2>5 DEF S, y
<1>7. m \in S
  <2> HIDE DEF S
  <2>. QED
    BY <1>5, <1>6, AllTurns
<1>. QED
  BY <1>3, <1>7

(* lseek: a block read, by its number in the file *)
LoadRel(s, t, log) ==
  /\ t.used = s.used /\ t.disk = s.disk /\ t.inodes = s.inodes /\ t.ok = s.ok
  /\ Ident(s.fd, t.fd) /\ t.fd.inode = s.fd.inode /\ t.fd.dirty = s.fd.dirty
  /\ t.fd.curr_blk = Log2Phys(s.disk, s.fd.inode, log)
  /\ t.fd.curr_blk \in Blocks => t.fd.buffer = s.disk[t.fd.curr_blk]

(* ReadBlock leaves all in order, and the block in the buffer. *)
LEMMA ReadBlockGoes ==
  ASSUME NEW role, NEW s, CallOK(role, s), ~s.fd.dirty, NEW log \in Nat, NEW t, t = ReadBlock(s, log)
  PROVE  Goes(role, s, role, t) /\ LoadRel(s, t, log)
<1> DEFINE b == Log2Phys(s.disk, s.fd.inode, log)
           u == [s EXCEPT !.fd.curr_blk = b]
           x == Fetch(u)
<1>1. s \in Calls /\ s.fd \in Descriptor /\ Volume(s) \in Volumes /\ Volume(s).used = s.used /\ Volume(s).disk = s.disk
      /\ s.used \in SUBSET Blocks /\ s.fd.dirty = FALSE
  BY CallIs, FieldsAre DEF CallOK
<1>2. Holds(role, s.used, s.fd.file, Spot(log), b)
  <2>1. Vol(role, Volume(s)) /\ InodeOK(role, Volume(s).used, s.fd.file, s.fd.inode)
    BY <1>1 DEF CallOK, DescOK
  <2>2. Holds(role, Volume(s).used, s.fd.file, Spot(log), Log2Phys(Volume(s).disk, s.fd.inode, log))
    BY <1>1, <2>1, LogHolds
  <2>. QED
    BY <2>2, <1>1
<1>3. b \in Numbers
  BY <1>1, <1>2, HoldsNumber
<1>4. BlkOK(role, s.used, s.fd.file, b)
  BY <1>2, SpotIs DEF BlkOK
<1> HIDE DEF b
<1>5. /\ u \in Calls /\ u.used = s.used /\ u.disk = s.disk /\ u.inodes = s.inodes /\ u.ok = s.ok
      /\ Ident(s.fd, u.fd) /\ u.fd.inode = s.fd.inode /\ u.fd.dirty = s.fd.dirty /\ u.fd.curr_blk = b
  <2> DEFINE gd == [s.fd EXCEPT !.curr_blk = b]
  <2>1. gd \in Descriptor
    BY <1>1, <1>3 DEF Descriptor
  <2>2. Ident(s.fd, gd) /\ gd.inode = s.fd.inode /\ gd.dirty = s.fd.dirty /\ gd.curr_blk = b
    BY <1>1 DEF Descriptor, Ident
  <2>3. u = [s EXCEPT !.fd = gd]
    BY <1>1 DEF Calls
  <2> HIDE DEF gd
  <2>4. u \in Calls /\ u.used = s.used /\ u.disk = s.disk /\ u.inodes = s.inodes /\ u.ok = s.ok /\ u.fd = gd
    BY <1>1, <2>1, <2>3 DEF Calls
  <2>. QED
    BY <2>2, <2>4
<1>6. t = [x EXCEPT !.fd.dirty = FALSE]
  BY DEF ReadBlock, b
<1> HIDE DEF u
<1>7. u.fd \in Descriptor /\ u.fd.file = s.fd.file
  BY <1>5, CallIs DEF Ident
<1>8. DescOK(role, u.used, u.fd)
  BY <1>4, <1>5, <1>7 DEF CallOK, DescOK
<1>9. Goes(role, s, role, u)
  BY <1>5, <1>8, GoesPlain
<1>10. CallOK(role, u)
  BY <1>9 DEF Goes
<1>11. Goes(role, u, role, x) /\ FetchRel(u, x)
  BY <1>10, FetchGoes
<1> HIDE DEF x
<1>12. x \in Calls /\ x.fd.dirty = FALSE
  BY <1>1, <1>5, <1>11 DEF Goes, CallOK, FetchRel
<1>13. t = x
  BY <1>6, <1>12 DEF Calls, Descriptor
<1>14. Goes(role, s, role, t)
  BY <1>9, <1>11, <1>13, GoesTrans
<1>15. LoadRel(s, t, log)
  BY <1>5, <1>11, <1>13 DEF LoadRel, FetchRel, Ident, Blk, b
<1>. QED
  BY <1>14, <1>15

(* So it does with another number of the block. *)
LEMMA LogSet ==
  ASSUME NEW role, NEW s, CallOK(role, s), NEW log \in Nat, NEW t, t = [s EXCEPT !.fd = [s.fd EXCEPT !.curr_log = log]],
         NEW z, NEW l, LoadRel(z, s, l)
  PROVE  Goes(role, s, role, t) /\ LoadRel(z, t, l)
<1> DEFINE gd == [s.fd EXCEPT !.curr_log = log]
<1>1. s \in Calls /\ s.fd \in Descriptor
  BY CallIs DEF CallOK
<1>2. gd \in Descriptor
  BY <1>1 DEF Descriptor
<1>3. Ident(s.fd, gd) /\ gd.inode = s.fd.inode /\ gd.dirty = s.fd.dirty /\ gd.curr_blk = s.fd.curr_blk /\ gd.buffer = s.fd.buffer
  BY <1>1 DEF Descriptor, Ident
<1> HIDE DEF gd
<1>4. t = [s EXCEPT !.fd = gd]
  BY DEF gd
<1>5. t \in Calls /\ t.used = s.used /\ t.disk = s.disk /\ t.inodes = s.inodes /\ t.ok = s.ok /\ t.fd = gd
  BY <1>1, <1>2, <1>4 DEF Calls
<1>6. DescOK(role, t.used, t.fd)
  BY <1>2, <1>3, <1>5 DEF CallOK, DescOK, Ident
<1>7. Goes(role, s, role, t)
  BY <1>3, <1>5, <1>6, GoesPlain
<1>8. LoadRel(z, t, l)
  BY <1>3, <1>5 DEF LoadRel, Ident
<1>. QED
  BY <1>7, <1>8

(* Where lseek has landed: block log of the file is in the buffer *)
Landed(role, s, t, log, p, q) ==
  Goes(role, s, role, t) /\ LoadRel(s, t, log) /\ t.fd.filepos = p /\ t.fd.bufpos = q

(* And with another position. *)
LEMMA MovedThere ==
  ASSUME NEW role, NEW s, NEW x, Goes(role, s, role, x), NEW log, LoadRel(s, x, log),
         NEW p \in 0 .. MaxSize, NEW q \in Int,
         NEW t, t = [x EXCEPT !.fd = [[x.fd EXCEPT !.filepos = p] EXCEPT !.bufpos = q]]
  PROVE  Landed(role, s, t, log, p, q)
<1>1. CallOK(role, x) /\ x \in Calls
  BY DEF Goes, CallOK
<1>2. t \in Calls /\ MoveRel(x, t, p, q)
  BY <1>1, MoveIs
<1>3. Goes(role, x, role, t)
  BY <1>1, <1>2, MoveGoes
<1>4. Goes(role, s, role, t)
  BY <1>3, GoesTrans
<1>5. LoadRel(s, t, log)
  BY <1>2 DEF LoadRel, MoveRel, Ident, Blk
<1>. QED
  BY <1>2, <1>4, <1>5 DEF Landed, MoveRel

(* A place in the file, with the byte there in the buffer *)
LEMMA LandedData ==
  ASSUME NEW role, NEW s, CallOK(role, s), ~s.fd.dirty, FdMapOK(role, s),
         NEW log \in Nat, NEW p, NEW q, NEW t, Landed(role, s, t, log, p, q),
         p < s.fd.inode.size, p = Times(log) + q, q \in Nat, q < Bytes
  PROVE  Going(role, t, log)
<1>1. Goes(role, s, role, t) /\ LoadRel(s, t, log) /\ t.fd.filepos = p /\ t.fd.bufpos = q
  BY DEF Landed
<1>2. CallOK(role, t) /\ t \in Calls /\ s \in Calls /\ s.fd \in Descriptor
  BY <1>1, CallIs DEF Goes, CallOK
<1>3. /\ t.used = s.used /\ t.disk = s.disk /\ t.fd.inode = s.fd.inode /\ t.fd.file = s.fd.file /\ ~t.fd.dirty
      /\ t.fd.curr_blk = Log2Phys(s.disk, s.fd.inode, log)
      /\ t.fd.curr_blk \in Blocks => t.fd.buffer = s.disk[t.fd.curr_blk]
  BY <1>1 DEF LoadRel, Ident
<1>4. s.fd.inode.size \in Nat /\ s.fd.inode.size <= MaxSize /\ MaxSize \in Nat /\ Times(log) \in Nat /\ Bytes \in Nat \ {0}
  BY <1>2, FieldsAre, TimesIs, SfsFileAssumption DEF SfsFileAssumption
<1>5. p \in Nat /\ Times(log) < MaxSize /\ Times(log) < s.fd.inode.size
  BY <1>4
<1>6. log \in 0 .. Starts[4] - 1 /\ log < Starts[4]
  BY <1>5, TimesInMap, StartsAre
<1>7. t.fd.curr_blk = At(t.disk, t.fd.inode, Spot(log))
  BY <1>3, <1>6, AtSpot
<1>8. FdMapOK(role, t)
  BY <1>3, MapOKClean DEF FdMapOK
<1>9. FdBuffered(role, t, log)
  BY <1>2, <1>3, <1>6, <1>7, <1>8, LoadCall
<1>10. OnPos(t.fd, log)
  BY <1>1, <1>3, <1>4, <1>5 DEF OnPos
<1>. QED
  BY <1>6, <1>8, <1>9, <1>10 DEF Going

(* What a seek leaves as it was *)
SeekDone(role, s, t) ==
  /\ Goes(role, s, role, t) /\ t.used = s.used /\ t.fd.inode = s.fd.inode
  /\ ~s.fd.dirty => t.disk = s.disk /\ t.inodes = s.inodes /\ ~t.fd.dirty

(* Which ends the call. *)
LEMMA LandedDone ==
  ASSUME NEW role, NEW s, NEW z, SavedRel(role, s, z), NEW t, NEW log, NEW p, NEW q, Landed(role, z, t, log, p, q)
  PROVE  SeekDone(role, s, t) /\ t.fd.filepos = p /\ t.fd.bufpos = q
<1>1. Goes(role, s, role, z) /\ Goes(role, z, role, t)
  BY DEF SavedRel, Landed
<1>2. Goes(role, s, role, t)
  BY <1>1, GoesTrans
<1>. QED
  BY <1>2 DEF SeekDone, SavedRel, Landed, LoadRel

(* The block that an offset asks for, and where the offset is in it: right *)
(* if blocks have 128 bytes, or in the first 128 bytes.                    *)
LEMMA BlockIs ==
  ASSUME NEW offset \in Nat
  PROVE  /\ Block(offset) \in Nat /\ Block(offset) * Bytes \in Nat
         /\ offset - Block(offset) * SeekSize \in 0 .. SeekSize - 1
         /\ SeekSize = Bytes \/ (offset < SeekSize /\ offset < Bytes) =>
              /\ offset = Times(Block(offset)) + (offset - Block(offset) * SeekSize)
              /\ offset - Block(offset) * SeekSize \in 0 .. Bytes - 1
<1>1. SeekSize \in Nat \ {0} /\ Bytes \in Nat \ {0}
  BY SfsFileAssumption, SfsLseekAssumption DEF SfsFileAssumption, SfsLseekAssumption
<1> DEFINE b == offset \div SeekSize
           x == b * SeekSize
           y == offset % SeekSize
<1>2. b \in Nat /\ y \in 0 .. SeekSize - 1 /\ offset = x + y
  BY <1>1, Division
<1>3. Block(offset) = b /\ Block(offset) * SeekSize = x
  BY DEF Block
<1> HIDE DEF b, y
<1>4. x \in Nat /\ b * Bytes \in Nat /\ Times(b) = b * Bytes
  BY <1>1, <1>2 DEF Times
<1>5. SeekSize = Bytes => Times(b) = x
  BY <1>4
<1>6. b = 0 => x = 0 /\ Times(b) = 0
  BY <1>1, <1>4
<1>7. b > 0 => x >= SeekSize
  <2>1. ASSUME b > 0 PROVE x >= SeekSize
    <3>1. PICK e \in Nat : b = e + 1
      <4>1. b - 1 \in Nat /\ b = (b - 1) + 1
        BY <1>2, <2>1
      <4>. QED
        BY <4>1
    <3>2. x = e * SeekSize + SeekSize /\ e * SeekSize \in Nat
      BY <1>1, <3>1
    <3>. QED
      BY <1>1, <3>2
  <2>. QED
    BY <2>1
<1> HIDE DEF x
<1>8. offset - x = y
  BY <1>1, <1>2, <1>4
<1>9. CASE SeekSize = Bytes
  BY <1>1, <1>2, <1>3, <1>4, <1>5, <1>8, <1>9
<1>10. CASE offset < SeekSize /\ offset < Bytes
  <2>1. b = 0
    BY <1>1, <1>2, <1>4, <1>7, <1>10
  <2>2. offset = y /\ Times(b) = 0
    BY <1>1, <1>2, <1>6, <2>1
  <2>. QED
    BY <1>1, <1>2, <1>3, <1>4, <1>8, <1>10, <2>2
<1>. QED
  BY <1>2, <1>3, <1>4, <1>8, <1>9, <1>10

(* SEEK_SET arrives in the block that it computes. *)
LEMMA SeekSetGoes ==
  ASSUME NEW role, NEW s, CallOK(role, s), ~s.fd.dirty, NEW offset \in Nat, offset <= MaxSize, NEW t, t = SeekSet(s, offset)
  PROVE  Landed(role, s, t, Block(offset), offset, offset - Block(offset) * SeekSize)
<1> DEFINE log == Block(offset)
           q == offset - Block(offset) * SeekSize
           x == ReadBlock(s, log)
<1>1. log \in Nat /\ q \in 0 .. SeekSize - 1
  BY BlockIs
<1>2. MaxSize \in Nat /\ SeekSize \in Nat \ {0}
  BY SfsFileAssumption, SfsLseekAssumption DEF SfsFileAssumption, SfsLseekAssumption
<1>3. t = [x EXCEPT !.fd.filepos = offset, !.fd.bufpos = q]
  BY DEF SeekSet
<1> HIDE DEF log, q
<1>4. Goes(role, s, role, x) /\ LoadRel(s, x, log)
  BY <1>1, ReadBlockGoes
<1> HIDE DEF x
<1>5. x \in Calls
  BY <1>4 DEF Goes, CallOK
<1>6. t = [x EXCEPT !.fd = [[x.fd EXCEPT !.filepos = offset] EXCEPT !.bufpos = q]]
  BY <1>3, <1>5 DEF Calls, Descriptor
<1>7. offset \in 0 .. MaxSize /\ q \in Int
  BY <1>1, <1>2
<1>8. Landed(role, s, t, log, offset, q)
  BY <1>4, <1>6, <1>7, MovedThere
<1>. QED
  BY <1>8 DEF log, q

(* The same for a call that sets curr_log too *)
LEMMA LandGoes ==
  ASSUME NEW role, NEW s, CallOK(role, s), ~s.fd.dirty, NEW log \in Nat,
         NEW p \in 0 .. MaxSize, NEW q \in Int,
         NEW t, t = [ReadBlock(s, log) EXCEPT !.fd.curr_log = log, !.fd.filepos = p, !.fd.bufpos = q]
  PROVE  Landed(role, s, t, log, p, q)
<1> DEFINE x == ReadBlock(s, log)
           y == [x EXCEPT !.fd = [x.fd EXCEPT !.curr_log = log]]
<1>1. Goes(role, s, role, x) /\ LoadRel(s, x, log)
  BY ReadBlockGoes
<1>2. t = [x EXCEPT !.fd.curr_log = log, !.fd.filepos = p, !.fd.bufpos = q]
  OBVIOUS
<1> HIDE DEF x
<1>3. x \in Calls /\ CallOK(role, x)
  BY <1>1 DEF Goes, CallOK
<1>4. Goes(role, x, role, y) /\ LoadRel(s, y, log)
  <2> HIDE DEF y
  <2>1. y = [x EXCEPT !.fd = [x.fd EXCEPT !.curr_log = log]]
    BY DEF y
  <2>. QED
    BY <1>1, <1>3, <2>1, LogSet
<1>5. t = [y EXCEPT !.fd = [[y.fd EXCEPT !.filepos = p] EXCEPT !.bufpos = q]]
  BY <1>2, <1>3 DEF Calls, Descriptor
<1> HIDE DEF y
<1>6. Goes(role, s, role, y)
  BY <1>1, <1>4, GoesTrans
<1>. QED
  BY <1>4, <1>5, <1>6, MovedThere

(* SEEK_END arrives in the block of the end. *)
LEMMA SeekEndGoes ==
  ASSUME NEW role, NEW s, CallOK(role, s), ~s.fd.dirty, NEW offset \in Nat, NEW t, t = SeekEnd(s, offset),
         s.fd.inode.size + offset <= MaxSize
  PROVE  \E log, q : Landed(role, s, t, log, s.fd.inode.size + offset, q)
<1> DEFINE log == s.fd.inode.size \div Bytes
           q == offset - (Block(offset) * Bytes)
           p == s.fd.inode.size + offset
<1>1. s.fd.inode.size \in Nat /\ MaxSize \in Nat /\ Bytes \in Nat \ {0}
  BY CallIs, FieldsAre, SfsFileAssumption DEF CallOK, SfsFileAssumption
<1>2. log \in Nat /\ Block(offset) * Bytes \in Nat
  BY <1>1, TimesDiv, BlockIs
<1>3. p \in 0 .. MaxSize
  BY <1>1
<1>4. t = [ReadBlock(s, log) EXCEPT !.fd.curr_log = log, !.fd.filepos = p, !.fd.bufpos = q]
  BY DEF SeekEnd
<1>5. q \in Int
  <2> DEFINE y == Block(offset) * Bytes
  <2>1. y \in Nat /\ q = offset - y
    BY <1>2
  <2> HIDE DEF y, q
  <2>. QED
    BY <2>1
<1> HIDE DEF log, p, q
<1>6. Landed(role, s, t, log, p, q)
  BY <1>2, <1>3, <1>4, <1>5, LandGoes
<1>. QED
  BY <1>6 DEF p
(* The static pair that SEEK_CUR starts from *)
TempOK == temp \in [filepos : 0 .. MaxSize, bufpos : Nat]

(* A short way from a place in block base of the file, out of the case of  *)
(* one block exactly                                                       *)
Short(fd, base, offset) ==
  /\ temp.filepos = Times(base) + temp.bufpos /\ temp.bufpos < Bytes
  /\ Small(fd, offset) /\ temp.bufpos + offset < 2 * Bytes /\ temp.bufpos + offset # Bytes

(* SEEK_CUR arrives where it should, if the way is short. *)
LEMMA SeekCurGoes ==
  ASSUME NEW role, NEW s, CallOK(role, s), ~s.fd.dirty, NEW offset \in Nat, NEW t, t = SeekCur(s, offset),
         TempOK, temp.filepos + offset <= MaxSize
  PROVE  \E log \in Nat, q \in Int :
           /\ Landed(role, s, t, log, temp.filepos + offset, q)
           /\ \A b \in Nat : Short(s.fd, b, offset) => temp.filepos + offset = Times(log) + q /\ q \in 0 .. Bytes - 1
<1> DEFINE over == temp.bufpos + offset > Bytes
           small == Small(s.fd, offset)
           on == IF small THEN 1 ELSE Block(offset)
           back == IF small THEN (IF over THEN Bytes ELSE 0) ELSE Block(offset) * Bytes
           base == temp.filepos \div Bytes
           log == base + (IF over THEN on ELSE 0)
           p == temp.filepos + offset
           x == temp.bufpos
           q == x + offset - back
<1>1. MaxSize \in Nat /\ Bytes \in Nat \ {0} /\ temp.filepos \in Nat /\ x \in Nat
  BY SfsFileAssumption DEF SfsFileAssumption, TempOK
<1>2. p \in Nat /\ p <= MaxSize /\ p \in 0 .. MaxSize /\ offset <= MaxSize
  BY <1>1
<1>3. base \in Nat /\ Times(base) \in Nat /\ Times(base + 1) = Times(base) + Bytes
  BY <1>1, TimesDiv, TimesIs
<1>4. Block(offset) \in Nat /\ Block(offset) * Bytes \in Nat
  BY BlockIs
<1>5. t = [ReadBlock(s, log) EXCEPT !.fd.curr_log = log, !.fd.filepos = p, !.fd.bufpos = q]
  BY DEF SeekCur
<1>6. back \in Nat /\ on \in Nat
  <2> HIDE DEF small
  <2> DEFINE y == Block(offset) * Bytes
  <2>1. y \in Nat
    BY <1>4
  <2> HIDE DEF y
  <2>2. back = IF small THEN (IF over THEN Bytes ELSE 0) ELSE y
    BY DEF y
  <2>. QED
    BY <2>1, <2>2, <1>1, <1>4
<1>7. ASSUME NEW b \in Nat, Short(s.fd, b, offset)
      PROVE  p = Times(log) + q /\ q \in 0 .. Bytes - 1
  <2>1. small /\ temp.filepos = Times(b) + x /\ x < Bytes /\ x + offset < 2 * Bytes /\ x + offset # Bytes
    BY <1>7 DEF Short
  <2>2. Times(b) \in Nat
    BY TimesIs
  <2>3. Times(b) <= temp.filepos /\ temp.filepos < Times(b) + Bytes
    BY <1>1, <2>1, <2>2
  <2>4. base = b
    BY <1>1, <2>3, TimesTells
  <2>5. temp.filepos = Times(base) + x
    BY <2>1, <2>4
  <2>6. CASE over
    <3>1. log = base + 1 /\ back = Bytes
      BY <1>3, <2>1, <2>6
    <3>2. Times(log) = Times(base) + Bytes /\ q = x + offset - Bytes
      BY <3>1, <1>3
    <3> HIDE DEF base, log, back, small
    <3>. QED
      BY <3>2, <1>1, <1>3, <2>1, <2>5, <2>6
  <2>7. CASE ~over
    <3>1. log = base /\ back = 0
      BY <1>3, <2>1, <2>7
    <3>2. Times(log) = Times(base) /\ q = x + offset
      BY <3>1, <1>1
    <3> HIDE DEF base, log, back, small
    <3>3. x + offset < Bytes
      BY <1>1, <2>1, <2>7
    <3>. QED
      BY <3>2, <3>3, <1>1, <1>3, <2>5
  <2>. QED
    BY <2>6, <2>7
<1>8. log \in Nat
  <2> HIDE DEF base, on
  <2>. QED
    BY <1>3, <1>6
<1>9. q \in Int
  <2> HIDE DEF back
  <2>. QED
    BY <1>1, <1>2, <1>6
<1> HIDE DEF log, p, q
<1>10. Landed(role, s, t, log, p, q)
  BY <1>2, <1>5, <1>8, <1>9, LandGoes
<1>. QED
  BY <1>7, <1>8, <1>9, <1>10 DEF p

(* So does a call that stays in its block. *)
LEMMA SameBlockGoes ==
  ASSUME NEW role, NEW s, CallOK(role, s), NEW offset \in Nat, offset <= MaxSize, NEW t, t = SameBlock(s, offset)
  PROVE  SeekDone(role, s, t)
<1>1. s \in Calls /\ s.fd \in Descriptor
  BY CallIs DEF CallOK
<1>2. MaxSize \in Nat /\ Bytes \in Nat \ {0}
  BY SfsFileAssumption DEF SfsFileAssumption
<1>3. t = [s EXCEPT !.fd = [[s.fd EXCEPT !.filepos = offset] EXCEPT !.bufpos = offset]]
  BY <1>1 DEF SameBlock, Calls, Descriptor
<1>4. offset \in 0 .. MaxSize /\ offset \in Int
  BY <1>2
<1>5. t \in Calls /\ MoveRel(s, t, offset, offset)
  BY <1>1, <1>3, <1>4, MoveIs
<1>6. Goes(role, s, role, t)
  BY <1>5, MoveGoes
<1>. QED
  BY <1>5, <1>6 DEF SeekDone, MoveRel

(* The fields that a seek sets *)
Set2(x, p, q) == [x EXCEPT !.fd.filepos = p, !.fd.bufpos = q]
Set3(x, log, p, q) == [x EXCEPT !.fd.curr_log = log, !.fd.filepos = p, !.fd.bufpos = q]

(* The position that is set. *)
LEMMA SetsPosition ==
  ASSUME NEW x \in Calls, NEW p, NEW q, NEW t, t = Set2(x, p, q)
  PROVE  t.fd.filepos = p
<1>1. x.fd \in Descriptor
  BY CallIs
<1> DEFINE gd == [[x.fd EXCEPT !.filepos = p] EXCEPT !.bufpos = q]
<1>2. gd.filepos = p
  BY <1>1 DEF Descriptor
<1>3. t = [x EXCEPT !.fd = gd]
  BY <1>1 DEF Set2, Set3, Calls, Descriptor
<1> HIDE DEF gd
<1>4. [x EXCEPT !.fd = gd].fd = gd
  BY DEF Calls
<1>. QED
  BY <1>2, <1>3, <1>4

(* The same, with the number of the block. *)
LEMMA SetsLogToo ==
  ASSUME NEW x \in Calls, NEW p, NEW q, NEW log, NEW t, t = Set3(x, log, p, q)
  PROVE  t.fd.filepos = p
<1>1. x.fd \in Descriptor
  BY CallIs
<1> DEFINE gd == [[[x.fd EXCEPT !.curr_log = log] EXCEPT !.filepos = p] EXCEPT !.bufpos = q]
<1>2. gd.filepos = p
  BY <1>1 DEF Descriptor
<1>3. t = [x EXCEPT !.fd = gd]
  BY <1>1 DEF Set2, Set3, Calls, Descriptor
<1> HIDE DEF gd
<1>4. [x EXCEPT !.fd = gd].fd = gd
  BY DEF Calls
<1>. QED
  BY <1>2, <1>3, <1>4

(* A seek that is right leaves the descriptor in a block, its byte at hand *)
LEMMA MovedGoes ==
  ASSUME NEW role, NEW s, CallOK(role, s), TempOK, NEW offset \in Nat, NEW whence \in Whences,
         NEW t, t = Moved(s, offset, whence), t.fd.filepos <= MaxSize
  PROVE  /\ SeekDone(role, s, t)
         /\ Catered(s.fd, offset, whence) /\ FdRight(role, s.used, s.disk, s.fd) /\ FdMapOK(role, s) /\ ~s.fd.refused
              => \E k \in Nat : Going(role, t, k)
         /\ whence = "SEEK_SET" /\ s.fd.curr_blk # Block(offset) =>
              t.fd.filepos \in 0 .. MaxSize /\ t.fd.bufpos \in Nat
<1> DEFINE z == Saved(s)
<1>0. z = Saved(s)
  OBVIOUS
<1>1. SavedRel(role, s, z)
  BY SavedGoes
<1> HIDE DEF z
<1>2. CallOK(role, z) /\ ~z.fd.dirty /\ z.fd.inode = s.fd.inode /\ z \in Calls
  BY <1>1 DEF SavedRel, Goes, CallOK
<1>3. ASSUME FdRight(role, s.used, s.disk, s.fd), FdMapOK(role, s), ~s.fd.refused
      PROVE  FdMapOK(role, z)
  <2>1. CASE s.fd.dirty
    <3>1. PICK k \in 0 .. Starts[4] - 1 : On(role, s.used, s.disk, s.fd, k)
      BY <1>3, <2>1 DEF FdRight, Empty, Ended
    <3>2. k \in Nat /\ FdBuffered(role, s, k)
      BY <3>1, StartsAre DEF On, FdBuffered
    <3>. QED
      BY <3>2, <1>1, <1>3 DEF SavedRel
  <2>2. CASE ~s.fd.dirty
    BY <2>2, <1>1, <1>3 DEF SavedRel
  <2>. QED
    BY <2>1, <2>2
<1>4. CASE s.fd.curr_blk = Block(offset)
  <2>1. t = SameBlock(s, offset)
    BY <1>4 DEF Moved
  <2>2. s \in Calls
    BY DEF CallOK
  <2>3. t.fd.filepos = offset
    <3>1. t = Set2(s, offset, offset)
      BY <2>1 DEF SameBlock, Set2
    <3>. QED
      BY <2>2, <3>1, SetsPosition
  <2>4. SeekDone(role, s, t)
    BY <2>1, <2>3, SameBlockGoes
  <2>. QED
    BY <2>4, <1>4 DEF Catered
<1>5. CASE s.fd.curr_blk # Block(offset) /\ whence = "SEEK_SET"
  <2> DEFINE q == offset - Block(offset) * SeekSize
             log == Block(offset)
  <2>1. t = SeekSet(z, offset)
    BY <1>0, <1>5 DEF Moved
  <2>2. offset <= MaxSize
    <3> DEFINE x == ReadBlock(z, Block(offset))
    <3>1. x \in Calls
      BY <1>2, BlockIs, ReadBlockGoes DEF Goes, CallOK
    <3>2. t = Set2(x, offset, q)
      BY <2>1 DEF SeekSet, Set2
    <3> HIDE DEF x, q
    <3>3. t.fd.filepos = offset
      BY <3>1, <3>2, SetsPosition
    <3>. QED
      BY <3>3
  <2>3. /\ log \in Nat /\ q \in 0 .. SeekSize - 1
        /\ SeekSize = Bytes \/ (offset < SeekSize /\ offset < Bytes) => offset = Times(log) + q /\ q \in 0 .. Bytes - 1
    BY BlockIs
  <2>4. Landed(role, z, t, log, offset, q)
    BY <2>1, <2>2, <1>2, SeekSetGoes
  <2> HIDE DEF q, log
  <2>5. SeekDone(role, s, t) /\ t.fd.filepos = offset /\ t.fd.bufpos = q
    BY <2>4, <1>1, LandedDone
  <2>6. q \in Nat
    BY <2>3, SfsLseekAssumption DEF SfsLseekAssumption
  <2>7. ASSUME Catered(s.fd, offset, whence), FdRight(role, s.used, s.disk, s.fd), FdMapOK(role, s), ~s.fd.refused
        PROVE  Going(role, t, log)
    <3>1. offset < z.fd.inode.size /\ (SeekSize = Bytes \/ (offset < SeekSize /\ offset < Bytes))
      BY <2>7, <1>2, <1>5 DEF Catered
    <3>2. FdMapOK(role, z)
      BY <2>7, <1>3
    <3>3. offset = Times(log) + q /\ q \in Nat /\ q < Bytes
      BY <2>3, <3>1, TimesIs
    <3>. QED
      BY <3>1, <3>2, <3>3, <2>3, <2>4, <1>2, LandedData
  <2>8. offset \in 0 .. MaxSize
    BY <2>2, SfsFileAssumption DEF SfsFileAssumption
  <2>. QED
    BY <2>3, <2>5, <2>6, <2>7, <2>8
<1>6. CASE s.fd.curr_blk # Block(offset) /\ whence = "SEEK_CUR"
  <2>1. t = SeekCur(z, offset)
    BY <1>0, <1>6 DEF Moved
  <2>2. temp.filepos + offset <= MaxSize
    <3>1. temp.filepos \in Nat /\ temp.bufpos \in Int
      BY SfsFileAssumption DEF TempOK, SfsFileAssumption
    <3>2. Block(offset) \in Nat /\ temp.filepos \div Bytes \in Nat
      BY <3>1, BlockIs, TimesDiv
    <3> DEFINE log == (temp.filepos \div Bytes) + (IF temp.bufpos + offset > Bytes THEN (IF Small(z.fd, offset) THEN 1 ELSE Block(offset)) ELSE 0)
    <3>3. log \in Nat
      BY <3>2
    <3> DEFINE x == ReadBlock(z, log)
               p == temp.filepos + offset
               q == temp.bufpos + offset - (IF Small(z.fd, offset) THEN (IF temp.bufpos + offset > Bytes THEN Bytes ELSE 0) ELSE Block(offset) * Bytes)
    <3>4. t = Set3(x, log, p, q)
      BY <2>1 DEF SeekCur, Set3
    <3> HIDE DEF log, p, q
    <3>5. x \in Calls
      BY <3>3, <1>2, ReadBlockGoes DEF Goes, CallOK
    <3> HIDE DEF x
    <3>6. t.fd.filepos = p
      BY <3>4, <3>5, SetsLogToo
    <3>. QED
      BY <3>6 DEF p
  <2> DEFINE p == temp.filepos + offset
  <2>3. PICK log \in Nat, q \in Int :
           /\ Landed(role, z, t, log, p, q)
           /\ \A b \in Nat : Short(z.fd, b, offset) => p = Times(log) + q /\ q \in 0 .. Bytes - 1
    BY <2>1, <2>2, <1>2, SeekCurGoes
  <2> HIDE DEF p
  <2>4. SeekDone(role, s, t)
    BY <2>3, <1>1, LandedDone
  <2>5. ASSUME Catered(s.fd, offset, whence), FdRight(role, s.used, s.disk, s.fd), FdMapOK(role, s), ~s.fd.refused
        PROVE  Going(role, t, log)
    <3>1. /\ temp.filepos = s.fd.filepos /\ temp.bufpos = s.fd.bufpos
          /\ s.fd.filepos + offset < s.fd.inode.size /\ Small(s.fd, offset)
          /\ s.fd.bufpos < Bytes /\ s.fd.bufpos + offset < 2 * Bytes /\ s.fd.bufpos + offset # Bytes
      BY <2>5, <1>6 DEF Catered
    <3>2. s.fd.filepos \in Nat /\ s.fd.inode.size \in Nat
      BY CallIs, FieldsAre DEF CallOK
    <3>3. PICK k \in 0 .. Starts[4] - 1 : On(role, s.used, s.disk, s.fd, k)
      BY <2>5, <3>1, <3>2 DEF FdRight, Empty, Ended
    <3>4. k \in Nat /\ s.fd.filepos = Times(k) + s.fd.bufpos
      BY <3>3, StartsAre DEF On, OnPos
    <3>5. Short(z.fd, k, offset)
      BY <3>1, <3>4, <1>2 DEF Short, Small
    <3>6. p = Times(log) + q /\ q \in Nat /\ q < Bytes
      BY <3>4, <3>5, <2>3, TimesIs
    <3>7. p < z.fd.inode.size
      BY <3>1, <1>2 DEF p
    <3>8. FdMapOK(role, z)
      BY <2>5, <1>3
    <3>. QED
      BY <3>6, <3>7, <3>8, <2>3, <1>2, LandedData
  <2>. QED
    BY <2>4, <2>5, <1>6
<1>7. CASE s.fd.curr_blk # Block(offset) /\ whence = "SEEK_END"
  <2>1. t = SeekEnd(z, offset)
    BY <1>0, <1>7 DEF Moved
  <2>2. z.fd.inode.size + offset <= MaxSize
    <3>1. z.fd.inode.size \in Nat
      BY <1>2, CallIs, FieldsAre
    <3> DEFINE log == z.fd.inode.size \div Bytes
    <3>2. log \in Nat
      BY <3>1, TimesDiv
    <3> DEFINE x == ReadBlock(z, log)
               p == z.fd.inode.size + offset
               q == offset - (Block(offset) * Bytes)
    <3>3. t = Set3(x, log, p, q)
      BY <2>1 DEF SeekEnd, Set3
    <3> HIDE DEF log, p, q
    <3>4. x \in Calls
      BY <3>2, <1>2, ReadBlockGoes DEF Goes, CallOK
    <3> HIDE DEF x
    <3>5. t.fd.filepos = p
      BY <3>3, <3>4, SetsLogToo
    <3>. QED
      BY <3>5 DEF p
  <2>3. PICK log, q : Landed(role, z, t, log, z.fd.inode.size + offset, q)
    BY <2>1, <2>2, <1>2, SeekEndGoes
  <2>4. SeekDone(role, s, t)
    BY <2>3, <1>1, LandedDone
  <2>. QED
    BY <2>4, <1>7 DEF Catered
<1>. QED
  BY <1>4, <1>5, <1>6, <1>7 DEF Whences

(* What one file's calls leave of another *)
LEMMA FullFramed ==
  ASSUME NEW v \in Volumes, NEW w \in Volumes, v.used \subseteq w.used, v.used = Blocks
  PROVE  w.used = Blocks
<1>1. w.used \in SUBSET Blocks
  BY DEF Volumes
<1>. QED
  BY <1>1

(* The map of a file is right after a call for another file. *)
LEMMA MapFramed ==
  ASSUME NEW role, NEW v \in Volumes, Vol(role, v), NEW g, NEW ino, InodeOK(role, v.used, g, ino),
         NEW role2, NEW w \in Volumes, NEW f, Frame(role, v, role2, w, f), g # f,
         NEW dirty, NEW b, MapOK(role, v.used, v.disk, ino, g, dirty, b)
  PROVE  MapOK(role2, w.used, w.disk, ino, g, dirty, b)
<1>1. AtsSame(v, w, ino)
  BY AtFramed
<1>2. \A p \in Place : At(w.disk, ino, p) = At(v.disk, ino, p)
  BY <1>1 DEF AtsSame
<1>3. /\ Mapped(v.disk, ino, ino.size) /\ FullIfNeg(v.used, v.disk, ino) /\ AllNamed(role, v.used, v.disk, ino, g)
      /\ DataRight(v.disk, ino, g, dirty, b)
  BY DEF MapOK, MapTo
<1>4. v.used \subseteq w.used
  BY DEF Frame
<1>5. v.used = Blocks => w.used = Blocks
  BY <1>4, FullFramed
<1>6. Mapped(w.disk, ino, ino.size)
  BY <1>2, <1>3, MapSame
<1>7. FullIfNeg(w.used, w.disk, ino)
  BY <1>2, <1>3, <1>5 DEF FullIfNeg
<1>8. AllNamed(role2, w.used, w.disk, ino, g)
  <2>1. CASE v.used = Blocks
    BY <2>1, <1>5 DEF AllNamed
  <2>2. CASE v.used # Blocks
    <3>1. ASSUME NEW c \in w.used \ {0}, role2[c][1] = g PROVE Names(w.disk, ino, c)
      <4>1. c \in v.used \ {0}
        BY <3>1 DEF Frame
      <4>2. role[c][1] = g
        BY <3>1, <4>1 DEF Frame
      <4>3. Names(v.disk, ino, c)
        BY <2>2, <4>1, <4>2, <1>3 DEF AllNamed
      <4>. QED
        BY <4>3, <1>2 DEF Names
    <3>. QED
      BY <3>1 DEF AllNamed
  <2>. QED
    BY <2>1, <2>2
<1>9. DataRight(w.disk, ino, g, dirty, b)
  <2>1. ino.size \in Nat /\ ino.size <= MaxSize
    BY SfsFileAssumption DEF InodeOK, Inode, SfsFileAssumption
  <2>2. ASSUME NEW p \in 0 .. ino.size - 1
        PROVE  ByteOn(w.disk, ino, g, p) \/ (dirty /\ b = At(w.disk, ino, Spot(p \div Bytes)))
    <3> DEFINE j == p \div Bytes
               x == At(v.disk, ino, Spot(j))
    <3>1. p \in Nat /\ p < ino.size
      BY <2>1
    <3>2. j \in 0 .. Starts[4] - 1 /\ ByteBlock(role, v.used, g, j, x)
      BY <2>1, <3>1, <1>3, MapNumber
    <3>3. Spot(j) \in Place
      BY <3>2, StartsAre, SpotIs
    <3>4. At(w.disk, ino, Spot(j)) = x
      BY <3>3, <1>2
    <3>5. ByteOn(v.disk, ino, g, p) \/ (dirty /\ b = x)
      BY <1>3 DEF DataRight
    <3>6. x < 0 \/ w.disk[x] = v.disk[x]
      <4> HIDE DEF x, j
      <4>1. CASE x < 0
        BY <4>1
      <4>2. CASE x \in v.used \ {0} /\ role[x] = <<g, Spot(j)>>
        <5>1. role[x][1] = g
          BY <4>2
        <5>. QED
          BY <4>2, <5>1 DEF Frame
      <4>. QED
        BY <4>1, <4>2, <3>2 DEF ByteBlock
    <3>. QED
      BY <3>4, <3>5, <3>6 DEF ByteOn
  <2>. QED
    BY <2>2 DEF DataRight
<1>. QED
  BY <1>6, <1>7, <1>8, <1>9 DEF MapOK, MapTo

(* So is its descriptor. *)
LEMMA FdRightFramed ==
  ASSUME NEW role, NEW v \in Volumes, Vol(role, v), NEW fd, InodeOK(role, v.used, fd.file, fd.inode),
         NEW role2, NEW w, NEW f, Frame(role, v, role2, w, f), fd.file # f,
         FdRight(role, v.used, v.disk, fd)
  PROVE  FdRight(role2, w.used, w.disk, fd)
<1>1. AtsSame(v, w, fd.inode)
  BY AtFramed
<1>2. ASSUME NEW k \in 0 .. Starts[4] - 1, On(role, v.used, v.disk, fd, k)
      PROVE  On(role2, w.used, w.disk, fd, k)
  <2>1. OnPos(fd, k) /\ Buffered(role, v.used, v.disk, fd.inode, fd.file, k, fd.curr_blk, fd.buffer)
    BY <1>2 DEF On
  <2>2. At(w.disk, fd.inode, Spot(k)) = At(v.disk, fd.inode, Spot(k))
    BY <1>1, StartsAre, SpotIs DEF AtsSame
  <2>3. Holds(role2, w.used, fd.file, Spot(k), fd.curr_blk)
    BY <2>1, HoldsStays DEF Buffered
  <2>. QED
    BY <2>1, <2>2, <2>3 DEF On, Buffered
<1>. QED
  BY <1>2 DEF FdRight

(* And all there is of the file. *)
LEMMA FileFramed ==
  ASSUME NEW role, NEW v \in Volumes, Vol(role, v), NEW nodes, NEW fds, NEW g, NEW n,
         InodeOK(role, v.used, g, nodes[g]), \A e \in OpenIn(fds, g) : InodeOK(role, v.used, g, fds[e].inode),
         NEW role2, NEW w \in Volumes, NEW f, Frame(role, v, role2, w, f), g # f,
         NEW nodes2, nodes2[g] = nodes[g], NEW fds2, OpenIn(fds2, g) = OpenIn(fds, g),
         \A e \in OpenIn(fds, g) : fds2[e] = fds[e],
         FileOK(role, v.used, v.disk, nodes, fds, g, n)
  PROVE  FileOK(role2, w.used, w.disk, nodes2, fds2, g, n)
<1>1. OpenIn(fds2, g) = {} => NoneOpen(role2, w.used, w.disk, nodes2, g, n)
  <2>1. SUFFICES ASSUME OpenIn(fds2, g) = {} PROVE NoneOpen(role2, w.used, w.disk, nodes2, g, n)
    OBVIOUS
  <2>2. NoneOpen(role, v.used, v.disk, nodes, g, n)
    BY <2>1 DEF FileOK
  <2>3. MapOK(role, v.used, v.disk, nodes[g], g, FALSE, 0)
    BY <2>2 DEF NoneOpen
  <2>4. MapOK(role2, w.used, w.disk, nodes[g], g, FALSE, 0)
    BY <2>3, MapFramed
  <2>. QED
    BY <2>2, <2>4 DEF NoneOpen
<1>2. ASSUME NEW e \in OpenIn(fds2, g)
      PROVE  /\ DescRight(role2, w.used, w.disk, fds2[e], n)
             /\ OpenIn(fds2, g) = {e} \/ (~fds2[e].dirty /\ fds2[e].inode = nodes2[g])
  <2> DEFINE fd == fds[e]
  <2>1. e \in OpenIn(fds, g) /\ fds2[e] = fd /\ fd.file = g /\ InodeOK(role, v.used, g, fd.inode)
    BY <1>2 DEF OpenIn
  <2>2. DescRight(role, v.used, v.disk, fd, n) /\ (OpenIn(fds, g) = {e} \/ (~fd.dirty /\ fd.inode = nodes[g]))
    BY <2>1 DEF FileOK
  <2> HIDE DEF fd
  <2>3. /\ MapOK(role, v.used, v.disk, fd.inode, g, fd.dirty, fd.curr_blk)
        /\ FdRight(role, v.used, v.disk, fd) /\ (fd.refused => v.used = Blocks) /\ fd.inode.size = n
    BY <2>1, <2>2 DEF DescRight
  <2>4. MapOK(role2, w.used, w.disk, fd.inode, g, fd.dirty, fd.curr_blk)
    <3> DEFINE ino == fd.inode
               dirty == fd.dirty
               b == fd.curr_blk
    <3>1. MapOK(role, v.used, v.disk, ino, g, dirty, b) /\ InodeOK(role, v.used, g, ino)
      BY <2>1, <2>3
    <3> HIDE DEF ino, dirty, b
    <3>2. MapOK(role2, w.used, w.disk, ino, g, dirty, b)
      BY <3>1, MapFramed
    <3>. QED
      BY <3>2 DEF ino, dirty, b
  <2>5. FdRight(role2, w.used, w.disk, fd)
    BY <2>1, <2>3, FdRightFramed
  <2>6. fd.refused => w.used = Blocks
    BY <2>3, FullFramed DEF Frame
  <2>7. DescRight(role2, w.used, w.disk, fd, n)
    BY <2>1, <2>3, <2>4, <2>5, <2>6 DEF DescRight
  <2>. QED
    BY <2>1, <2>2, <2>7
<1>. QED
  BY <1>1, <1>2 DEF FileOK

-----------------------------------------------------------------------------
(* The invariant.  Types; then, for some way of telling what each block is *)
(* there for, the volume and every inode in order; and every file that was *)
(* not misused with its data where it belongs.                             *)
Now == [used |-> used, disk |-> disk]
Types ==
  /\ used \subseteq Blocks
  /\ disk \in [Blocks -> Buffer \cup Pointers]
  /\ inodes \in [Files -> Inode]
  /\ fdesc \in [Desc -> {Closed} \cup Descriptor]
  /\ length \in [Files -> 0 .. MaxSize]
  /\ spoilt \subseteq Files
  /\ after \in 0 .. MaxAfter
  /\ TempOK
InOrder(role) ==
  /\ Vol(role, Now)
  /\ NodesOK(role, used, inodes)
  /\ \A d \in Desc : fdesc[d] = Closed \/ DescOK(role, used, fdesc[d])
FilesRight(role) == \A f \in Files \ spoilt : FileOK(role, used, disk, inodes, fdesc, f, length[f])
IInv == Types /\ \E role : InOrder(role) /\ FilesRight(role)

(* The volume as it is. *)
LEMMA NowIs ==
  ASSUME Types
  PROVE  Now \in Volumes /\ Now.used = used /\ Now.disk = disk
  BY DEF Types, Now, Volumes

(* A descriptor is open, or all zeros. *)
LEMMA OpenIs ==
  ASSUME Types, NEW d \in Desc
  PROVE  /\ fdesc[d].open => fdesc[d] \in Descriptor /\ fdesc[d].file \in Files
         /\ ~fdesc[d].open => fdesc[d] = Closed
<1>1. fdesc[d] = Closed \/ fdesc[d] \in Descriptor
  BY DEF Types
<1>2. CASE fdesc[d] = Closed
  BY <1>2 DEF Closed
<1>3. CASE fdesc[d] \in Descriptor
  BY <1>3, FieldsAre
<1>. QED
  BY <1>1, <1>2, <1>3

(* What a call starts from *)
LEMMA StateOK ==
  ASSUME Types, NEW role, InOrder(role), NEW d \in Desc, fdesc[d].open
  PROVE  /\ CallOK(role, State(d)) /\ Volume(State(d)) = Now /\ State(d).ok
         /\ State(d).used = used /\ State(d).disk = disk /\ State(d).inodes = inodes /\ State(d).fd = fdesc[d]
<1> DEFINE s == State(d)
<1>1. s.used = used /\ s.disk = disk /\ s.inodes = inodes /\ s.fd = fdesc[d] /\ s.ok
  BY DEF State
<1>2. fdesc[d] \in Descriptor
  BY OpenIs
<1>3. s \in Calls
  BY <1>2 DEF State, Calls, Types
<1> HIDE DEF s
<1>4. Volume(s) = Now
  BY <1>1 DEF Volume, Now
<1>5. DescOK(role, used, fdesc[d])
  <2>1. fdesc[d] # Closed
    BY DEF Closed
  <2>. QED
    BY <2>1 DEF InOrder
<1>6. CallOK(role, s)
  BY <1>1, <1>3, <1>4, <1>5 DEF CallOK, InOrder
<1>. QED
  BY <1>1, <1>4, <1>6 DEF s

(* The other descriptors after a call *)
LEMMA DescsFramed ==
  ASSUME Types, NEW role, InOrder(role), NEW d \in Desc,
         NEW role2, NEW w, NEW f, Frame(role, Now, role2, w, f), NEW e \in Desc, e # d
  PROVE  fdesc[e] = Closed \/ DescOK(role2, w.used, fdesc[e])
<1>1. CASE fdesc[e] = Closed
  BY <1>1
<1>2. CASE DescOK(role, used, fdesc[e])
  <2>1. Now.used = used
    BY NowIs
  <2>2. InodeOK(role, Now.used, fdesc[e].file, fdesc[e].inode) /\ BlkOK(role, Now.used, fdesc[e].file, fdesc[e].curr_blk)
    BY <1>2, <2>1 DEF DescOK
  <2>3. InodeOK(role2, w.used, fdesc[e].file, fdesc[e].inode)
    BY <2>2, InodeFramed
  <2>4. BlkOK(role2, w.used, fdesc[e].file, fdesc[e].curr_blk)
    BY <2>2, BlkFramed
  <2>. QED
    BY <1>2, <2>3, <2>4 DEF DescOK
<1>. QED
  BY <1>1, <1>2 DEF InOrder

(* The other files after a call on f *)
LEMMA FilesFramed ==
  ASSUME Types, NEW role, InOrder(role), FilesRight(role), NEW d \in Desc,
         NEW role2, NEW w \in Volumes, NEW f, Frame(role, Now, role2, w, f),
         NEW nodes2, \A g \in Files : g # f => nodes2[g] = inodes[g],
         NEW fds2, \A e \in Desc : e # d => fds2[e] = fdesc[e],
         fdesc[d].open => fdesc[d].file = f, fds2[d].open => fds2[d].file = f,
         NEW g \in Files \ spoilt, g # f
  PROVE  FileOK(role2, w.used, w.disk, nodes2, fds2, g, length[g])
<1>1. Now \in Volumes /\ Now.used = used /\ Now.disk = disk
  BY NowIs
<1>2. Vol(role, Now) /\ InodeOK(role, Now.used, g, inodes[g])
  BY <1>1 DEF InOrder, NodesOK
<1>3. OpenIn(fds2, g) = OpenIn(fdesc, g)
  BY DEF OpenIn
<1>4. ASSUME NEW e \in OpenIn(fdesc, g)
      PROVE  fds2[e] = fdesc[e] /\ InodeOK(role, Now.used, g, fdesc[e].inode)
  <2>1. e \in Desc /\ e # d /\ fdesc[e].open /\ fdesc[e].file = g
    BY DEF OpenIn
  <2>2. fdesc[e] # Closed
    BY <2>1 DEF Closed
  <2>3. DescOK(role, used, fdesc[e])
    BY <2>1, <2>2 DEF InOrder
  <2>. QED
    BY <2>1, <2>3, <1>1 DEF DescOK
<1>5. FileOK(role, Now.used, Now.disk, inodes, fdesc, g, length[g])
  BY <1>1 DEF FilesRight
<1>6. nodes2[g] = inodes[g]
  OBVIOUS
<1> DEFINE n == length[g]
           nodes == inodes
           fds == fdesc
<1>7. /\ InodeOK(role, Now.used, g, nodes[g]) /\ (\A e \in OpenIn(fds, g) : InodeOK(role, Now.used, g, fds[e].inode))
      /\ nodes2[g] = nodes[g] /\ OpenIn(fds2, g) = OpenIn(fds, g) /\ (\A e \in OpenIn(fds, g) : fds2[e] = fds[e])
      /\ FileOK(role, Now.used, Now.disk, nodes, fds, g, n)
  BY <1>2, <1>3, <1>4, <1>5, <1>6
<1> HIDE DEF n, nodes, fds
<1>8. FileOK(role2, w.used, w.disk, nodes2, fds2, g, n)
  BY <1>1, <1>2, <1>7, FileFramed
<1>. QED
  BY <1>8 DEF n

(* A step that changes the file f and the descriptor d only *)
LEMMA NextOK ==
  ASSUME Types, NEW role, InOrder(role), FilesRight(role), NEW d \in Desc, NEW f \in Files, fdesc[d].open => fdesc[d].file = f,
         NEW role2, NEW w \in Volumes, Frame(role, Now, role2, w, f), Vol(role2, w), used' = w.used, disk' = w.disk,
         NEW nodes2 \in [Files -> Inode], inodes' = nodes2, NodesOK(role2, w.used, nodes2),
         \A g \in Files : g # f => nodes2[g] = inodes[g],
         NEW gd, fdesc' = [fdesc EXCEPT ![d] = gd], gd = Closed \/ (DescOK(role2, w.used, gd) /\ gd.file = f),
         length' \in [Files -> 0 .. MaxSize], \A g \in Files : g # f => length'[g] = length[g],
         spoilt \subseteq spoilt', spoilt' \subseteq Files, after' \in 0 .. MaxAfter, TempOK',
         f \notin spoilt' => FileOK(role2, w.used, w.disk, nodes2, fdesc', f, length'[f])
  PROVE  IInv'
<1>1. w.used \in SUBSET Blocks /\ w.disk \in [Blocks -> Buffer \cup Pointers] /\ Now' = w
  BY DEF Volumes, Now
<1>2. fdesc \in [Desc -> {Closed} \cup Descriptor]
  BY DEF Types
<1>3. gd \in {Closed} \cup Descriptor
  BY DEF DescOK
<1>4. fdesc' \in [Desc -> {Closed} \cup Descriptor] /\ fdesc'[d] = gd /\ \A e \in Desc : e # d => fdesc'[e] = fdesc[e]
  BY <1>2, <1>3
<1>5. Types'
  BY <1>1, <1>4 DEF Types
<1>6. InOrder(role2)'
  <2>1. ASSUME NEW e \in Desc PROVE fdesc'[e] = Closed \/ DescOK(role2, w.used, fdesc'[e])
    <3>1. CASE e = d
      BY <3>1, <1>4
    <3>2. CASE e # d
      <4>1. fdesc'[e] = fdesc[e]
        BY <3>2, <1>4
      <4>2. fdesc[e] = Closed \/ DescOK(role2, w.used, fdesc[e])
        BY <3>2, DescsFramed
      <4>. QED
        BY <4>1, <4>2
    <3>. QED
      BY <3>1, <3>2
  <2>2. \A e \in Desc : fdesc'[e] = Closed' \/ DescOK(role2, used', fdesc'[e])
    BY <2>1 DEF Closed
  <2>3. NodesOK(role2, used', inodes')
    OBVIOUS
  <2>. QED
    BY <2>2, <2>3, <1>1 DEF InOrder
<1>7. FilesRight(role2)'
  <2> DEFINE fds2 == fdesc'
  <2>1. (\A e \in Desc : e # d => fds2[e] = fdesc[e]) /\ (fds2[d].open => fds2[d].file = f)
    BY <1>4 DEF Closed
  <2>2. ASSUME NEW g \in Files, g \notin spoilt' PROVE FileOK(role2, used', disk', inodes', fdesc', g, length'[g])
    <3>1. CASE g = f
      BY <2>2, <3>1
    <3>2. CASE g # f
      <4>1. g \in Files \ spoilt /\ length'[g] = length[g]
        BY <2>2, <3>2
      <4> HIDE DEF fds2
      <4>2. FileOK(role2, w.used, w.disk, nodes2, fds2, g, length[g])
        BY <4>1, <3>2, <2>1, FilesFramed
      <4>. QED
        BY <4>1, <4>2 DEF fds2
    <3>. QED
      BY <3>1, <3>2
  <2>. QED
    BY <2>2 DEF FilesRight
<1>. QED
  BY <1>5, <1>6, <1>7 DEF IInv

(* What a call leaves in the history *)
LEMMA NotedIs ==
  ASSUME Types, NEW f \in Files, NEW misused \in BOOLEAN, Noted(f, misused)
  PROVE  /\ spoilt \subseteq spoilt' /\ spoilt' \subseteq Files /\ after' \in 0 .. MaxAfter
         /\ f \notin spoilt' => ~misused /\ f \notin spoilt
<1>1. MaxAfter \in Nat
  BY SfsFileAssumption DEF SfsFileAssumption
<1>2. after \in Nat
  BY <1>1 DEF Types
<1>3. after' \in Nat /\ after' <= MaxAfter
  BY <1>2 DEF Noted
<1>4. after' \in 0 .. MaxAfter
  BY <1>1, <1>3
<1>5. spoilt' = IF misused THEN spoilt \cup {f} ELSE spoilt
  BY DEF Noted
<1>. QED
  BY <1>4, <1>5 DEF Types

(* What lseek remembers stays. *)
LEMMA TempSame ==
  ASSUME TempOK, temp' = temp
  PROVE  TempOK'
  BY DEF TempOK

(* The descriptor that a write leaves *)
LEMMA WriteLeaves ==
  ASSUME NEW role, NEW t, CallOK(role, t), NEW n \in 0 .. MaxSize, NEW final \in Nat, NEW gd, gd = [t.fd EXCEPT !.refused = ~t.ok]
  PROVE  /\ DescOK(role, t.used, gd) /\ gd.file = t.fd.file /\ gd.open
         /\ Done(role, t, n, final) => DescRight(role, t.used, t.disk, gd, IF t.fd.filepos > n THEN t.fd.filepos ELSE n)
<1>1. t \in Calls /\ t.fd \in Descriptor /\ t.ok \in BOOLEAN
  BY CallIs DEF CallOK
<1>2. gd \in Descriptor
  BY <1>1 DEF Descriptor
<1>3. /\ gd.file = t.fd.file /\ gd.open = t.fd.open /\ gd.inode = t.fd.inode /\ gd.dirty = t.fd.dirty /\ gd.curr_blk = t.fd.curr_blk
      /\ gd.buffer = t.fd.buffer /\ gd.filepos = t.fd.filepos /\ gd.bufpos = t.fd.bufpos /\ gd.refused = ~t.ok
  BY <1>1 DEF Descriptor
<1>4. DescOK(role, t.used, gd)
  BY <1>2, <1>3 DEF CallOK, DescOK
<1>5. gd.open
  BY <1>2, FieldsAre
<1>6. ASSUME Done(role, t, n, final)
      PROVE  DescRight(role, t.used, t.disk, gd, IF t.fd.filepos > n THEN t.fd.filepos ELSE n)
  <2>1. gd.inode.size = IF t.fd.filepos > n THEN t.fd.filepos ELSE n
    BY <1>3, <1>6 DEF Done, Grew
  <2>2. CASE t.ok
    <3>1. PICK k \in Nat : Going(role, t, k)
      BY <1>6, <2>2 DEF Done
    <3>2. k \in 0 .. Starts[4] - 1 /\ OnPos(t.fd, k) /\ FdBuffered(role, t, k) /\ FdMapOK(role, t)
      BY <3>1 DEF Going
    <3>3. OnPos(gd, k)
      BY <3>2, <1>3 DEF OnPos
    <3>4. On(role, t.used, t.disk, gd, k)
      BY <3>2, <3>3, <1>3 DEF On, FdBuffered
    <3>5. FdRight(role, t.used, t.disk, gd)
      BY <3>2, <3>4 DEF FdRight
    <3>6. MapOK(role, t.used, t.disk, gd.inode, gd.file, gd.dirty, gd.curr_blk)
      BY <3>2, <1>3 DEF FdMapOK
    <3>. QED
      BY <3>5, <3>6, <2>1, <2>2, <1>3 DEF DescRight
  <2>3. CASE ~t.ok
    <3>1. ~t.fd.dirty /\ t.fd.bufpos \in 0 .. Bytes /\ t.used = Blocks /\ FdMapOK(role, t)
      BY <1>6, <2>3 DEF Done, Failed
    <3>2. FdRight(role, t.used, t.disk, gd)
      BY <3>1, <2>3, <1>3 DEF FdRight
    <3>3. MapOK(role, t.used, t.disk, gd.inode, gd.file, gd.dirty, gd.curr_blk)
      BY <3>1, <1>3 DEF FdMapOK
    <3>. QED
      BY <3>1, <3>2, <3>3, <2>1 DEF DescRight
  <2>. QED
    BY <2>2, <2>3
<1>. QED
  BY <1>3, <1>4, <1>5, <1>6

(* The one descriptor of a file, in a state that is right *)
LEMMA AloneOK ==
  ASSUME NEW role, NEW us, NEW dk, NEW nodes, NEW fds, NEW d \in Desc, NEW f, NEW n,
         OpenIn(fds, f) = {d}, DescRight(role, us, dk, fds[d], n)
  PROVE  FileOK(role, us, dk, nodes, fds, f, n)
<1>1. OpenIn(fds, f) # {}
  OBVIOUS
<1>2. \A e \in OpenIn(fds, f) : e = d
  OBVIOUS
<1>. QED
  BY <1>1, <1>2 DEF FileOK

(* The descriptors of a file. *)
LEMMA OpenOnIs ==
  ASSUME NEW f
  PROVE  OpenOn(f) = OpenIn(fdesc, f)
  BY DEF OpenOn, OpenIn

(* A file that one descriptor has alone, and that is written *)
LEMMA MayBeWritten ==
  ASSUME Types, NEW role, FilesRight(role), NEW d \in Desc, fdesc[d].open, ~fdesc[d].refused, NEW f, f = fdesc[d].file, f \in Files \ spoilt,
         NEW m \in Nat \ {0}, ~Misused(d, m), NEW n, n = length[f], NEW start, start = Start(fdesc[d]), NEW final, final = start + m
  PROVE  MayWrite(role, State(d), n, final) /\ OpenIn(fdesc, f) = {d}
<1> DEFINE s == State(d)
           fd == fdesc[d]
<1>1. s.used = used /\ s.disk = disk /\ s.fd = fd /\ s.ok
  BY DEF State
<1>2. fd \in Descriptor /\ fd.filepos \in Nat /\ fd.bufpos \in Int /\ fd.inode.size \in Nat /\ Bytes \in Nat \ {0}
  BY OpenIs, FieldsAre, TimesIs
<1>3. OpenIn(fdesc, f) = {d}
  BY OpenOnIs DEF Misused, Shared
<1>4. DescRight(role, used, disk, fd, n)
  <2>1. FileOK(role, used, disk, inodes, fdesc, f, n)
    BY DEF FilesRight
  <2>. QED
    BY <1>3, <2>1 DEF FileOK
<1>5. FdRight(role, used, disk, fd) /\ MapOK(role, used, disk, fd.inode, fd.file, fd.dirty, fd.curr_blk) /\ fd.inode.size = n
  BY <1>4 DEF DescRight
<1>6. fd.append => ~fd.dirty
  BY DEF Misused, Overwritten
<1>7. ASSUME ~fd.append PROVE ~Ended(fd) /\ LogNear(fd, final)
  <2>1. ~Ended(fd)
    BY <1>7 DEF Misused, Turned, Ended
  <2>2. final = fd.filepos + m
    BY <1>7 DEF Start
  <2>3. ~Behind(d, m)
    BY DEF Misused
  <2> DEFINE next == fd.filepos - fd.bufpos + Bytes
  <2>4. \/ fd.curr_log * Bytes + fd.bufpos = fd.filepos
        \/ ~(fd.inode.size <= next)
        \/ ~(next < final)
    BY <1>7, <2>2, <2>3 DEF Behind
  <2>5. next \in Int /\ final \in Nat
    BY <1>2, <2>2
  <2> HIDE DEF next
  <2>6. \/ fd.curr_log * Bytes + fd.bufpos = fd.filepos
        \/ fd.inode.size > next
        \/ next >= final
    BY <1>2, <2>4, <2>5
  <2>. QED
    BY <2>1, <2>6 DEF LogNear, next
<1>8. start < final
  BY <1>2 DEF Start
<1> HIDE DEF s, fd
<1>9. FdMapOK(role, s)
  BY <1>1, <1>5 DEF FdMapOK
<1>10. MayWrite(role, s, n, final)
  BY <1>1, <1>5, <1>6, <1>7, <1>8, <1>9 DEF MayWrite, fd
<1>. QED
  BY <1>3, <1>10 DEF s

(* Write keeps the invariant. *)
LEMMA WriteOK ==
  ASSUME IInv, NEW d \in Desc, NEW m \in WriteCounts, Write(d, m), temp' = temp
  PROVE  IInv'
<1> DEFINE s == State(d)
           f == fdesc[d].file
           t == Put(s, m)
           gd == [t.fd EXCEPT !.refused = ~t.ok]
           start == Start(fdesc[d])
           final == start + m
           n == length[f]
           w == Volume(t)
           nodes2 == t.inodes
           n2 == IF t.fd.filepos > n THEN t.fd.filepos ELSE n
<1>1. PICK role : InOrder(role) /\ FilesRight(role)
  BY DEF IInv
<1>2. Types
  BY DEF IInv
<1>3. m \in Nat \ {0} /\ MaxSize \in Nat
  BY SfsFileAssumption DEF SfsFileAssumption
<1>4. fdesc[d].open /\ ~fdesc[d].refused /\ final <= MaxSize /\ Written(d, t) /\ Noted(f, Misused(d, m))
  BY DEF Write, Start
<1>5. f \in Files /\ fdesc[d] \in Descriptor
  BY <1>2, <1>4, OpenIs
<1>6. /\ CallOK(role, s) /\ Volume(s) = Now /\ s.ok
      /\ s.used = used /\ s.disk = disk /\ s.inodes = inodes /\ s.fd = fdesc[d]
  BY <1>1, <1>2, <1>4, StateOK
<1>7. n \in 0 .. MaxSize /\ n \in Nat
  BY <1>2, <1>3, <1>5 DEF Types
<1>8. /\ used' = t.used /\ disk' = t.disk /\ inodes' = nodes2 /\ fdesc' = [fdesc EXCEPT ![d] = gd]
      /\ length' = [length EXCEPT ![f] = IF t.fd.filepos > @ THEN t.fd.filepos ELSE @]
  BY <1>4 DEF Written
<1>9. spoilt \subseteq spoilt' /\ spoilt' \subseteq Files /\ after' \in 0 .. MaxAfter /\ (f \notin spoilt' => ~Misused(d, m) /\ f \notin spoilt)
  BY <1>2, <1>4, <1>5, NotedIs DEF Misused, Shared, Overwritten, Turned, Behind
<1>10. fdesc \in [Desc -> {Closed} \cup Descriptor] /\ length \in [Files -> 0 .. MaxSize]
  BY <1>2 DEF Types
<1>11. final \in Nat
  BY <1>3, <1>5, FieldsAre DEF Start
<1> HIDE DEF s, t, start
<1>12. PICK role2 : Goes(role, s, role2, t) /\ (MayWrite(role, s, n, final) => Done(role2, t, n, final))
  <2> HIDE DEF f, gd, n, w, nodes2, n2
  <2>1. start = Start(s.fd) /\ t = Put(s, m)
    BY <1>6 DEF start, t
  <2>. QED
    BY <2>1, <1>3, <1>4, <1>6, <1>7, PutGoes
<1>13. CallOK(role2, t) /\ Frame(role, Now, role2, w, f) /\ Ident(s.fd, t.fd) /\ OthersKept(s, t)
  BY <1>6, <1>12 DEF Goes
<1>14. t \in Calls /\ t.fd.filepos \in Nat /\ t.fd.filepos <= MaxSize /\ t.ok \in BOOLEAN
  BY <1>13, CallIs, FieldsAre DEF CallOK
<1>15. w \in Volumes /\ w.used = t.used /\ w.disk = t.disk /\ Vol(role2, w) /\ nodes2 \in [Files -> Inode] /\ NodesOK(role2, w.used, nodes2)
  BY <1>13, <1>14, CallIs DEF CallOK
<1>16. \A g \in Files : g # f => nodes2[g] = inodes[g]
  BY <1>6, <1>13 DEF OthersKept
<1>17. /\ DescOK(role2, w.used, gd) /\ gd.file = f /\ gd.open
       /\ Done(role2, t, n, final) => DescRight(role2, t.used, t.disk, gd, n2)
  <2>1. t.fd.file = f
    BY <1>6, <1>13 DEF Ident
  <2>2. gd = [t.fd EXCEPT !.refused = ~t.ok]
    OBVIOUS
  <2> HIDE DEF gd, f, n, w, final
  <2>. QED
    BY <2>1, <2>2, <1>7, <1>11, <1>13, <1>15, WriteLeaves
<1>18. n2 \in 0 .. MaxSize
  BY <1>3, <1>7, <1>14
<1>19. length' \in [Files -> 0 .. MaxSize] /\ length'[f] = n2 /\ \A g \in Files : g # f => length'[g] = length[g]
  BY <1>5, <1>8, <1>10, <1>18
<1>20. fdesc'[d] = gd /\ \A e \in Desc : e # d => fdesc'[e] = fdesc[e]
  BY <1>8, <1>10
<1>21. ASSUME f \notin spoilt' PROVE FileOK(role2, w.used, w.disk, nodes2, fdesc', f, length'[f])
  <2>1. MayWrite(role, s, n, final) /\ OpenIn(fdesc, f) = {d}
    <3>1. f = fdesc[d].file /\ f \in Files \ spoilt /\ ~Misused(d, m) /\ n = length[f] /\ start = Start(fdesc[d]) /\ final = start + m
      BY <1>5, <1>9, <1>21 DEF start
    <3> HIDE DEF f, n, final
    <3>2. MayWrite(role, State(d), n, final) /\ OpenIn(fdesc, f) = {d}
      BY <3>1, <1>1, <1>2, <1>3, <1>4, MayBeWritten
    <3>. QED
      BY <3>2 DEF s
  <2>2. DescRight(role2, w.used, w.disk, gd, n2)
    BY <2>1, <1>12, <1>15, <1>17
  <2> DEFINE fds2 == fdesc'
  <2> HIDE DEF gd, n2
  <2>3. OpenIn(fds2, f) = {d}
    <3>1. \A e \in Desc : e \in OpenIn(fds2, f) <=> e \in OpenIn(fdesc, f)
      BY <2>1, <1>17, <1>20 DEF OpenIn
    <3>2. OpenIn(fds2, f) \subseteq Desc /\ OpenIn(fdesc, f) \subseteq Desc
      BY DEF OpenIn
    <3>. QED
      BY <2>1, <3>1, <3>2
  <2>4. DescRight(role2, w.used, w.disk, fds2[d], n2)
    BY <2>2, <1>20
  <2> HIDE DEF fds2
  <2>5. FileOK(role2, w.used, w.disk, nodes2, fds2, f, n2)
    BY <2>3, <2>4, AloneOK
  <2>. QED
    BY <2>5, <1>19 DEF fds2
<1>22. TempOK'
  BY <1>2, TempSame DEF Types
<1> HIDE DEF f, gd, n, w, nodes2, n2, final
<1>23. used' = w.used /\ disk' = w.disk /\ (gd = Closed \/ (DescOK(role2, w.used, gd) /\ gd.file = f))
  BY <1>8, <1>15, <1>17
<1>24. fdesc[d].file = f
  BY DEF f
<1>25. used' = w.used /\ disk' = w.disk /\ inodes' = nodes2 /\ fdesc' = [fdesc EXCEPT ![d] = gd]
  BY <1>8, <1>15
<1>. QED
  BY <1>1, <1>2, <1>5, <1>9, <1>13, <1>15, <1>16, <1>17, <1>19, <1>21, <1>22, <1>24, <1>25, NextOK

(* A file that was read, or whose descriptor was moved: the one descriptor *)
(* changes, and nothing else if it has company.                            *)
LEMMA Stepped ==
  ASSUME Types, NEW role, FilesRight(role), NEW d \in Desc, fdesc[d].open, ~fdesc[d].refused,
         NEW f, f = fdesc[d].file, f \in Files \ spoilt, NEW n, n = length[f],
         NEW t, SeekDone(role, State(d), t), t.fd.open, FdMapOK(role, t), FdRight(role, t.used, t.disk, t.fd),
         NEW fds2, fds2[d] = t.fd, \A e \in Desc : e # d => fds2[e] = fdesc[e]
  PROVE  FileOK(role, t.used, t.disk, t.inodes, fds2, f, n)
<1> DEFINE s == State(d)
           fd == fdesc[d]
<1>1. s.used = used /\ s.disk = disk /\ s.inodes = inodes /\ s.fd = fd
  BY DEF State
<1>2. FileOK(role, used, disk, inodes, fdesc, f, n)
  BY DEF FilesRight
<1>3. d \in OpenIn(fdesc, f)
  BY DEF OpenIn
<1>4. DescRight(role, used, disk, fd, n) /\ (OpenIn(fdesc, f) = {d} \/ (~fd.dirty /\ fd.inode = inodes[f]))
  BY <1>2, <1>3 DEF FileOK
<1>5. /\ t.used = used /\ t.fd.inode = fd.inode /\ t.fd.file = f /\ ~t.fd.refused
      /\ ~fd.dirty => t.disk = disk /\ t.inodes = inodes /\ ~t.fd.dirty
  BY <1>1 DEF SeekDone, Goes, Ident
<1>6. DescRight(role, t.used, t.disk, t.fd, n)
  BY <1>4, <1>5 DEF DescRight, FdMapOK
<1>7. OpenIn(fds2, f) = OpenIn(fdesc, f)
  <2>1. \A e \in Desc : e \in OpenIn(fds2, f) <=> e \in OpenIn(fdesc, f)
    BY <1>3, <1>5 DEF OpenIn
  <2>. QED
    BY <2>1 DEF OpenIn
<1>8. CASE OpenIn(fdesc, f) = {d}
  <2>1. DescRight(role, t.used, t.disk, fds2[d], n)
    BY <1>6
  <2> DEFINE nodes == t.inodes
             us == t.used
             dk == t.disk
  <2> HIDE DEF nodes, us, dk
  <2>2. FileOK(role, us, dk, nodes, fds2, f, n)
    BY <1>7, <1>8, <2>1, AloneOK DEF us, dk
  <2>. QED
    BY <2>2 DEF nodes, us, dk
<1>9. CASE ~fd.dirty /\ fd.inode = inodes[f]
  <2>1. t.used = used /\ t.disk = disk /\ t.inodes = inodes /\ ~t.fd.dirty /\ t.fd.inode = inodes[f]
    BY <1>5, <1>9
  <2>2. ASSUME NEW e \in OpenIn(fds2, f)
        PROVE  /\ DescRight(role, t.used, t.disk, fds2[e], n)
               /\ OpenIn(fds2, f) = {e} \/ (~fds2[e].dirty /\ fds2[e].inode = t.inodes[f])
    <3>1. CASE e = d
      BY <3>1, <2>1, <1>6
    <3>2. CASE e # d
      <4>1. e \in Desc /\ fds2[e] = fdesc[e] /\ e \in OpenIn(fdesc, f)
        BY <3>2, <1>7 DEF OpenIn
      <4>2. DescRight(role, used, disk, fdesc[e], n) /\ (OpenIn(fdesc, f) = {e} \/ (~fdesc[e].dirty /\ fdesc[e].inode = inodes[f]))
        BY <4>1, <1>2 DEF FileOK
      <4>. QED
        BY <4>1, <4>2, <2>1, <1>7
    <3>. QED
      BY <3>1, <3>2
  <2>3. OpenIn(fds2, f) # {}
    BY <1>3, <1>7
  <2>. QED
    BY <2>2, <2>3 DEF FileOK
<1>. QED
  BY <1>4, <1>8, <1>9

(* NextOK with its hypotheses in one *)
StepTo(role, d, f, role2, w, nodes2, gd) ==
  /\ w \in Volumes /\ Frame(role, Now, role2, w, f) /\ Vol(role2, w) /\ used' = w.used /\ disk' = w.disk
  /\ nodes2 \in [Files -> Inode] /\ inodes' = nodes2 /\ NodesOK(role2, w.used, nodes2)
  /\ \A g \in Files : g # f => nodes2[g] = inodes[g]
  /\ fdesc' = [fdesc EXCEPT ![d] = gd] /\ (gd = Closed \/ (DescOK(role2, w.used, gd) /\ gd.file = f))
  /\ length' \in [Files -> 0 .. MaxSize] /\ \A g \in Files : g # f => length'[g] = length[g]
  /\ spoilt \subseteq spoilt' /\ spoilt' \subseteq Files /\ after' \in 0 .. MaxAfter /\ TempOK'
  /\ f \notin spoilt' => FileOK(role2, w.used, w.disk, nodes2, fdesc', f, length'[f])
(* A step of one descriptor keeps the invariant if it keeps its part. *)
LEMMA StepToOK ==
  ASSUME Types, NEW role, InOrder(role), FilesRight(role), NEW d \in Desc, NEW f \in Files, fdesc[d].open => fdesc[d].file = f,
         NEW role2, NEW w, NEW nodes2, NEW gd, StepTo(role, d, f, role2, w, nodes2, gd)
  PROVE  IInv'
  BY NextOK DEF StepTo

(* A call that does no more than that keeps the invariant. *)
Unmoved == used' = used /\ length' = length

(* Read and Lseek keep the invariant if they leave their descriptor right. *)
LEMMA SteppedOK ==
  ASSUME Types, NEW role, InOrder(role), FilesRight(role), NEW d \in Desc, fdesc[d].open, ~fdesc[d].refused,
         NEW t, SeekDone(role, State(d), t), WasRead(d, t), Unmoved, TempOK',
         NEW misused \in BOOLEAN, Noted(fdesc[d].file, misused),
         ~misused /\ FdRight(role, used, disk, fdesc[d]) /\ FdMapOK(role, State(d)) =>
           FdMapOK(role, t) /\ FdRight(role, t.used, t.disk, t.fd)
  PROVE  IInv'
<1> DEFINE s == State(d)
           f == fdesc[d].file
           w == Volume(t)
           gd == t.fd
           nodes2 == t.inodes
<1>1. f \in Files /\ fdesc[d] \in Descriptor
  BY OpenIs
<1>2. /\ CallOK(role, s) /\ Volume(s) = Now
      /\ s.used = used /\ s.disk = disk /\ s.inodes = inodes /\ s.fd = fdesc[d]
  BY StateOK
<1>3. disk' = t.disk /\ inodes' = nodes2 /\ fdesc' = [fdesc EXCEPT ![d] = gd]
  BY DEF WasRead
<1>4. spoilt \subseteq spoilt' /\ spoilt' \subseteq Files /\ after' \in 0 .. MaxAfter /\ (f \notin spoilt' => ~misused /\ f \notin spoilt)
  BY <1>1, NotedIs
<1> HIDE DEF s
<1>5. CallOK(role, t) /\ Frame(role, Now, role, w, f) /\ Ident(s.fd, gd) /\ OthersKept(s, t) /\ t.used = used
  BY <1>2 DEF SeekDone, Goes, s
<1>6. t \in Calls /\ w \in Volumes /\ w.used = t.used /\ w.disk = t.disk /\ Vol(role, w) /\ nodes2 \in [Files -> Inode] /\ NodesOK(role, w.used, nodes2)
  BY <1>5, CallIs DEF CallOK
<1>7. \A g \in Files : g # f => nodes2[g] = inodes[g]
  BY <1>2, <1>5 DEF OthersKept
<1>8. DescOK(role, w.used, gd) /\ gd.file = f /\ gd.open
  BY <1>2, <1>5, <1>6 DEF CallOK, Ident
<1>9. fdesc \in [Desc -> {Closed} \cup Descriptor] /\ length \in [Files -> 0 .. MaxSize]
  BY DEF Types
<1>10. fdesc'[d] = gd /\ \A e \in Desc : e # d => fdesc'[e] = fdesc[e]
  BY <1>3, <1>9
<1>11. ASSUME f \notin spoilt' PROVE FileOK(role, w.used, w.disk, nodes2, fdesc', f, length'[f])
  <2>1. ~misused /\ f \in Files \ spoilt
    BY <1>1, <1>4, <1>11
  <2>2. FileOK(role, used, disk, inodes, fdesc, f, length[f])
    BY <2>1 DEF FilesRight
  <2>3. DescRight(role, used, disk, fdesc[d], length[f])
    BY <2>2 DEF FileOK, OpenIn
  <2>4. FdRight(role, used, disk, fdesc[d]) /\ FdMapOK(role, s)
    BY <2>3, <1>2 DEF DescRight, FdMapOK
  <2>5. FdMapOK(role, t) /\ FdRight(role, t.used, t.disk, t.fd)
    BY <2>1, <2>4 DEF s
  <2> DEFINE fds2 == fdesc'
             n == length[f]
  <2>6. fds2[d] = t.fd /\ (\A e \in Desc : e # d => fds2[e] = fdesc[e]) /\ t.fd.open /\ n = length[f] /\ f = fdesc[d].file
    BY <1>8, <1>10
  <2> HIDE DEF fds2, n, f
  <2>7. FileOK(role, t.used, t.disk, t.inodes, fds2, f, n)
    BY <2>1, <2>5, <2>6, Stepped
  <2>. QED
    BY <2>7, <1>6 DEF fds2, n, Unmoved
<1> HIDE DEF f, gd, w, nodes2
<1>12. used' = w.used /\ disk' = w.disk /\ fdesc[d].file = f
  BY <1>3, <1>5, <1>6 DEF f, Unmoved
<1> DEFINE role2 == role
<1>13. gd = Closed \/ (DescOK(role2, w.used, gd) /\ gd.file = f)
  BY <1>8
<1>14. length' \in [Files -> 0 .. MaxSize] /\ \A g \in Files : g # f => length'[g] = length[g]
  BY <1>9 DEF Unmoved
<1>15. inodes' = nodes2 /\ fdesc' = [fdesc EXCEPT ![d] = gd]
  BY <1>3
<1>16. Frame(role, Now, role2, w, f)
  BY <1>5
<1>17. w \in Volumes /\ Vol(role2, w) /\ nodes2 \in [Files -> Inode] /\ NodesOK(role2, w.used, nodes2)
  BY <1>6
<1>18. f \notin spoilt' => FileOK(role2, w.used, w.disk, nodes2, fdesc', f, length'[f])
  BY <1>11
<1> HIDE DEF role2
<1>19. StepTo(role, d, f, role2, w, nodes2, gd)
  BY <1>4, <1>7, <1>12, <1>13, <1>14, <1>15, <1>16, <1>17, <1>18 DEF StepTo
<1>. QED
  BY <1>1, <1>12, <1>19, StepToOK

(* Where a read may start, and what it comes to *)
LEMMA ReadingIs ==
  ASSUME NEW role, NEW s, s.fd \in Descriptor
  PROVE  /\ FdRight(role, s.used, s.disk, s.fd) /\ FdMapOK(role, s) /\ ~s.fd.refused
              /\ ~(s.fd.bufpos = Bytes /\ s.fd.filepos < s.fd.inode.size) => Reading(role, s)
         /\ Reading(role, s) => FdMapOK(role, s) /\ FdRight(role, s.used, s.disk, s.fd)
<1>1. Bytes \in Nat /\ s.fd.bufpos \in Int /\ s.fd.filepos \in Nat /\ s.fd.inode.size \in Nat
  BY FieldsAre, TimesIs
<1>2. \A k \in Nat : FdMapOK(role, s) => (On(role, s.used, s.disk, s.fd, k) <=> Going(role, s, k))
  BY DEF On, Going, FdBuffered
<1>3. \A k \in Nat : Going(role, s, k) => s.fd.bufpos \in 0 .. Bytes /\ s.fd.filepos <= s.fd.inode.size /\ k \in 0 .. Starts[4] - 1
  BY DEF Going, OnPos
<1>4. 0 .. Starts[4] - 1 \subseteq Nat
  OBVIOUS
<1>5. ASSUME FdRight(role, s.used, s.disk, s.fd), FdMapOK(role, s), ~s.fd.refused,
             ~(s.fd.bufpos = Bytes /\ s.fd.filepos < s.fd.inode.size)
      PROVE  Reading(role, s)
  <2>1. CASE \E k \in 0 .. Starts[4] - 1 : On(role, s.used, s.disk, s.fd, k)
    <3>1. PICK k \in Nat : On(role, s.used, s.disk, s.fd, k)
      BY <2>1, <1>4
    <3>2. Going(role, s, k)
      BY <3>1, <1>2, <1>5
    <3>3. s.fd.bufpos \in 0 .. Bytes - 1 \/ s.fd.filepos = s.fd.inode.size
      BY <3>2, <1>1, <1>3, <1>5
    <3>. QED
      BY <3>2, <3>3, <1>5 DEF Reading
  <2>. QED
    BY <2>1, <1>5 DEF FdRight, Reading
<1>6. ASSUME Reading(role, s) PROVE FdMapOK(role, s) /\ FdRight(role, s.used, s.disk, s.fd)
  <2>1. FdMapOK(role, s)
    BY <1>6 DEF Reading
  <2>2. CASE \E k \in Nat : Going(role, s, k)
    <3>1. PICK k \in Nat : Going(role, s, k)
      BY <2>2
    <3>2. On(role, s.used, s.disk, s.fd, k) /\ k \in 0 .. Starts[4] - 1
      BY <3>1, <2>1, <1>2, <1>3
    <3>. QED
      BY <3>2, <2>1 DEF FdRight
  <2>. QED
    BY <2>1, <2>2, <1>6 DEF Reading, FdRight
<1>. QED
  BY <1>5, <1>6

(* Read keeps the invariant. *)
LEMMA ReadOK ==
  ASSUME IInv, NEW d \in Desc, NEW m \in ReadCounts, Read(d, m), temp' = temp
  PROVE  IInv'
<1> DEFINE s == State(d)
           t == Get(s, m)
           misused == JustFilled(fdesc[d]) /\ fdesc[d].filepos < fdesc[d].inode.size
<1>1. PICK role : InOrder(role) /\ FilesRight(role)
  BY DEF IInv
<1>2. Types
  BY DEF IInv
<1>3. m \in Nat
  BY SfsFileAssumption DEF SfsFileAssumption
<1>4. fdesc[d].open /\ ~fdesc[d].refused /\ WasRead(d, t) /\ Unmoved /\ Noted(fdesc[d].file, misused)
  BY DEF Read, Unmoved
<1>5. TempOK'
  BY <1>2, TempSame DEF Types
<1>6. CallOK(role, s) /\ s.used = used /\ s.disk = disk /\ s.fd = fdesc[d]
  BY <1>1, <1>2, <1>4, StateOK
<1>7. t = Get(s, m)
  OBVIOUS
<1> HIDE DEF s, t
<1>8. GetRel(role, s, t)
  BY <1>3, <1>6, <1>7, GetGoes
<1>9. SeekDone(role, s, t)
  BY <1>8 DEF GetRel, SeekDone
<1>10. s.fd \in Descriptor /\ t.fd \in Descriptor
  BY <1>6, <1>8 DEF GetRel, Goes, CallOK, DescOK
<1>11. ~misused /\ FdRight(role, used, disk, fdesc[d]) /\ FdMapOK(role, s) =>
           FdMapOK(role, t) /\ FdRight(role, t.used, t.disk, t.fd)
  <2>1. ~misused /\ FdRight(role, used, disk, fdesc[d]) /\ FdMapOK(role, s) => Reading(role, s)
    BY <1>4, <1>6, <1>10, ReadingIs DEF JustFilled
  <2>2. Reading(role, s) => Reading(role, t)
    BY <1>8 DEF GetRel
  <2>. QED
    BY <2>1, <2>2, <1>10, ReadingIs
<1>12. misused \in BOOLEAN
  OBVIOUS
<1> HIDE DEF misused
<1>13. SeekDone(role, State(d), t) /\ (~misused /\ FdRight(role, used, disk, fdesc[d]) /\ FdMapOK(role, State(d)) =>
           FdMapOK(role, t) /\ FdRight(role, t.used, t.disk, t.fd))
  BY <1>9, <1>11 DEF s
<1>. QED
  BY <1>1, <1>2, <1>4, <1>5, <1>12, <1>13, SteppedOK

(* Lseek keeps the invariant. *)
LEMMA LseekOK ==
  ASSUME IInv, NEW d \in Desc, NEW offset \in Offsets, NEW whence \in Whences, Lseek(d, offset, whence)
  PROVE  IInv'
<1> DEFINE s == State(d)
           fd == fdesc[d]
           t == Moved(s, offset, whence)
           misused == ~Catered(fd, offset, whence)
<1>1. PICK role : InOrder(role) /\ FilesRight(role)
  BY DEF IInv
<1>2. Types /\ TempOK
  BY DEF IInv, Types
<1>3. offset \in Nat
  BY SfsLseekAssumption DEF SfsLseekAssumption
<1>4. fd.open /\ ~fd.refused /\ WasRead(d, t) /\ Unmoved /\ Noted(fd.file, misused) /\ t.fd.filepos <= MaxSize
  BY DEF Lseek, Unmoved
<1>5. temp' = IF whence = "SEEK_SET" /\ fd.curr_blk # Block(offset)
              THEN [filepos |-> t.fd.filepos, bufpos |-> t.fd.bufpos] ELSE temp
  BY DEF Lseek
<1>6. CallOK(role, s) /\ s.used = used /\ s.disk = disk /\ s.fd = fd
  BY <1>1, <1>2, <1>4, StateOK
<1>7. misused \in BOOLEAN
  BY DEF Catered
<1>8. t = Moved(s, offset, whence)
  OBVIOUS
<1> HIDE DEF s, t
<1>9. /\ SeekDone(role, s, t)
      /\ Catered(s.fd, offset, whence) /\ FdRight(role, s.used, s.disk, s.fd) /\ FdMapOK(role, s) /\ ~s.fd.refused
           => \E k \in Nat : Going(role, t, k)
      /\ whence = "SEEK_SET" /\ s.fd.curr_blk # Block(offset) =>
           t.fd.filepos \in 0 .. MaxSize /\ t.fd.bufpos \in Nat
  BY <1>2, <1>3, <1>4, <1>6, <1>8, MovedGoes
<1>10. TempOK'
  <2>1. CASE whence = "SEEK_SET" /\ fd.curr_blk # Block(offset)
    <3>1. temp' = [filepos |-> t.fd.filepos, bufpos |-> t.fd.bufpos]
      BY <2>1, <1>5
    <3>2. t.fd.filepos \in 0 .. MaxSize /\ t.fd.bufpos \in Nat
      BY <2>1, <1>6, <1>9
    <3>. QED
      BY <3>1, <3>2 DEF TempOK
  <2>2. CASE ~(whence = "SEEK_SET" /\ fd.curr_blk # Block(offset))
    BY <2>2, <1>2, <1>5, TempSame
  <2>. QED
    BY <2>1, <2>2
<1>11. t.fd \in Descriptor
  BY <1>9 DEF SeekDone, Goes, CallOK, DescOK
<1>12. ~misused /\ FdRight(role, used, disk, fd) /\ FdMapOK(role, s) =>
           FdMapOK(role, t) /\ FdRight(role, t.used, t.disk, t.fd)
  <2>1. ASSUME ~misused, FdRight(role, used, disk, fd), FdMapOK(role, s)
        PROVE  FdMapOK(role, t) /\ FdRight(role, t.used, t.disk, t.fd)
    <3>1. PICK k \in Nat : Going(role, t, k)
      BY <2>1, <1>4, <1>6, <1>9
    <3>2. FdMapOK(role, t) /\ On(role, t.used, t.disk, t.fd, k) /\ k \in 0 .. Starts[4] - 1
      BY <3>1 DEF Going, On, FdBuffered
    <3>. QED
      BY <3>2 DEF FdRight
  <2>. QED
    BY <2>1
<1> HIDE DEF misused, fd
<1>13. fdesc[d].open /\ ~fdesc[d].refused /\ Noted(fdesc[d].file, misused)
  BY <1>4 DEF fd
<1>14. SeekDone(role, State(d), t) /\ (~misused /\ FdRight(role, used, disk, fdesc[d]) /\ FdMapOK(role, State(d)) =>
           FdMapOK(role, t) /\ FdRight(role, t.used, t.disk, t.fd))
  BY <1>9, <1>12 DEF s, fd
<1>. QED
  BY <1>1, <1>2, <1>4, <1>7, <1>10, <1>13, <1>14, SteppedOK

(* The descriptor that sfs_openinode makes *)
OpenedRel(role, gd, f, append) ==
  /\ gd.open /\ gd.file = f /\ gd.append = append /\ gd.inode = inodes[f] /\ gd.bufpos = 0 /\ gd.filepos = 0
  /\ ~gd.dirty /\ ~gd.refused
  /\ gd.curr_blk = IF inodes[f].size # 0 THEN inodes[f].direct[0] ELSE -1
  /\ gd.curr_blk \in Blocks => gd.buffer = disk[gd.curr_blk]

(* The first block of a file. *)
LEMMA FirstSpot ==
  /\ Spot(0) = <<0, 0, 0, 0, 0>> /\ Spot(0) \in Place /\ ~Inner(Spot(0)) /\ Spot(0) \in Spots
  /\ 0 \in 0 .. NumDirect - 1 /\ 0 \in 0 .. Starts[4] - 1
<1>1. 0 \in 0 .. NumDirect - 1 /\ 0 \in 0 .. Starts[4] - 1 /\ 0 < Starts[1]
  BY StartsAre
<1>2. Level(0) = 0
  BY <1>1, LevelIs
<1>3. Spot(0) = <<0, 0, 0, 0, 0>>
  BY <1>2 DEF Spot
<1>4. Spot(0) \in Place /\ ~Inner(Spot(0))
  BY StartsAre, SpotPlace
<1>. QED
  BY <1>1, <1>3, <1>4, PlaceSpots

(* A buffer that was never filled. *)
LEMMA BlankIs == Blank \in Buffer
<1>1. <<NoFile, 0>> \in Byte
  BY SfsFileAssumption DEF SfsFileAssumption, Byte
<1>. QED
  BY <1>1 DEF Blank, Buffer

(* What OpenInode makes of a descriptor. *)
LEMMA OpenedIs ==
  ASSUME Types, NEW role, InOrder(role), NEW f \in Files, NEW append \in BOOLEAN, NEW gd, gd = OpenInode(f, append)
  PROVE  DescOK(role, used, gd) /\ OpenedRel(role, gd, f, append)
<1> DEFINE ino == inodes[f]
           b == IF ino.size # 0 THEN ino.direct[0] ELSE -1
           l == IF ino.size # 0 THEN 0 ELSE -1
           x == [open |-> TRUE, file |-> f, append |-> append, inode |-> ino, buffer |-> Blank,
                 bufpos |-> 0, filepos |-> 0, dirty |-> FALSE, refused |-> FALSE, curr_blk |-> b, curr_log |-> l]
<1>1. Now \in Volumes /\ Now.used = used /\ Now.disk = disk /\ Vol(role, Now)
  BY NowIs DEF InOrder
<1>2. InodeOK(role, used, f, ino) /\ ino \in Inode
  BY DEF InOrder, NodesOK, InodeOK
<1>3. BlkOK(role, used, f, b)
  <2>1. Holds(role, used, f, Spot(0), b)
    BY <1>2, FirstSpot DEF InodeOK, Holds
  <2>. QED
    BY <2>1, FirstSpot DEF BlkOK
<1>4. b \in Numbers /\ (b \in Blocks => disk[b] \in Buffer)
  <2> HIDE DEF b
  <2>1. BlkOK(role, Now.used, f, b)
    BY <1>1, <1>3
  <2>. QED
    BY <2>1, <1>1, BlkIs
<1>5. l \in Nat \cup {-1}
  OBVIOUS
<1>6. gd = IF b \in Blocks THEN [x EXCEPT !.buffer = disk[b]] ELSE x
  <2>1. gd = Fetch([disk |-> disk, fd |-> x]).fd
    BY DEF OpenInode, GetInode
  <2> HIDE DEF x
  <2>2. Fetch([disk |-> disk, fd |-> x]).fd = IF x.curr_blk \in Blocks THEN [x EXCEPT !.buffer = disk[x.curr_blk]] ELSE x
    BY DEF Fetch
  <2>3. x.curr_blk = b
    BY DEF x
  <2>. QED
    BY <2>1, <2>2, <2>3
<1> HIDE DEF b, l, ino
<1>7. Bytes \in Nat /\ MaxSize \in Nat
  BY SfsFileAssumption DEF SfsFileAssumption
<1>8. x \in Descriptor
  <2>1. 0 \in Int /\ 0 \in 0 .. MaxSize /\ Blank \in [0 .. Bytes - 1 -> Byte]
    BY <1>7, BlankIs DEF Buffer
  <2>. QED
    BY <2>1, <1>2, <1>4, <1>5 DEF Descriptor
<1>9. /\ x.open /\ x.file = f /\ x.append = append /\ x.inode = ino /\ x.bufpos = 0 /\ x.filepos = 0
      /\ ~x.dirty /\ ~x.refused /\ x.curr_blk = b
  OBVIOUS
<1> HIDE DEF x
<1>10. CASE b \in Blocks
  <2>1. gd = [x EXCEPT !.buffer = disk[b]]
    BY <1>6, <1>10
  <2>2. disk[b] \in [0 .. Bytes - 1 -> Byte]
    BY <1>4, <1>10 DEF Buffer
  <2>3. gd \in Descriptor
    BY <2>1, <2>2, <1>8 DEF Descriptor
  <2>4. /\ gd.open /\ gd.file = f /\ gd.append = append /\ gd.inode = ino /\ gd.bufpos = 0 /\ gd.filepos = 0
        /\ ~gd.dirty /\ ~gd.refused /\ gd.curr_blk = b /\ gd.buffer = disk[b]
    BY <2>1, <1>8, <1>9 DEF Descriptor
  <2>5. DescOK(role, used, gd)
    BY <2>3, <2>4, <1>2, <1>3 DEF DescOK
  <2>. QED
    BY <2>4, <2>5 DEF OpenedRel, b, ino
<1>11. CASE b \notin Blocks
  <2>1. gd = x
    BY <1>6, <1>11
  <2>5. DescOK(role, used, gd)
    BY <2>1, <1>2, <1>3, <1>8, <1>9 DEF DescOK
  <2>. QED
    BY <2>1, <2>5, <1>9, <1>11 DEF OpenedRel, b, ino
<1>. QED
  BY <1>10, <1>11

(* It is right. *)
LEMMA OpenedRight ==
  ASSUME Types, NEW role, InOrder(role), NEW f \in Files, NEW append \in BOOLEAN, NEW gd, DescOK(role, used, gd),
         OpenedRel(role, gd, f, append), NEW n, MapOK(role, used, disk, inodes[f], f, FALSE, 0), inodes[f].size = n
  PROVE  DescRight(role, used, disk, gd, n)
<1> DEFINE ino == inodes[f]
           b == gd.curr_blk
<1>1. Now \in Volumes /\ Now.used = used /\ Now.disk = disk /\ Vol(role, Now)
  BY NowIs DEF InOrder
<1>2. InodeOK(role, Now.used, f, ino) /\ ino \in Inode /\ ino.size \in Nat
  BY <1>1 DEF InOrder, NodesOK, InodeOK, Inode
<1>3. gd.inode = ino /\ gd.file = f /\ ~gd.dirty /\ ~gd.refused /\ gd.bufpos = 0 /\ gd.filepos = 0
  BY DEF OpenedRel
<1>4. MapOK(role, used, disk, gd.inode, gd.file, gd.dirty, gd.curr_blk)
  <2> DEFINE c == gd.curr_blk
             e == gd.dirty
             no == FALSE
             zero == 0
  <2>1. ~no /\ MapOK(role, used, disk, ino, f, no, zero)
    OBVIOUS
  <2> HIDE DEF c, e, no, zero, ino
  <2>2. MapOK(role, used, disk, ino, f, e, c)
    BY <2>1, MapOKClean
  <2>. QED
    BY <2>2, <1>3 DEF c, e
<1>5. FdRight(role, used, disk, gd)
  <2>1. CASE ino.size = 0
    BY <2>1, <1>3 DEF FdRight, Empty
  <2>2. CASE ino.size # 0
    <3>1. b = ino.direct[0] /\ (b \in Blocks => gd.buffer = disk[b])
      BY <2>2 DEF OpenedRel
    <3>2. At(disk, ino, Spot(0)) = ino.direct[0]
      <4>1. Spot(0) = DirectPlace(0)
        BY FirstSpot DEF DirectPlace
      <4>. QED
        BY <4>1, FirstSpot, AtDirect
    <3> DEFINE k == 0
               buf == gd.buffer
    <3>3. k \in 0 .. Starts[4] - 1 /\ b = At(Now.disk, ino, Spot(k)) /\ (b \in Blocks => buf = Now.disk[b])
      BY <3>1, <3>2, <1>1, FirstSpot
    <3>4. MapOK(role, Now.used, Now.disk, ino, f, FALSE, 0)
      BY <1>1
    <3>5. OnPos(gd, k)
      <4>1. Times(0) = 0 /\ Bytes \in Nat
        BY TimesIs
      <4>. QED
        BY <4>1, <1>2, <1>3, <2>2 DEF OnPos
    <3> HIDE DEF k, buf, b, ino
    <3>6. Buffered(role, Now.used, Now.disk, ino, f, k, b, buf)
      BY <3>3, <3>4, <1>1, <1>2, LoadData
    <3>7. On(role, used, disk, gd, k)
      BY <3>3, <3>5, <3>6, <1>1, <1>3 DEF On, b, buf
    <3>. QED
      BY <3>3, <3>7 DEF FdRight
  <2>. QED
    BY <2>1, <2>2
<1>. QED
  BY <1>3, <1>4, <1>5 DEF DescRight

(* A file that is opened once more *)
LEMMA OneMore ==
  ASSUME Types, NEW role, InOrder(role), NEW f \in Files, NEW n, FileOK(role, used, disk, inodes, fdesc, f, n),
         \A e \in OpenIn(fdesc, f) : ~fdesc[e].dirty /\ fdesc[e].inode = inodes[f],
         NEW append \in BOOLEAN, NEW gd, DescOK(role, used, gd), OpenedRel(role, gd, f, append),
         NEW d \in Desc, ~fdesc[d].open, NEW fds2, fds2[d] = gd, \A e \in Desc : e # d => fds2[e] = fdesc[e]
  PROVE  FileOK(role, used, disk, inodes, fds2, f, n)
<1>1. MapOK(role, used, disk, inodes[f], f, FALSE, 0) /\ inodes[f].size = n
  <2>1. CASE OpenIn(fdesc, f) = {}
    BY <2>1 DEF FileOK, NoneOpen
  <2>2. CASE OpenIn(fdesc, f) # {}
    <3>1. PICK e \in OpenIn(fdesc, f) : TRUE
      BY <2>2
    <3>2. DescRight(role, used, disk, fdesc[e], n) /\ ~fdesc[e].dirty /\ fdesc[e].inode = inodes[f] /\ fdesc[e].file = f
      BY <3>1 DEF FileOK, OpenIn
    <3>3. MapOK(role, used, disk, inodes[f], f, fdesc[e].dirty, fdesc[e].curr_blk) /\ inodes[f].size = n
      BY <3>2 DEF DescRight
    <3> DEFINE a == fdesc[e].dirty
               b == fdesc[e].curr_blk
               no == FALSE
               zero == 0
               ino == inodes[f]
    <3>4. ~a /\ MapOK(role, used, disk, ino, f, a, b)
      BY <3>2, <3>3
    <3> HIDE DEF a, b, no, zero, ino
    <3>5. MapOK(role, used, disk, ino, f, no, zero)
      BY <3>4, MapOKClean
    <3>. QED
      BY <3>3, <3>5 DEF no, zero, ino
  <2>. QED
    BY <2>1, <2>2
<1>2. DescRight(role, used, disk, gd, n)
  BY <1>1, OpenedRight
<1>3. gd.open /\ gd.file = f /\ ~gd.dirty /\ gd.inode = inodes[f]
  BY DEF OpenedRel
<1>4. ASSUME NEW e \in OpenIn(fds2, f)
      PROVE  DescRight(role, used, disk, fds2[e], n) /\ ~fds2[e].dirty /\ fds2[e].inode = inodes[f]
  <2>1. CASE e = d
    BY <2>1, <1>2, <1>3
  <2>2. CASE e # d
    <3>1. fds2[e] = fdesc[e] /\ e \in OpenIn(fdesc, f)
      BY <2>2 DEF OpenIn
    <3>. QED
      BY <3>1 DEF FileOK
  <2>. QED
    BY <2>1, <2>2
<1>5. OpenIn(fds2, f) # {}
  <2>1. d \in OpenIn(fds2, f)
    BY <1>3 DEF OpenIn
  <2>. QED
    BY <2>1
<1>. QED
  BY <1>4, <1>5 DEF FileOK

(* Open keeps the invariant. *)
LEMMA OpenOK ==
  ASSUME IInv, NEW d \in Desc, NEW f \in Files, NEW append \in BOOLEAN, Open(d, f, append), temp' = temp
  PROVE  IInv'
<1> DEFINE gd == OpenInode(f, append)
           misused == \E e \in OpenOn(f) : fdesc[e].dirty \/ fdesc[e].inode # inodes[f]
           w == Now
           nodes2 == inodes
<1>1. PICK role : InOrder(role) /\ FilesRight(role)
  BY DEF IInv
<1>2. Types
  BY DEF IInv
<1>3. ~fdesc[d].open /\ fdesc' = [fdesc EXCEPT ![d] = gd] /\ Noted(f, misused) /\ disk' = disk /\ inodes' = inodes /\ Unmoved
  BY DEF Open, Unmoved
<1>4. gd = OpenInode(f, append)
  OBVIOUS
<1>5. w \in Volumes /\ w.used = used /\ w.disk = disk /\ Vol(role, w) /\ NodesOK(role, used, inodes)
  BY <1>1, <1>2, NowIs DEF InOrder
<1>6. Frame(role, Now, role, w, f)
  BY FrameSelf
<1> HIDE DEF gd
<1>7. DescOK(role, used, gd) /\ OpenedRel(role, gd, f, append)
  BY <1>1, <1>2, <1>4, OpenedIs
<1>8. spoilt \subseteq spoilt' /\ spoilt' \subseteq Files /\ after' \in 0 .. MaxAfter /\ (f \notin spoilt' => ~misused /\ f \notin spoilt)
  <2>1. misused \in BOOLEAN
    OBVIOUS
  <2> HIDE DEF misused
  <2>. QED
    BY <1>2, <1>3, <2>1, NotedIs
<1>9. fdesc \in [Desc -> {Closed} \cup Descriptor] /\ length \in [Files -> 0 .. MaxSize] /\ inodes \in [Files -> Inode]
  BY <1>2 DEF Types
<1>10. fdesc'[d] = gd /\ \A e \in Desc : e # d => fdesc'[e] = fdesc[e]
  BY <1>3, <1>9
<1>11. ASSUME f \notin spoilt' PROVE FileOK(role, w.used, w.disk, nodes2, fdesc', f, length'[f])
  <2>1. \A e \in OpenIn(fdesc, f) : ~fdesc[e].dirty /\ fdesc[e].inode = inodes[f]
    BY <1>8, <1>11, OpenOnIs
  <2>2. FileOK(role, used, disk, inodes, fdesc, f, length[f])
    BY <1>1, <1>8, <1>11 DEF FilesRight
  <2> DEFINE fds2 == fdesc'
             n == length[f]
  <2>3. fds2[d] = gd /\ (\A e \in Desc : e # d => fds2[e] = fdesc[e]) /\ FileOK(role, used, disk, inodes, fdesc, f, n)
    BY <1>10, <2>2
  <2> HIDE DEF fds2, n
  <2>4. FileOK(role, used, disk, inodes, fds2, f, n)
    BY <1>1, <1>2, <1>3, <1>7, <2>1, <2>3, OneMore
  <2>. QED
    BY <2>4, <1>3, <1>5 DEF fds2, n, Unmoved
<1>12. TempOK'
  BY <1>2, TempSame DEF Types
<1>13. length' \in [Files -> 0 .. MaxSize] /\ \A g \in Files : g # f => length'[g] = length[g]
  BY <1>3, <1>9 DEF Unmoved
<1>14. gd = Closed \/ (DescOK(role, w.used, gd) /\ gd.file = f)
  BY <1>5, <1>7 DEF OpenedRel
<1>15. /\ used' = w.used /\ disk' = w.disk /\ nodes2 \in [Files -> Inode] /\ inodes' = nodes2 /\ NodesOK(role, w.used, nodes2)
       /\ \A g \in Files : g # f => nodes2[g] = inodes[g]
  BY <1>3, <1>5, <1>9 DEF Unmoved
<1> HIDE DEF w, nodes2
<1>16. StepTo(role, d, f, role, w, nodes2, gd)
  BY <1>3, <1>5, <1>6, <1>8, <1>11, <1>12, <1>13, <1>14, <1>15 DEF StepTo
<1>. QED
  BY <1>1, <1>2, <1>3, <1>16, StepToOK

(* The block and the inode that sfs_close saves *)
SavedOnClose(fd) ==
  [used |-> used, disk |-> IF fd.dirty /\ fd.curr_blk \in Blocks THEN Upd(disk, fd.curr_blk, fd.buffer) ELSE disk]

(* What Close does. *)
LEMMA CloseIs ==
  ASSUME Types, NEW d \in Desc, Close(d), NEW fd, fd = fdesc[d], NEW w, w = SavedOnClose(fd)
  PROVE  /\ fd.open /\ fd \in Descriptor /\ w \in Volumes /\ w.used = used
         /\ w.disk = (IF fd.dirty /\ fd.curr_blk \in Blocks THEN Upd(disk, fd.curr_blk, fd.buffer) ELSE disk)
         /\ disk' = w.disk /\ inodes' = [inodes EXCEPT ![fd.file] = fd.inode]
<1> DEFINE s == State(d)
<1>1. fd.open /\ disk' = (IF fd.dirty THEN Store(s).disk ELSE disk) /\ inodes' = PutInode(s).inodes
  BY DEF Close
<1>2. fd \in Descriptor
  BY <1>1, OpenIs
<1>3. s.disk = disk /\ s.inodes = inodes /\ s.fd = fd /\ s = [used |-> used, disk |-> disk, inodes |-> inodes, fd |-> fd, ok |-> TRUE]
  BY DEF State
<1>4. disk \in [Blocks -> Buffer \cup Pointers] /\ used \in SUBSET Blocks /\ fd.buffer \in Buffer
  BY <1>2, FieldsAre DEF Types
<1>5. Store(s).disk = IF fd.curr_blk \in Blocks THEN Upd(disk, fd.curr_blk, fd.buffer) ELSE disk
  BY <1>3 DEF Store, Upd
<1>6. PutInode(s).inodes = [inodes EXCEPT ![fd.file] = fd.inode]
  BY <1>3 DEF PutInode
<1>7. w.used = used /\ w.disk = IF fd.dirty /\ fd.curr_blk \in Blocks THEN Upd(disk, fd.curr_blk, fd.buffer) ELSE disk
  BY DEF SavedOnClose
<1>8. w.disk \in [Blocks -> Buffer \cup Pointers]
  BY <1>4, <1>7 DEF Upd
<1>9. w \in Volumes
  BY <1>4, <1>7, <1>8 DEF SavedOnClose, Volumes
<1>10. disk' = w.disk
  BY <1>1, <1>2, <1>5, <1>7, FieldsAre
<1>. QED
  BY <1>1, <1>2, <1>6, <1>7, <1>9, <1>10

(* What the disk has of a file that nobody else has open *)
LeftOnDisk(role, w, fd, n) == MapOK(role, w.used, w.disk, fd.inode, fd.file, FALSE, 0) /\ fd.inode.size = n

(* It leaves on the disk what the descriptor knew. *)
LEMMA ClosedRight ==
  ASSUME Types, NEW role, InOrder(role), NEW fd, DescOK(role, used, fd), NEW n, DescRight(role, used, disk, fd, n),
         SavedOnClose(fd) \in Volumes
  PROVE  LeftOnDisk(role, SavedOnClose(fd), fd, n)
<1> DEFINE w == SavedOnClose(fd)
           f == fd.file
           ino == fd.inode
           b == fd.curr_blk
           buf == fd.buffer
           a == fd.dirty
<1>0. w.used = used /\ w.disk = (IF fd.dirty /\ fd.curr_blk \in Blocks THEN Upd(disk, fd.curr_blk, fd.buffer) ELSE disk)
  BY DEF SavedOnClose
<1>1. Now \in Volumes /\ Now.used = used /\ Now.disk = disk /\ Vol(role, Now)
  BY NowIs DEF InOrder
<1>2. fd \in Descriptor /\ InodeOK(role, Now.used, f, ino) /\ BlkOK(role, Now.used, f, b)
  BY <1>1 DEF DescOK
<1>3. f \in Files /\ buf \in Buffer
  BY <1>2, FieldsAre
<1>4. ino.size = n /\ MapOK(role, Now.used, Now.disk, ino, f, a, b) /\ FdRight(role, Now.used, Now.disk, fd)
  BY <1>1 DEF DescRight
<1>5. CASE a
  <2>1. PICK k \in 0 .. Starts[4] - 1 : On(role, Now.used, Now.disk, fd, k)
    BY <1>4, <1>5 DEF FdRight, Empty, Ended
  <2>2. k \in Nat /\ Buffered(role, Now.used, Now.disk, ino, f, k, b, buf)
    BY <2>1 DEF On
  <2>3. w \in Volumes /\ w.used = Now.used /\ w.disk = IF b \in Blocks THEN Upd(Now.disk, b, buf) ELSE Now.disk
    BY <1>0, <1>1, <1>5
  <2> HIDE DEF w, f, ino, b, buf, a
  <2>4. MapOK(role, w.used, w.disk, ino, f, FALSE, 0)
    BY <1>1, <1>2, <1>3, <1>4, <2>2, <2>3, SaveData
  <2>. QED
    BY <2>4, <1>4 DEF ino, f, w, LeftOnDisk
<1>6. CASE ~a
  <2> DEFINE no == FALSE
             zero == 0
  <2>1. w.used = Now.used /\ w.disk = Now.disk
    BY <1>0, <1>1, <1>6
  <2> HIDE DEF w, f, ino, b, buf, a, no, zero
  <2>2. MapOK(role, Now.used, Now.disk, ino, f, no, zero)
    BY <1>4, <1>6, MapOKClean
  <2>. QED
    BY <2>1, <2>2, <1>4 DEF ino, no, zero, f, w, LeftOnDisk
<1>. QED
  BY <1>5, <1>6

(* The file is right with one descriptor less. *)
LEMMA OneLess ==
  ASSUME Types, NEW role, InOrder(role), NEW d \in Desc, NEW fd, fd = fdesc[d], fd.open, DescOK(role, used, fd),
         NEW f, f = fd.file, NEW n, FileOK(role, used, disk, inodes, fdesc, f, n),
         NEW w \in Volumes, w = SavedOnClose(fd),
         NEW nodes2, nodes2[f] = fd.inode,
         NEW fds2, ~fds2[d].open, \A e \in Desc : e # d => fds2[e] = fdesc[e]
  PROVE  FileOK(role, w.used, w.disk, nodes2, fds2, f, n)
<1>1. d \in OpenIn(fdesc, f)
  BY DEF OpenIn
<1>2. DescRight(role, used, disk, fd, n) /\ (OpenIn(fdesc, f) = {d} \/ (~fd.dirty /\ fd.inode = inodes[f]))
  BY <1>1 DEF FileOK
<1>3. \A e \in OpenIn(fds2, f) : e # d /\ fds2[e] = fdesc[e] /\ e \in OpenIn(fdesc, f)
  BY DEF OpenIn
<1>4. CASE OpenIn(fdesc, f) = {d}
  <2>1. OpenIn(fds2, f) = {}
    BY <1>3, <1>4
  <2>2. MapOK(role, w.used, w.disk, fd.inode, f, FALSE, 0) /\ fd.inode.size = n
    <3>1. LeftOnDisk(role, SavedOnClose(fd), fd, n)
      BY <1>2, ClosedRight
    <3>. QED
      BY <3>1 DEF LeftOnDisk
  <2>3. NoneOpen(role, w.used, w.disk, nodes2, f, n)
    BY <2>2 DEF NoneOpen
  <2>. QED
    BY <2>1, <2>3 DEF FileOK
<1>5. CASE OpenIn(fdesc, f) # {d}
  <2>1. ~fd.dirty /\ nodes2[f] = inodes[f] /\ w.disk = disk /\ w.used = used
    BY <1>2, <1>5 DEF SavedOnClose
  <2>2. PICK e0 \in OpenIn(fdesc, f) : e0 # d
    BY <1>1, <1>5
  <2>3. OpenIn(fds2, f) # {}
    <3>1. e0 \in OpenIn(fds2, f)
      BY <2>2 DEF OpenIn
    <3>. QED
      BY <3>1
  <2>4. ASSUME NEW e \in OpenIn(fds2, f)
        PROVE  DescRight(role, w.used, w.disk, fds2[e], n) /\ ~fds2[e].dirty /\ fds2[e].inode = nodes2[f]
    <3>1. e # d /\ fds2[e] = fdesc[e] /\ e \in OpenIn(fdesc, f) /\ OpenIn(fdesc, f) # {e}
      BY <1>1, <1>3
    <3>2. DescRight(role, used, disk, fdesc[e], n) /\ ~fdesc[e].dirty /\ fdesc[e].inode = inodes[f]
      BY <3>1 DEF FileOK
    <3>. QED
      BY <3>1, <3>2, <2>1
  <2>. QED
    BY <2>3, <2>4 DEF FileOK
<1>. QED
  BY <1>4, <1>5

(* Close keeps the invariant. *)
LEMMA CloseOK ==
  ASSUME IInv, NEW d \in Desc, Close(d), temp' = temp
  PROVE  IInv'
<1> DEFINE fd == fdesc[d]
           f == fd.file
           w == SavedOnClose(fd)
           nodes2 == [inodes EXCEPT ![f] = fd.inode]
           gd == Closed
<1>1. PICK role : InOrder(role) /\ FilesRight(role)
  BY DEF IInv
<1>2. Types
  BY DEF IInv
<1>3. /\ fd.open /\ fd \in Descriptor /\ w \in Volumes /\ w.used = used
      /\ w.disk = (IF fd.dirty /\ fd.curr_blk \in Blocks THEN Upd(disk, fd.curr_blk, fd.buffer) ELSE disk)
      /\ disk' = w.disk /\ inodes' = nodes2
  BY <1>2, CloseIs
<1>4. fdesc' = [fdesc EXCEPT ![d] = gd] /\ Unmoved /\ spoilt' = spoilt /\ after' = after
  BY DEF Close, Unmoved
<1>5. f \in Files /\ fd.inode \in Inode /\ fd.buffer \in Buffer
  BY <1>3, FieldsAre
<1>6. /\ inodes \in [Files -> Inode] /\ fdesc \in [Desc -> {Closed} \cup Descriptor] /\ length \in [Files -> 0 .. MaxSize]
      /\ spoilt \subseteq Files /\ after \in 0 .. MaxAfter
  BY <1>2 DEF Types
<1>7. nodes2 \in [Files -> Inode] /\ nodes2[f] = fd.inode /\ \A g \in Files : g # f => nodes2[g] = inodes[g]
  BY <1>5, <1>6
<1>8. Now \in Volumes /\ Now.used = used /\ Now.disk = disk /\ Vol(role, Now) /\ NodesOK(role, used, inodes)
  BY <1>1, <1>2, NowIs DEF InOrder
<1>9. DescOK(role, used, fd)
  <2>1. fd # Closed
    BY <1>3 DEF Closed
  <2>. QED
    BY <1>1, <2>1 DEF InOrder
<1>10. Vol(role, w) /\ Frame(role, Now, role, w, f)
  <2> HIDE DEF w
  <2>1. CASE fd.dirty
    <3> DEFINE b == fd.curr_blk
               buf == fd.buffer
    <3>1. w.used = Now.used /\ w.disk = (IF b \in Blocks THEN Upd(Now.disk, b, buf) ELSE Now.disk) /\ BlkOK(role, Now.used, f, b) /\ buf \in Buffer
      BY <1>3, <1>5, <1>8, <1>9, <2>1 DEF DescOK
    <3> HIDE DEF b, buf, f
    <3>. QED
      BY <3>1, <1>3, <1>5, <1>8, WriteBlock
  <2>2. CASE ~fd.dirty
    <3>1. w = Now
      BY <1>3, <2>2 DEF w, SavedOnClose, Now
    <3>. QED
      BY <3>1, <1>8, FrameSelf
  <2>. QED
    BY <2>1, <2>2
<1>11. NodesOK(role, w.used, nodes2)
  BY <1>3, <1>7, <1>8, <1>9 DEF NodesOK, DescOK
<1>12. fdesc'[d] = gd /\ \A e \in Desc : e # d => fdesc'[e] = fdesc[e]
  BY <1>4, <1>6
<1>13. ASSUME f \notin spoilt' PROVE FileOK(role, w.used, w.disk, nodes2, fdesc', f, length'[f])
  <2>1. FileOK(role, used, disk, inodes, fdesc, f, length[f])
    BY <1>1, <1>4, <1>5, <1>13 DEF FilesRight
  <2> DEFINE fds2 == fdesc'
             n == length[f]
  <2>2. ~fds2[d].open /\ (\A e \in Desc : e # d => fds2[e] = fdesc[e]) /\ FileOK(role, used, disk, inodes, fdesc, f, n)
    BY <1>12, <2>1 DEF Closed
  <2>3. fd = fdesc[d] /\ f = fd.file /\ nodes2[f] = fd.inode /\ w = SavedOnClose(fd)
    BY <1>7
  <2> HIDE DEF fds2, n, f, fd, w, nodes2
  <2>4. FileOK(role, w.used, w.disk, nodes2, fds2, f, n)
    BY <1>1, <1>2, <1>3, <1>9, <2>2, <2>3, OneLess
  <2>. QED
    BY <2>4, <1>4 DEF fds2, n, Unmoved
<1>14. TempOK'
  BY <1>2, TempSame DEF Types
<1>15. length' \in [Files -> 0 .. MaxSize] /\ \A g \in Files : g # f => length'[g] = length[g]
  BY <1>4, <1>6 DEF Unmoved
<1>16. spoilt \subseteq spoilt' /\ spoilt' \subseteq Files /\ after' \in 0 .. MaxAfter
  BY <1>4, <1>6
<1>17. gd = Closed /\ used' = w.used /\ disk' = w.disk /\ inodes' = nodes2
  BY <1>3, <1>4 DEF Unmoved
<1>18. fdesc' = [fdesc EXCEPT ![d] = gd]
  BY <1>4
<1>19. fdesc[d].file = f
  OBVIOUS
<1> HIDE DEF w, nodes2, gd, f, fd
<1>20. StepTo(role, d, f, role, w, nodes2, gd)
  BY <1>3, <1>7, <1>10, <1>11, <1>13, <1>14, <1>15, <1>16, <1>17, <1>18 DEF StepTo
<1>. QED
  BY <1>1, <1>2, <1>5, <1>19, <1>20, StepToOK

(* The map of an empty file *)
LEMMA EmptyIs ==
  /\ EmptyInode \in Inode /\ EmptyInode.size = 0
  /\ \A k \in 0 .. NumDirect - 1 : EmptyInode.direct[k] = 0
  /\ \A l \in 1 .. 3 : EmptyInode.root[l] = 0
<1>1. 0 \in 0 .. MaxSize /\ 0 \in Numbers
  BY BlocksAre, SfsFileAssumption DEF SfsFileAssumption
<1>. QED
  BY <1>1 DEF EmptyInode, Inode

(* An empty file has no blocks. *)
LEMMA EmptyAt ==
  ASSUME NEW dk
  PROVE  \A p \in Place : At(dk, EmptyInode, p) = 0
<1> DEFINE ino == EmptyInode
           X == {p \in Place : At(dk, ino, p) = 0}
<1>0. /\ \A k \in 0 .. NumDirect - 1 : DirectPlace(k) \in Place /\ At(dk, ino, DirectPlace(k)) = 0
      /\ \A l \in 1 .. 3 : RootPlace(l) \in Place /\ At(dk, ino, RootPlace(l)) = 0
  <2>1. (\A k \in 0 .. NumDirect - 1 : ino.direct[k] = 0) /\ (\A l \in 1 .. 3 : ino.root[l] = 0)
    BY EmptyIs
  <2> HIDE DEF ino
  <2>. QED
    BY <2>1, TopIs
<1>1. \A k \in 0 .. NumDirect - 1 : DirectPlace(k) \in X
  BY <1>0
<1>2. \A l \in 1 .. 3 : RootPlace(l) \in X
  BY <1>0
<1>3. ASSUME NEW p \in Place, p \in X, Inner(p), NEW k \in Digit PROVE Under(p, k) \in X
  <2>1. Under(p, k) \in Place
    BY <1>3, UnderIs
  <2>2. At(dk, ino, Under(p, k)) = Down(dk, At(dk, ino, p), k)
    BY <1>3, AtUnder
  <2>3. At(dk, ino, p) = 0
    BY <1>3
  <2>4. Down(dk, 0, k) = 0
    BY DEF Down
  <2>. QED
    BY <2>1, <2>2, <2>3, <2>4
<1> HIDE DEF X
<1>4. Place \subseteq X
  BY <1>1, <1>2, <1>3, PlacesTop
<1>. QED
  BY <1>4 DEF X

(* Its map is right. *)
LEMMA EmptyMap ==
  ASSUME NEW role, NEW dk, NEW f
  PROVE  MapOK(role, {0}, dk, EmptyInode, f, FALSE, 0)
<1> DEFINE ino == EmptyInode
           us == {0}
<1>1. \A p \in Place : At(dk, ino, p) = 0
  BY EmptyAt
<1>2. ino.size = 0
  BY EmptyIs
<1> HIDE DEF ino
<1>3. Mapped(dk, ino, 0)
  <2>1. ASSUME NEW j \in 0 .. Starts[4] - 1 PROVE At(dk, ino, Spot(j)) = 0 /\ ~(Times(j) < 0)
    <3>1. Spot(j) \in Place /\ Times(j) \in Nat
      BY StartsAre, SpotPlace, TimesIs
    <3>. QED
      BY <3>1, <1>1
  <2>. QED
    BY <2>1 DEF Mapped
<1>4. FullIfNeg(us, dk, ino)
  BY <1>1 DEF FullIfNeg
<1>5. AllNamed(role, us, dk, ino, f)
  BY DEF AllNamed
<1>6. DataRight(dk, ino, f, FALSE, 0)
  BY <1>2 DEF DataRight
<1>. QED
  BY <1>2, <1>3, <1>4, <1>5, <1>6 DEF MapOK, MapTo, ino

(* The invariant holds at the start. *)
LEMMA StartOK ==
  ASSUME SeekInit
  PROVE  IInv
<1> DEFINE role == [b \in Blocks |-> <<NoFile, <<0, 0, 0, 0, 0>>>>]
<1>1. /\ used = {0} /\ disk = [b \in Blocks |-> Blank] /\ inodes = [f \in Files |-> EmptyInode]
      /\ fdesc = [d \in Desc |-> Closed] /\ length = [f \in Files |-> 0] /\ spoilt = {} /\ after = 0
      /\ temp = [filepos |-> 0, bufpos |-> 0]
  BY DEF SeekInit, Init
<1>2. MaxSize \in Nat /\ MaxAfter \in Nat /\ Bytes \in Nat \ {0} /\ Bytes \in Nat
  BY SfsFileAssumption DEF SfsFileAssumption
<1>3. TempOK
  <2>1. 0 % Bytes = 0
    BY <1>2
  <2>2. 0 \in 0 .. Bytes - 1 /\ 0 \in 0 .. MaxSize
    BY <1>2
  <2>. QED
    BY <1>1, <2>1, <2>2 DEF TempOK
<1>4. Types
  <2>1. 0 \in 0 .. MaxSize /\ 0 \in 0 .. MaxAfter
    BY <1>2
  <2>2. used \subseteq Blocks
    BY <1>1, BlocksAre
  <2>. QED
    BY <1>1, <1>3, <2>1, <2>2, BlankIs, EmptyIs DEF Types
<1>5. Now.used = {0} /\ Now.disk = disk
  BY <1>1 DEF Now
<1>6. Vol(role, Now)
  <2>1. <<0, 0, 0, 0, 0>> \in Spots
    BY FirstSpot
  <2>2. role \in [Blocks -> (Files \cup {NoFile}) \X Spots]
    BY <2>1
  <2> HIDE DEF role
  <2>3. \A b \in Blocks : disk[b] \in Buffer
    BY <1>1, BlankIs
  <2>4. disk \in [Blocks -> Buffer \cup Pointers]
    BY <1>4 DEF Types
  <2>. QED
    BY <1>5, <2>2, <2>3, <2>4, BlocksAre DEF Vol
<1> HIDE DEF role
<1>7. NodesOK(role, used, inodes)
  BY <1>1, EmptyIs DEF NodesOK, InodeOK, Holds
<1>8. InOrder(role)
  BY <1>1, <1>6, <1>7 DEF InOrder
<1>9. FilesRight(role)
  <2>1. ASSUME NEW f \in Files PROVE FileOK(role, used, disk, inodes, fdesc, f, length[f])
    <3>1. OpenIn(fdesc, f) = {}
      BY <1>1 DEF OpenIn, Closed
    <3>2. inodes[f] = EmptyInode /\ length[f] = 0 /\ EmptyInode.size = 0
      BY <1>1, EmptyIs
    <3>3. MapOK(role, used, disk, inodes[f], f, FALSE, 0)
      BY <1>1, <3>2, EmptyMap
    <3>4. NoneOpen(role, used, disk, inodes, f, length[f])
      BY <3>2, <3>3 DEF NoneOpen
    <3>. QED
      BY <3>1, <3>4 DEF FileOK
  <2>. QED
    BY <2>1 DEF FilesRight
<1>. QED
  BY <1>4, <1>8, <1>9 DEF IInv

(* Nothing happens. *)
LEMMA StayOK ==
  ASSUME IInv, UNCHANGED seekVars
  PROVE  IInv'
<1>1. /\ used' = used /\ disk' = disk /\ inodes' = inodes /\ fdesc' = fdesc /\ length' = length /\ spoilt' = spoilt
      /\ after' = after /\ temp' = temp
  BY DEF seekVars, vars
<1>2. Types'
  BY <1>1 DEF IInv, Types, TempOK
<1>3. PICK role : InOrder(role) /\ FilesRight(role)
  BY DEF IInv
<1>4. Now' = Now /\ Closed' = Closed
  BY <1>1 DEF Now, Closed
<1>5. InOrder(role)'
  BY <1>1, <1>3, <1>4 DEF InOrder
<1>6. FilesRight(role)'
  BY <1>1, <1>3 DEF FilesRight
<1>. QED
  BY <1>2, <1>5, <1>6 DEF IInv

(* Every step keeps it. *)
LEMMA StepOK ==
  ASSUME IInv, [SeekNext]_seekVars
  PROVE  IInv'
<1>1. ASSUME NEW d \in Desc, NEW f \in Files, NEW append \in BOOLEAN, Open(d, f, append), temp' = temp PROVE IInv'
  BY <1>1, OpenOK
<1>2. ASSUME NEW d \in Desc, NEW n \in WriteCounts, Write(d, n), temp' = temp PROVE IInv'
  BY <1>2, WriteOK
<1>3. ASSUME NEW d \in Desc, NEW n \in ReadCounts, Read(d, n), temp' = temp PROVE IInv'
  BY <1>3, ReadOK
<1>4. ASSUME NEW d \in Desc, Close(d), temp' = temp PROVE IInv'
  BY <1>4, CloseOK
<1>5. ASSUME NEW d \in Desc, NEW offset \in Offsets, NEW whence \in Whences, Lseek(d, offset, whence) PROVE IInv'
  BY <1>5, LseekOK
<1>6. CASE UNCHANGED seekVars
  BY <1>6, StayOK
<1>7. CASE SeekNext
  BY <1>1, <1>2, <1>3, <1>4, <1>5, <1>7 DEF SeekNext, Next
<1>. QED
  BY <1>6, <1>7

(* The inductive invariant: each block has a role it keeps, and the newest *)
(* map of a file that was not misused leads to every byte of it.           *)
THEOREM FilesInvariance == SeekSpec => []IInv
<1>1. SeekInit => IInv
  BY StartOK
<1>2. IInv /\ [SeekNext]_seekVars => IInv'
  BY StepOK
<1>. QED
  BY <1>1, <1>2, PTL DEF SeekSpec
-----------------------------------------------------------------------------
(* The numbers of a map as Places lists them, and as At finds them *)
Way(p) == CASE p[1] = 0 -> <<0, p[3]>>
            [] p[1] > 0 /\ p[2] = 0 -> <<p[1]>>
            [] p[1] > 0 /\ p[2] = 1 -> <<p[1], p[3]>>
            [] p[1] > 0 /\ p[2] = 2 -> <<p[1], p[3], p[4]>>
            [] p[1] > 0 /\ p[2] = 3 -> <<p[1], p[3], p[4], p[5]>>
Shown(dk, ino, p) == <<Way(p), At(dk, ino, p)>>
Beneath(dk, S) == UNION {{<<Append(e[1], k), dk[e[2]][k]>> : k \in 0 .. Ptrs - 1} : e \in {x \in S : x[2] \in Blocks \ {0}}}
RootOf(ino, l) == {<<<<l>>, ino.root[l]>>}
Directs(ino) == {<<<<0, k>>, ino.direct[k]>> : k \in 0 .. NumDirect - 1}
Row(dk, ino, l, n) == CASE n = 0 -> RootOf(ino, l)
                        [] n = 1 -> Beneath(dk, RootOf(ino, l))
                        [] n = 2 -> Beneath(dk, Beneath(dk, RootOf(ino, l)))
                        [] n = 3 -> Beneath(dk, Beneath(dk, Beneath(dk, RootOf(ino, l))))
Rows(dk, ino) == Directs(ino) \cup UNION {UNION {Row(dk, ino, l, n) : n \in 0 .. l} : l \in 1 .. 3}

(* The entries that NoSharing counts, row by row. *)
LEMMA PlacesRows ==
  ASSUME NEW dk, NEW ino
  PROVE  Places(dk, ino) = {e \in Rows(dk, ino) : e[2] # 0}
<1> DEFINE all == Directs(ino) \cup RootOf(ino, 1) \cup Beneath(dk, RootOf(ino, 1))
               \cup RootOf(ino, 2) \cup Beneath(dk, RootOf(ino, 2)) \cup Beneath(dk, Beneath(dk, RootOf(ino, 2)))
               \cup RootOf(ino, 3) \cup Beneath(dk, RootOf(ino, 3)) \cup Beneath(dk, Beneath(dk, RootOf(ino, 3)))
               \cup Beneath(dk, Beneath(dk, Beneath(dk, RootOf(ino, 3))))
<1>1. Places(dk, ino) = {e \in all : e[2] # 0}
  BY DEF Places, Beneath, RootOf, Directs
<1>2. all = Rows(dk, ino)
  <2>1. 1 .. 3 = {1, 2, 3} /\ 0 .. 1 = {0, 1} /\ 0 .. 2 = {0, 1, 2} /\ 0 .. 3 = {0, 1, 2, 3}
    OBVIOUS
  <2>2. Rows(dk, ino) = Directs(ino) \cup (Row(dk, ino, 1, 0) \cup Row(dk, ino, 1, 1))
               \cup (Row(dk, ino, 2, 0) \cup Row(dk, ino, 2, 1) \cup Row(dk, ino, 2, 2))
               \cup (Row(dk, ino, 3, 0) \cup Row(dk, ino, 3, 1) \cup Row(dk, ino, 3, 2) \cup Row(dk, ino, 3, 3))
    BY <2>1 DEF Rows
  <2>3. \A l : /\ Row(dk, ino, l, 0) = RootOf(ino, l) /\ Row(dk, ino, l, 1) = Beneath(dk, RootOf(ino, l))
               /\ Row(dk, ino, l, 2) = Beneath(dk, Beneath(dk, RootOf(ino, l)))
               /\ Row(dk, ino, l, 3) = Beneath(dk, Beneath(dk, Beneath(dk, RootOf(ino, l))))
    BY DEF Row
  <2>. QED
    BY <2>2, <2>3
<1>. QED
  BY <1>1, <1>2

(* The entries of a row are under those of the row before. *)
LEMMA BeneathIs ==
  ASSUME NEW dk, NEW S, NEW e
  PROVE  e \in Beneath(dk, S) <=> \E x \in S, k \in Digit : x[2] \in Blocks \ {0} /\ e = <<Append(x[1], k), dk[x[2]][k]>>
<1> DEFINE T == {x \in S : x[2] \in Blocks \ {0}}
           Y(x) == {<<Append(x[1], k), dk[x[2]][k]>> : k \in Digit}
<1>1. Beneath(dk, S) = UNION {Y(x) : x \in T}
  BY DEF Beneath, Digit
<1>2. \A x : e \in Y(x) <=> \E k \in Digit : e = <<Append(x[1], k), dk[x[2]][k]>>
  OBVIOUS
<1>3. \A x : x \in T <=> x \in S /\ x[2] \in Blocks \ {0}
  OBVIOUS
<1> HIDE DEF T, Y
<1>4. e \in UNION {Y(x) : x \in T} <=> \E x \in T : e \in Y(x)
  OBVIOUS
<1>. QED
  BY <1>1, <1>2, <1>3, <1>4

(* The next row. *)
LEMMA RowNext ==
  ASSUME NEW dk, NEW ino, NEW l, NEW n \in 0 .. 2
  PROVE  Row(dk, ino, l, n + 1) = Beneath(dk, Row(dk, ino, l, n))
<1>1. n = 0 \/ n = 1 \/ n = 2
  OBVIOUS
<1>2. /\ Row(dk, ino, l, 0) = RootOf(ino, l) /\ Row(dk, ino, l, 1) = Beneath(dk, RootOf(ino, l))
      /\ Row(dk, ino, l, 2) = Beneath(dk, Beneath(dk, RootOf(ino, l)))
      /\ Row(dk, ino, l, 3) = Beneath(dk, Beneath(dk, Beneath(dk, RootOf(ino, l))))
  BY DEF Row
<1>3. 0 + 1 = 1 /\ 1 + 1 = 2 /\ 2 + 1 = 3
  OBVIOUS
<1>. QED
  BY <1>1, <1>2, <1>3

(* The way to a place, as Places writes it. *)
LEMMA WayIs ==
  /\ \A k \in 0 .. NumDirect - 1 : Way(DirectPlace(k)) = <<0, k>>
  /\ \A l \in 1 .. 3 : Way(RootPlace(l)) = <<l>>
  /\ \A l \in 1 .. 3, a \in Digit : Way(<<l, 1, a, 0, 0>>) = <<l, a>>
  /\ \A l \in 2 .. 3, a, b \in Digit : Way(<<l, 2, a, b, 0>>) = <<l, a, b>>
  /\ \A a, b, c \in Digit : Way(<<3, 3, a, b, c>>) = <<3, a, b, c>>
  BY DEF Way, DirectPlace, RootPlace

(* It goes on below. *)
LEMMA WayUnder ==
  ASSUME NEW p \in Place, Inner(p), NEW k \in Digit
  PROVE  Way(Under(p, k)) = Append(Way(p), k)
<1>1. CASE \E l \in 1 .. 3 : p = <<l, 0, 0, 0, 0>>
  <2>1. PICK l \in 1 .. 3 : p = <<l, 0, 0, 0, 0>>
    BY <1>1
  <2>2. Way(p) = <<l>> /\ Way(<<l, 1, k, 0, 0>>) = <<l, k>>
    BY <2>1, WayIs DEF RootPlace
  <2>3. Under(p, k) = <<l, 1, k, 0, 0>>
    BY <2>1 DEF Under
  <2>. QED
    BY <2>2, <2>3
<1>2. CASE \E l \in 1 .. 3, a \in Digit : p = <<l, 1, a, 0, 0>>
  <2>1. PICK l \in 1 .. 3, a \in Digit : p = <<l, 1, a, 0, 0>>
    BY <1>2
  <2>2. l \in 2 .. 3
    BY <2>1 DEF Inner
  <2>3. Way(p) = <<l, a>> /\ Way(<<l, 2, a, k, 0>>) = <<l, a, k>>
    BY <2>1, <2>2, WayIs
  <2>4. Under(p, k) = <<l, 2, a, k, 0>>
    BY <2>1 DEF Under
  <2>. QED
    BY <2>3, <2>4
<1>3. CASE \E l \in 2 .. 3, a \in Digit, b \in Digit : p = <<l, 2, a, b, 0>>
  <2>1. PICK l \in 2 .. 3, a \in Digit, b \in Digit : p = <<l, 2, a, b, 0>>
    BY <1>3
  <2>2. l = 3
    BY <2>1 DEF Inner
  <2>3. Way(p) = <<3, a, b>> /\ Way(<<3, 3, a, b, k>>) = <<3, a, b, k>>
    BY <2>1, <2>2, WayIs
  <2>4. Under(p, k) = <<3, 3, a, b, k>>
    BY <2>1, <2>2 DEF Under
  <2>. QED
    BY <2>3, <2>4
<1>4. CASE \E i \in 0 .. NumDirect - 1 : p = <<0, 0, i, 0, 0>>
  BY <1>4 DEF Inner
<1>5. CASE \E a \in Digit, b \in Digit, c \in Digit : p = <<3, 3, a, b, c>>
  BY <1>5 DEF Inner
<1>. QED
  BY <1>1, <1>2, <1>3, <1>4, <1>5, PlaceIs

(* A pointer in a block of pointers is shown for the place under it. *)
LEMMA ShownUnder ==
  ASSUME NEW dk, NEW ino, NEW p \in Place, Inner(p), NEW k \in Digit, At(dk, ino, p) \in Blocks \ {0}
  PROVE  <<Append(Way(p), k), dk[At(dk, ino, p)][k]>> = Shown(dk, ino, Under(p, k))
<1>1. At(dk, ino, Under(p, k)) = Down(dk, At(dk, ino, p), k)
  BY AtUnder
<1>2. Down(dk, At(dk, ino, p), k) = dk[At(dk, ino, p)][k]
  BY DEF Down
<1>. QED
  BY <1>1, <1>2, WayUnder DEF Shown

InRow(dk, ino, l, n, e) == \E p \in Place : p[1] = l /\ p[2] = n /\ e = Shown(dk, ino, p)

(* A row shows what stands at its places, if the one before does. *)
LEMMA RowDown ==
  ASSUME NEW dk, NEW ino, NEW l \in 1 .. 3, NEW n \in 0 .. 2, n < l, \A e \in Row(dk, ino, l, n) : InRow(dk, ino, l, n, e)
  PROVE  \A e \in Row(dk, ino, l, n + 1) : InRow(dk, ino, l, n + 1, e)
<1>1. TAKE e \in Row(dk, ino, l, n + 1)
<1>2. PICK x \in Row(dk, ino, l, n), k \in Digit : x[2] \in Blocks \ {0} /\ e = <<Append(x[1], k), dk[x[2]][k]>>
  <2>1. Row(dk, ino, l, n + 1) = Beneath(dk, Row(dk, ino, l, n))
    BY RowNext
  <2>. QED
    BY <1>1, <2>1, BeneathIs
<1>3. PICK p \in Place : p[1] = l /\ p[2] = n /\ x = Shown(dk, ino, p)
  BY <1>2 DEF InRow
<1>4. Inner(p) /\ x[1] = Way(p) /\ x[2] = At(dk, ino, p)
  BY <1>3 DEF Inner, Shown
<1>5. e = Shown(dk, ino, Under(p, k))
  BY <1>2, <1>4, ShownUnder
<1>6. Under(p, k) \in Place /\ Under(p, k)[1] = l /\ Under(p, k)[2] = n + 1
  BY <1>3, <1>4, UnderIs
<1>. QED
  BY <1>5, <1>6 DEF InRow

(* Every row does. *)
LEMMA RowIs ==
  ASSUME NEW dk, NEW ino, NEW l \in 1 .. 3, NEW n \in 0 .. l
  PROVE  \A e \in Row(dk, ino, l, n) : InRow(dk, ino, l, n, e)
<1>1. \A e \in Row(dk, ino, l, 0) : InRow(dk, ino, l, 0, e)
  <2>1. Row(dk, ino, l, 0) = {Shown(dk, ino, RootPlace(l))}
    BY TopIs, WayIs DEF Row, RootOf, Shown
  <2>2. RootPlace(l) \in Place /\ RootPlace(l)[1] = l /\ RootPlace(l)[2] = 0
    BY TopIs DEF RootPlace
  <2>. QED
    BY <2>1, <2>2 DEF InRow
<1>2. \A e \in Row(dk, ino, l, 1) : InRow(dk, ino, l, 1, e)
  <2>1. 0 < l /\ 0 \in 0 .. 2 /\ 0 + 1 = 1
    OBVIOUS
  <2> DEFINE zero == 0
  <2>2. zero \in 0 .. 2 /\ zero < l /\ zero + 1 = 1 /\ \A e \in Row(dk, ino, l, zero) : InRow(dk, ino, l, zero, e)
    BY <1>1, <2>1
  <2> HIDE DEF zero
  <2>3. \A e \in Row(dk, ino, l, zero + 1) : InRow(dk, ino, l, zero + 1, e)
    BY <2>2, RowDown
  <2>. QED
    BY <2>2, <2>3
<1>3. 2 <= l => \A e \in Row(dk, ino, l, 2) : InRow(dk, ino, l, 2, e)
  <2> DEFINE one == 1
  <2>1. 2 <= l => one < l
    OBVIOUS
  <2>2. one \in 0 .. 2 /\ one + 1 = 2 /\ \A e \in Row(dk, ino, l, one) : InRow(dk, ino, l, one, e)
    BY <1>2
  <2> HIDE DEF one
  <2>3. one < l => \A e \in Row(dk, ino, l, one + 1) : InRow(dk, ino, l, one + 1, e)
    BY <2>2, RowDown
  <2>. QED
    BY <2>1, <2>2, <2>3
<1>4. 3 <= l => \A e \in Row(dk, ino, l, 3) : InRow(dk, ino, l, 3, e)
  <2> DEFINE two == 2
  <2>1. 3 <= l => two < l /\ 2 <= l
    OBVIOUS
  <2>2. two \in 0 .. 2 /\ two + 1 = 3 /\ (2 <= l => \A e \in Row(dk, ino, l, two) : InRow(dk, ino, l, two, e))
    BY <1>3
  <2> HIDE DEF two
  <2>3. two < l /\ 2 <= l => \A e \in Row(dk, ino, l, two + 1) : InRow(dk, ino, l, two + 1, e)
    BY <2>2, RowDown
  <2>. QED
    BY <2>1, <2>2, <2>3
<1>5. n = 0 \/ n = 1 \/ (n = 2 /\ 2 <= l) \/ (n = 3 /\ 3 <= l)
  OBVIOUS
<1>. QED
  BY <1>1, <1>2, <1>3, <1>4, <1>5

(* The length of the way tells which blocks hold pointers. *)
LEMMA WayPoints ==
  ASSUME NEW p \in Place
  PROVE  Len(Way(p)) <= Way(p)[1] <=> Inner(p)
<1>1. CASE \E i \in 0 .. NumDirect - 1 : p = <<0, 0, i, 0, 0>>
  <2>1. PICK i \in 0 .. NumDirect - 1 : p = <<0, 0, i, 0, 0>>
    BY <1>1
  <2>2. Way(p) = <<0, i>>
    BY <2>1, WayIs DEF DirectPlace
  <2>. QED
    BY <2>1, <2>2 DEF Inner
<1>2. CASE \E l \in 1 .. 3 : p = <<l, 0, 0, 0, 0>>
  <2>1. PICK l \in 1 .. 3 : p = <<l, 0, 0, 0, 0>>
    BY <1>2
  <2>2. Way(p) = <<l>>
    BY <2>1, WayIs DEF RootPlace
  <2>3. Len(<<l>>) = 1 /\ <<l>>[1] = l
    OBVIOUS
  <2>4. p[1] = l /\ p[2] = 0
    BY <2>1
  <2>5. Len(Way(p)) = 1 /\ Way(p)[1] = l
    BY <2>2, <2>3
  <2>6. Inner(p) <=> 0 < l
    BY <2>4 DEF Inner
  <2>7. 1 <= l <=> 0 < l
    OBVIOUS
  <2>. QED
    BY <2>5, <2>6, <2>7
<1>3. CASE \E l \in 1 .. 3, a \in Digit : p = <<l, 1, a, 0, 0>>
  <2>1. PICK l \in 1 .. 3, a \in Digit : p = <<l, 1, a, 0, 0>>
    BY <1>3
  <2>2. Way(p) = <<l, a>>
    BY <2>1, WayIs
  <2>3. Len(<<l, a>>) = 2 /\ <<l, a>>[1] = l
    OBVIOUS
  <2>4. p[1] = l /\ p[2] = 1
    BY <2>1
  <2>5. Len(Way(p)) = 2 /\ Way(p)[1] = l
    BY <2>2, <2>3
  <2>6. Inner(p) <=> 1 < l
    BY <2>4 DEF Inner
  <2>7. 2 <= l <=> 1 < l
    OBVIOUS
  <2>. QED
    BY <2>5, <2>6, <2>7
<1>4. CASE \E l \in 2 .. 3, a \in Digit, b \in Digit : p = <<l, 2, a, b, 0>>
  <2>1. PICK l \in 2 .. 3, a \in Digit, b \in Digit : p = <<l, 2, a, b, 0>>
    BY <1>4
  <2>2. Way(p) = <<l, a, b>>
    BY <2>1, WayIs
  <2>3. Len(<<l, a, b>>) = 3 /\ <<l, a, b>>[1] = l
    OBVIOUS
  <2>4. p[1] = l /\ p[2] = 2
    BY <2>1
  <2>5. Len(Way(p)) = 3 /\ Way(p)[1] = l
    BY <2>2, <2>3
  <2>6. Inner(p) <=> 2 < l
    BY <2>4 DEF Inner
  <2>7. 3 <= l <=> 2 < l
    OBVIOUS
  <2>. QED
    BY <2>5, <2>6, <2>7
<1>5. CASE \E a \in Digit, b \in Digit, c \in Digit : p = <<3, 3, a, b, c>>
  <2>1. PICK a \in Digit, b \in Digit, c \in Digit : p = <<3, 3, a, b, c>>
    BY <1>5
  <2>2. Way(p) = <<3, a, b, c>>
    BY <2>1, WayIs
  <2>3. Len(<<3, a, b, c>>) = 4 /\ <<3, a, b, c>>[1] = 3
    OBVIOUS
  <2>4. p[1] = 3 /\ p[2] = 3
    BY <2>1
  <2>5. Len(Way(p)) = 4 /\ Way(p)[1] = 3
    BY <2>2, <2>3
  <2>6. Inner(p) <=> 3 < 3
    BY <2>4 DEF Inner
  <2>7. 4 <= 3 <=> 3 < 3
    OBVIOUS
  <2>. QED
    BY <2>5, <2>6, <2>7
<1>. QED
  BY <1>1, <1>2, <1>3, <1>4, <1>5, PlaceIs

(* Every entry of Places is the number at some place. *)
LEMMA EntryPlace ==
  ASSUME NEW dk, NEW ino, NEW e \in Places(dk, ino)
  PROVE  \E p \in Place : e = Shown(dk, ino, p) /\ e[2] = At(dk, ino, p) /\ e[2] # 0 /\ (Points(e) <=> Inner(p))
<1>1. e \in Rows(dk, ino) /\ e[2] # 0
  BY PlacesRows
<1>2. \E p \in Place : e = Shown(dk, ino, p)
  <2>1. CASE e \in Directs(ino)
    <3>1. PICK k \in 0 .. NumDirect - 1 : e = <<<<0, k>>, ino.direct[k]>>
      BY <2>1 DEF Directs
    <3>2. e = Shown(dk, ino, DirectPlace(k)) /\ DirectPlace(k) \in Place
      BY <3>1, WayIs, TopIs DEF Shown
    <3>. QED
      BY <3>2
  <2>2. CASE \E l \in 1 .. 3 : \E n \in 0 .. l : e \in Row(dk, ino, l, n)
    <3>0. PICK l \in 1 .. 3 : \E n \in 0 .. l : e \in Row(dk, ino, l, n)
      BY <2>2
    <3>1. PICK n \in 0 .. l : e \in Row(dk, ino, l, n)
      BY <3>0
    <3>2. InRow(dk, ino, l, n, e)
      BY <3>1, RowIs
    <3>. QED
      BY <3>2 DEF InRow
  <2>. QED
    BY <1>1, <2>1, <2>2 DEF Rows
<1>3. PICK p \in Place : e = Shown(dk, ino, p)
  BY <1>2
<1>4. e[1] = Way(p) /\ e[2] = At(dk, ino, p)
  BY <1>3 DEF Shown
<1>5. Points(e) <=> Inner(p)
  BY <1>4, WayPoints DEF Points
<1>. QED
  BY <1>1, <1>3, <1>4, <1>5

(* Every number at a place is listed; if it is a block's, for that place. *)
Listed(dk, ino, p) ==
  \/ At(dk, ino, p) = 0
  \/ /\ At(dk, ino, p) \in Named(dk, ino)
     /\ At(dk, ino, p) \in Blocks => Shown(dk, ino, p) \in Row(dk, ino, p[1], p[2]) \/ p[1] = 0

(* What a row shows is named. *)
LEMMA RowNamed ==
  ASSUME NEW dk, NEW ino, NEW l \in 1 .. 3, NEW n \in 0 .. l, NEW e \in Row(dk, ino, l, n), e[2] # 0
  PROVE  e[2] \in Named(dk, ino)
<1>1. e \in Rows(dk, ino)
  BY DEF Rows
<1>2. e \in Places(dk, ino)
  BY <1>1, PlacesRows
<1>. QED
  BY <1>2 DEF Named

(* What stands at a place is named. *)
LEMMA NamedAll ==
  ASSUME NEW dk, NEW ino
  PROVE  \A p \in Place : At(dk, ino, p) # 0 => At(dk, ino, p) \in Named(dk, ino)
<1> DEFINE X == {p \in Place : Listed(dk, ino, p)}
<1>1. ASSUME NEW k \in 0 .. NumDirect - 1 PROVE DirectPlace(k) \in X
  <2>1. DirectPlace(k) \in Place /\ At(dk, ino, DirectPlace(k)) = ino.direct[k] /\ DirectPlace(k)[1] = 0
    BY TopIs DEF DirectPlace
  <2>2. <<<<0, k>>, ino.direct[k]>> \in Rows(dk, ino)
    BY DEF Rows, Directs
  <2>3. ino.direct[k] # 0 => <<<<0, k>>, ino.direct[k]>> \in Places(dk, ino)
    BY <2>2, PlacesRows
  <2>4. ino.direct[k] # 0 => ino.direct[k] \in Named(dk, ino)
    BY <2>3 DEF Named
  <2>. QED
    BY <2>1, <2>4 DEF Listed
<1>2. ASSUME NEW l \in 1 .. 3 PROVE RootPlace(l) \in X
  <2>1. RootPlace(l) \in Place /\ At(dk, ino, RootPlace(l)) = ino.root[l] /\ RootPlace(l)[1] = l /\ RootPlace(l)[2] = 0
    BY TopIs DEF RootPlace
  <2>2. Shown(dk, ino, RootPlace(l)) = <<<<l>>, ino.root[l]>>
    BY <2>1, WayIs DEF Shown
  <2>3. Shown(dk, ino, RootPlace(l)) \in Row(dk, ino, l, 0)
    BY <2>2 DEF Row, RootOf
  <2>4. Shown(dk, ino, RootPlace(l))[2] = ino.root[l] /\ 0 \in 0 .. l
    BY <2>2
  <2>5. ino.root[l] # 0 => ino.root[l] \in Named(dk, ino)
    BY <2>3, <2>4, RowNamed
  <2>. QED
    BY <2>1, <2>3, <2>5 DEF Listed
<1>3. ASSUME NEW p \in Place, p \in X, Inner(p), NEW k \in Digit PROVE Under(p, k) \in X
  <2> DEFINE u == Under(p, k)
             a == At(dk, ino, p)
  <2>1. u \in Place /\ u[2] = p[2] + 1 /\ u[1] = p[1] /\ p[1] \in 1 .. 3 /\ p[2] \in 0 .. 2
    BY <1>3, UnderIs
  <2>2. At(dk, ino, u) = Down(dk, a, k)
    BY <1>3, AtUnder
  <2>3. Listed(dk, ino, p)
    BY <1>3
  <2>4. CASE a \notin Blocks \ {0}
    <3>1. At(dk, ino, u) = a
      BY <2>2, <2>4 DEF Down
    <3>2. a = 0 \/ (a \in Named(dk, ino) /\ a \notin Blocks)
      BY <2>3, <2>4 DEF Listed
    <3>. QED
      BY <2>1, <3>1, <3>2 DEF Listed
  <2>5. CASE a \in Blocks \ {0}
    <3>1. Shown(dk, ino, p) \in Row(dk, ino, p[1], p[2])
      BY <2>1, <2>3, <2>5 DEF Listed
    <3>2. Shown(dk, ino, p)[1] = Way(p) /\ Shown(dk, ino, p)[2] = a
      BY DEF Shown
    <3>3. <<Append(Way(p), k), dk[a][k]>> = Shown(dk, ino, u)
      BY <1>3, <2>5, ShownUnder
    <3>4. Shown(dk, ino, u) \in Beneath(dk, Row(dk, ino, p[1], p[2]))
      <4> DEFINE x == Shown(dk, ino, p)
      <4>1. x \in Row(dk, ino, p[1], p[2]) /\ x[2] \in Blocks \ {0} /\ Shown(dk, ino, u) = <<Append(x[1], k), dk[x[2]][k]>>
        BY <3>1, <3>2, <3>3, <2>5
      <4> HIDE DEF x, u
      <4>. QED
        BY <4>1, BeneathIs
    <3>5. Row(dk, ino, u[1], u[2]) = Beneath(dk, Row(dk, ino, p[1], p[2]))
      BY <2>1, RowNext
    <3>6. Shown(dk, ino, u) \in Row(dk, ino, u[1], u[2])
      BY <3>4, <3>5
    <3>7. u[1] \in 1 .. 3 /\ u[2] \in 0 .. u[1]
      BY <1>3, <2>1 DEF Inner
    <3>8. Shown(dk, ino, u)[2] = At(dk, ino, u)
      BY DEF Shown
    <3> HIDE DEF u
    <3>9. At(dk, ino, u) # 0 => At(dk, ino, u) \in Named(dk, ino)
      BY <3>6, <3>7, <3>8, RowNamed
    <3>. QED
      BY <2>1, <3>6, <3>9 DEF Listed, u
  <2>. QED
    BY <2>4, <2>5
<1> HIDE DEF X
<1>4. Place \subseteq X
  BY <1>1, <1>2, <1>3, PlacesTop
<1>. QED
  BY <1>4 DEF X, Listed

(* The inodes of a file, on the disk and in its descriptors, are in order. *)
LEMMA InodesInOrder ==
  ASSUME Types, NEW role, InOrder(role), NEW f \in Files, NEW i \in InodesOf(f)
  PROVE  InodeOK(role, used, f, i)
<1>1. CASE i = inodes[f]
  BY <1>1 DEF InOrder, NodesOK
<1>2. CASE \E d \in OpenOn(f) : i = fdesc[d].inode
  <2>1. PICK d \in OpenOn(f) : i = fdesc[d].inode
    BY <1>2
  <2>2. d \in Desc /\ fdesc[d].open /\ fdesc[d].file = f
    BY DEF OpenOn
  <2>3. fdesc[d] # Closed
    BY <2>2 DEF Closed
  <2>. QED
    BY <2>1, <2>2, <2>3 DEF InOrder, DescOK
<1>. QED
  BY <1>1, <1>2 DEF InodesOf

(* A listed number that is a block's: the block is taken, and there for    *)
(* this place.                                                             *)
EntryFor(role, f, i, e, p) ==
  /\ e = Shown(disk, i, p) /\ e[2] \in Int /\ (Points(e) <=> Inner(p))
  /\ e[2] > 0 \/ e[2] \in Blocks => e[2] \in used \ {0} /\ e[2] \in Blocks \ {0} /\ role[e[2]] = <<f, p>>
(* Every entry of its map stands at a place. *)
LEMMA EntryIsFor ==
  ASSUME Types, NEW role, InOrder(role), NEW f \in Files, NEW i \in InodesOf(f), NEW e \in Places(disk, i)
  PROVE  \E p \in Place : EntryFor(role, f, i, e, p)
<1>1. Now \in Volumes /\ Now.used = used /\ Now.disk = disk /\ Vol(role, Now)
  BY NowIs DEF InOrder
<1>2. InodeOK(role, Now.used, f, i)
  BY <1>1, InodesInOrder
<1>3. PICK p \in Place : e = Shown(disk, i, p) /\ e[2] = At(disk, i, p) /\ e[2] # 0 /\ (Points(e) <=> Inner(p))
  BY EntryPlace
<1>4. NumberAt(role, Now.used, f, p, At(Now.disk, i, p))
  BY <1>1, <1>2, AtHolds
<1>5. NumberAt(role, used, f, p, e[2])
  BY <1>1, <1>3, <1>4
<1>6. e[2] \in Blocks => e[2] > 0
  <2> DEFINE x == e[2]
  <2>1. x # 0 /\ Blocks \subseteq Nat
    BY <1>3, BlocksAre
  <2> HIDE DEF x
  <2>2. x \in Blocks => x > 0
    BY <2>1
  <2>. QED
    BY <2>2 DEF x
<1>. QED
  BY <1>3, <1>5, <1>6 DEF EntryFor, NumberAt

(* Every block its map names is in use, and there for this file. *)
LEMMA NamedBlocks ==
  ASSUME Types, NEW role, InOrder(role), NEW f \in Files, NEW b \in BlocksOf(f)
  PROVE  b \in used \ {0} /\ role[b][1] = f
<1>1. b \in Blocks /\ \E i \in InodesOf(f) : b \in Named(disk, i)
  BY DEF BlocksOf
<1>2. PICK i \in InodesOf(f) : b \in Named(disk, i)
  BY <1>1
<1>3. PICK e \in Places(disk, i) : b = e[2]
  BY <1>2 DEF Named
<1>4. PICK p \in Place : EntryFor(role, f, i, e, p)
  BY EntryIsFor
<1>. QED
  BY <1>1, <1>3, <1>4 DEF EntryFor

(* The invariant implies TypeOK. *)
LEMMA TypesHold ==
  ASSUME IInv
  PROVE  TypeOK
<1>1. PICK role : InOrder(role) /\ FilesRight(role)
  BY DEF IInv
<1>2. Types
  BY DEF IInv
<1>3. ASSUME NEW f \in Files, NEW i \in InodesOf(f), NEW e \in Places(disk, i), e[2] \in Blocks
      PROVE  IF Points(e) THEN disk[e[2]] \in [0 .. Ptrs - 1 -> Numbers] ELSE disk[e[2]] \in [0 .. Bytes - 1 -> Byte]
  <2>1. PICK p \in Place : EntryFor(role, f, i, e, p)
    BY <1>1, <1>2, EntryIsFor
  <2> DEFINE b == e[2]
  <2>2. b \in used \ {0} /\ role[b] = <<f, p>> /\ (Points(e) <=> Inner(p))
    BY <1>3, <2>1 DEF EntryFor
  <2>3. BlockOK(role, Now, b) /\ Now.disk = disk
    BY <1>1, <1>2, <2>2, NowIs DEF InOrder, Vol
  <2> HIDE DEF b
  <2>4. IF Inner(p) THEN disk[b] \in Pointers ELSE disk[b] \in Buffer
    BY <2>2, <2>3 DEF BlockOK
  <2>. QED
    BY <2>2, <2>4 DEF b, Pointers, Buffer
<1>4. ASSUME NEW d \in Desc PROVE fdesc[d] = Closed \/ (fdesc[d] \in Descriptor /\ (fdesc[d].bufpos \in 0 .. Bytes \/ fdesc[d].file \in spoilt))
  <2>1. CASE fdesc[d] = Closed
    BY <2>1
  <2>2. CASE fdesc[d] \in Descriptor /\ fdesc[d].file \notin spoilt
    <3> DEFINE fd == fdesc[d]
    <3>1. fd.file \in Files \ spoilt /\ fd.open /\ Bytes \in Nat
      BY <2>2, FieldsAre, TimesIs
    <3>2. FileOK(role, used, disk, inodes, fdesc, fd.file, length[fd.file])
      BY <1>1, <3>1 DEF FilesRight
    <3>3. DescRight(role, used, disk, fd, length[fd.file])
      BY <3>1, <3>2 DEF FileOK, OpenIn
    <3>4. FdRight(role, used, disk, fd)
      BY <3>3 DEF DescRight
    <3> HIDE DEF fd
    <3>5. fd.bufpos \in 0 .. Bytes
      BY <3>1, <3>4 DEF FdRight, Empty, Ended, On, OnPos
    <3>. QED
      BY <2>2, <3>5 DEF fd
  <2>3. CASE fdesc[d] \in Descriptor /\ fdesc[d].file \in spoilt
    BY <2>3
  <2>. QED
    BY <1>2, <2>1, <2>2, <2>3 DEF Types
<1>5. /\ used \subseteq Blocks /\ inodes \in [Files -> Inode] /\ length \in [Files -> 0 .. MaxSize]
      /\ spoilt \subseteq Files /\ after \in 0 .. MaxAfter
  BY <1>2 DEF Types
<1>. QED
  BY <1>3, <1>4, <1>5 DEF TypeOK

(* It implies NoSharing. *)
LEMMA NothingShared ==
  ASSUME IInv
  PROVE  NoSharing
<1>1. PICK role : InOrder(role) /\ FilesRight(role)
  BY DEF IInv
<1>2. Types
  BY DEF IInv
<1>3. NamedIsUsed
  BY <1>1, <1>2, NamedBlocks DEF NamedIsUsed
<1>4. ASSUME NEW f \in Files, NEW g \in Files, f # g PROVE BlocksOf(f) \cap BlocksOf(g) = {}
  <2>1. \A b \in BlocksOf(f) : role[b][1] = f
    BY <1>1, <1>2, NamedBlocks
  <2>2. \A b \in BlocksOf(g) : role[b][1] = g
    BY <1>1, <1>2, NamedBlocks
  <2>. QED
    BY <1>4, <2>1, <2>2
<1>5. ASSUME NEW f \in Files, NEW i \in InodesOf(f), NEW x \in Places(disk, i), NEW y \in Places(disk, i), x[2] = y[2], x[2] > 0
      PROVE  x = y
  <2>1. PICK p \in Place : EntryFor(role, f, i, x, p)
    BY <1>1, <1>2, EntryIsFor
  <2>2. PICK q \in Place : EntryFor(role, f, i, y, q)
    BY <1>1, <1>2, EntryIsFor
  <2>3. role[x[2]] = <<f, p>> /\ role[y[2]] = <<f, q>> /\ x = Shown(disk, i, p) /\ y = Shown(disk, i, q)
    BY <2>1, <2>2, <1>5 DEF EntryFor
  <2>4. p = q
    BY <2>3, <1>5
  <2>. QED
    BY <2>3, <2>4
<1>6. \A f \in Files \ spoilt : \A i \in InodesOf(f) :
        \A p, q \in Places(disk, i) : p[2] = q[2] /\ p[2] > 0 => p = q
  BY <1>5
<1>. QED
  BY <1>3, <1>4, <1>6 DEF NoSharing

(* It implies NoLeak. *)
LEMMA NothingLost ==
  ASSUME IInv
  PROVE  NoLeak
<1>1. PICK role : InOrder(role) /\ FilesRight(role)
  BY DEF IInv
<1>2. Types
  BY DEF IInv
<1>3. SUFFICES ASSUME used # Blocks, spoilt = {} PROVE used = {0} \cup UNION {BlocksOf(f) : f \in Files}
  BY DEF NoLeak
<1>4. \A f \in Files : BlocksOf(f) \subseteq used
  BY <1>1, <1>2, NamedBlocks
<1>5. 0 \in used /\ Now.used = used /\ Vol(role, Now) /\ used \subseteq Blocks
  BY <1>1, <1>2, NowIs DEF InOrder, Vol, Types
<1>6. ASSUME NEW b \in used \ {0} PROVE \E f \in Files : b \in BlocksOf(f)
  <2>1. BlockOK(role, Now, b)
    BY <1>5 DEF Vol
  <2>2. PICK f \in Files : role[b][1] = f
    BY <2>1 DEF BlockOK
  <2>3. FileOK(role, used, disk, inodes, fdesc, f, length[f])
    BY <1>1, <1>3 DEF FilesRight
  <2>4. PICK i \in InodesOf(f) : AllNamed(role, used, disk, i, f)
    <3>1. CASE OpenIn(fdesc, f) = {}
      <4>1. AllNamed(role, used, disk, inodes[f], f)
        BY <2>3, <3>1 DEF FileOK, NoneOpen, MapOK, MapTo
      <4>2. inodes[f] \in InodesOf(f)
        BY DEF InodesOf
      <4>. QED
        BY <4>1, <4>2
    <3>2. CASE OpenIn(fdesc, f) # {}
      <4>1. PICK d \in OpenIn(fdesc, f) : TRUE
        BY <3>2
      <4>2. DescRight(role, used, disk, fdesc[d], length[f]) /\ fdesc[d].file = f
        BY <2>3 DEF FileOK, OpenIn
      <4>3. AllNamed(role, used, disk, fdesc[d].inode, f)
        BY <4>2 DEF DescRight, MapOK, MapTo
      <4>4. fdesc[d].inode \in InodesOf(f)
        BY <4>1, OpenOnIs DEF InodesOf
      <4>. QED
        BY <4>3, <4>4
    <3>. QED
      BY <3>1, <3>2
  <2>5. PICK p \in Place : At(disk, i, p) = b
    BY <1>3, <2>2, <2>4 DEF AllNamed, Names
  <2>6. b \in Named(disk, i)
    BY <2>5, NamedAll
  <2>. QED
    BY <2>6, <1>5 DEF BlocksOf
<1>. QED
  BY <1>4, <1>5, <1>6

(* The inode that knows most about f *)
Newest(role, f, ino, dirty, blk, buf) ==
  /\ InodeOK(role, used, f, ino)
  /\ MapOK(role, used, disk, ino, f, dirty, blk) /\ ino.size = length[f]
  /\ dirty => \E k \in 0 .. Starts[4] - 1 : Buffered(role, used, disk, ino, f, k, blk, buf)

(* Block b has byte p of f, on the disk or in the buffer that is newer *)
HasByte(f, p, dirty, blk, buf, b) ==
  b < 0 \/ (/\ b > 0 /\ b \in Blocks \ {0}
            /\ (dirty /\ blk = b) => buf[p % Bytes] = <<f, p>>
            /\ ~(dirty /\ blk = b) => disk[b][p % Bytes] = <<f, p>>)

(* A byte of it, by the map *)
LEMMA ByteFound ==
  ASSUME Types, NEW role, InOrder(role), NEW f, NEW ino, NEW dirty \in BOOLEAN, NEW blk, NEW buf,
         Newest(role, f, ino, dirty, blk, buf), ino.size \in Nat, ino.size <= MaxSize,
         NEW p \in Nat, p < ino.size
  PROVE  HasByte(f, p, dirty, blk, buf, Log2Phys(disk, ino, p \div Bytes))
<1> DEFINE b == Log2Phys(disk, ino, p \div Bytes)
           j == p \div Bytes
           q == p % Bytes
           a == At(disk, ino, Spot(j))
<1>1. Now \in Volumes /\ Now.used = used /\ Now.disk = disk /\ Vol(role, Now)
  BY NowIs DEF InOrder
<1>2. InodeOK(role, Now.used, f, ino) /\ MapOK(role, used, disk, ino, f, dirty, blk)
  BY <1>1 DEF Newest
<1>3. Mapped(Now.disk, ino, ino.size) /\ DataRight(disk, ino, f, dirty, blk)
  BY <1>1, <1>2 DEF MapOK, MapTo
<1>4. /\ j \in 0 .. Starts[4] - 1 /\ q \in 0 .. Bytes - 1 /\ p = Times(j) + q
      /\ ByteBlock(role, Now.used, f, j, At(Now.disk, ino, Spot(j)))
  <2> DEFINE m == ino.size
  <2>1. m \in Nat /\ m <= MaxSize /\ Mapped(Now.disk, ino, m) /\ p < m
    BY <1>3
  <2> HIDE DEF m
  <2>. QED
    BY <2>1, <1>1, <1>2, MapNumber
<1>5. j \in Nat /\ j < Starts[4]
  BY <1>4, StartsAre
<1>6. b = a
  BY <1>5, AtSpot
<1>7. ByteBlock(role, used, f, j, a) /\ used \subseteq Blocks
  BY <1>1, <1>4 DEF Types
<1>8. b \in Int /\ (b < 0 \/ (b > 0 /\ b \in used \ {0} /\ role[b] = <<f, Spot(j)>>))
  BY <1>6, <1>7 DEF ByteBlock
<1>9. ByteOn(disk, ino, f, p) \/ (dirty /\ blk = a)
  <2>1. p \in 0 .. ino.size - 1
    OBVIOUS
  <2>. QED
    BY <1>3, <2>1 DEF DataRight
<1>10. CASE b < 0
  BY <1>8, <1>10 DEF HasByte
<1>11. CASE b > 0 /\ dirty /\ blk = b
  <2>1. PICK k \in 0 .. Starts[4] - 1 : Buffered(role, used, disk, ino, f, k, blk, buf)
    BY <1>11 DEF Newest
  <2>2. Holds(role, used, f, Spot(k), b)
    BY <2>1, <1>11 DEF Buffered
  <2>3. b \notin {0, -1, -2} /\ role[b] = <<f, Spot(j)>> /\ used \in SUBSET Blocks
    BY <1>7, <1>8, <1>11
  <2>4. role[b] = <<f, Spot(k)>>
    BY <2>2, <2>3 DEF Holds
  <2>5. Spot(j) = Spot(k) /\ k \in Nat
    BY <2>3, <2>4, StartsAre
  <2>6. j = k
    BY <2>5, <1>5, SpotTells
  <2>7. InBuffer(buf, ino.size, f, j)
    <3>1. ~(At(disk, ino, Spot(k)) < 0)
      BY <2>6, <1>6, <1>8, <1>11
    <3>. QED
      BY <2>1, <2>6, <3>1 DEF Buffered
  <2>8. buf[q] = <<f, p>>
    BY <2>7, <1>4 DEF InBuffer
  <2>. QED
    BY <2>8, <1>7, <1>8, <1>11 DEF HasByte
<1>12. CASE b > 0 /\ ~(dirty /\ blk = b)
  <2>1. disk[b][q] = <<f, p>>
    <3>1. ~(a < 0) /\ ByteOn(disk, ino, f, p)
      BY <1>6, <1>8, <1>9, <1>12
    <3>. QED
      BY <3>1, <1>6 DEF ByteOn
  <2>. QED
    BY <2>1, <1>7, <1>8, <1>12 DEF HasByte
<1>. QED
  BY <1>8, <1>10, <1>11, <1>12 DEF HasByte

(* Where what is newest about f is *)
LEMMA NewestIs ==
  ASSUME Types, NEW role, InOrder(role), FilesRight(role), NEW f \in Files \ spoilt
  PROVE  \/ Ahead(f) = {} /\ Newest(role, f, inodes[f], FALSE, 0, Blank)
         \/ \E d \in Desc : /\ Ahead(f) = {d} /\ fdesc[d] \in Descriptor
                            /\ Newest(role, f, fdesc[d].inode, fdesc[d].dirty, fdesc[d].curr_blk, fdesc[d].buffer)
<1>1. FileOK(role, used, disk, inodes, fdesc, f, length[f])
  BY DEF FilesRight
<1>2. Ahead(f) = {d \in OpenIn(fdesc, f) : fdesc[d].dirty \/ fdesc[d].inode # inodes[f]}
  BY OpenOnIs DEF Ahead
<1>3. ASSUME NEW d \in OpenIn(fdesc, f)
      PROVE  /\ d \in Desc /\ fdesc[d] \in Descriptor /\ fdesc[d].file = f
             /\ MapOK(role, used, disk, fdesc[d].inode, f, fdesc[d].dirty, fdesc[d].curr_blk) /\ fdesc[d].inode.size = length[f]
             /\ FdRight(role, used, disk, fdesc[d]) /\ (OpenIn(fdesc, f) = {d} \/ (~fdesc[d].dirty /\ fdesc[d].inode = inodes[f]))
  <2>1. d \in Desc /\ fdesc[d].open /\ fdesc[d].file = f
    BY DEF OpenIn
  <2>2. DescRight(role, used, disk, fdesc[d], length[f]) /\ (OpenIn(fdesc, f) = {d} \/ (~fdesc[d].dirty /\ fdesc[d].inode = inodes[f]))
    BY <1>1 DEF FileOK
  <2>. QED
    BY <2>1, <2>2, OpenIs DEF DescRight
<1>4. CASE Ahead(f) = {}
  <2>1. InodeOK(role, used, f, inodes[f])
    BY DEF InOrder, NodesOK
  <2>2. MapOK(role, used, disk, inodes[f], f, FALSE, 0) /\ inodes[f].size = length[f]
    <3>1. CASE OpenIn(fdesc, f) = {}
      BY <1>1, <3>1 DEF FileOK, NoneOpen
    <3>2. CASE OpenIn(fdesc, f) # {}
      <4>1. PICK d \in OpenIn(fdesc, f) : TRUE
        BY <3>2
      <4>2. ~fdesc[d].dirty /\ fdesc[d].inode = inodes[f]
        BY <1>2, <1>4, <4>1
      <4> DEFINE a == fdesc[d].dirty
                 b == fdesc[d].curr_blk
                 no == FALSE
                 zero == 0
                 ino == inodes[f]
      <4>3. ~a /\ MapOK(role, used, disk, ino, f, a, b) /\ ino.size = length[f]
        BY <1>3, <4>1, <4>2
      <4> HIDE DEF a, b, no, zero, ino
      <4>4. MapOK(role, used, disk, ino, f, no, zero)
        BY <4>3, MapOKClean
      <4>. QED
        BY <4>3, <4>4 DEF no, zero, ino
    <3>. QED
      BY <3>1, <3>2
  <2>3. Newest(role, f, inodes[f], FALSE, 0, Blank)
    BY <2>1, <2>2 DEF Newest
  <2>. QED
    BY <2>3, <1>4
<1>5. CASE Ahead(f) # {}
  <2>1. PICK d \in OpenIn(fdesc, f) : fdesc[d].dirty \/ fdesc[d].inode # inodes[f]
    BY <1>2, <1>5
  <2>2. OpenIn(fdesc, f) = {d}
    BY <1>3, <2>1
  <2>3. Ahead(f) = {d}
    BY <1>2, <2>1, <2>2
  <2>4. InodeOK(role, used, f, fdesc[d].inode)
    <3>1. fdesc[d] # Closed
      BY <2>1 DEF OpenIn, Closed
    <3>. QED
      BY <3>1, <1>3, <2>1 DEF InOrder, DescOK
  <2>5. fdesc[d].dirty => \E k \in 0 .. Starts[4] - 1 : Buffered(role, used, disk, fdesc[d].inode, f, k, fdesc[d].curr_blk, fdesc[d].buffer)
    BY <1>3, <2>1 DEF FdRight, Empty, Ended, On
  <2>6. Newest(role, f, fdesc[d].inode, fdesc[d].dirty, fdesc[d].curr_blk, fdesc[d].buffer)
    BY <1>3, <2>1, <2>4, <2>5 DEF Newest
  <2>. QED
    BY <1>3, <2>1, <2>3, <2>6
<1>. QED
  BY <1>4, <1>5

(* It implies ReadBack. *)
LEMMA AllThere ==
  ASSUME IInv
  PROVE  ReadBack
<1>1. PICK role : InOrder(role) /\ FilesRight(role)
  BY DEF IInv
<1>2. Types
  BY DEF IInv
<1>3. SUFFICES ASSUME NEW f \in Files \ spoilt
               PROVE  /\ NewestInode(f).size = length[f]
                      /\ \A p \in 0 .. length[f] - 1 :
                           Found(f, p) = <<f, p>> \/ Log2Phys(disk, NewestInode(f), p \div Bytes) < 0
  BY DEF ReadBack
<1>4. length[f] \in Nat /\ length[f] <= MaxSize
  <2>1. length[f] \in 0 .. MaxSize /\ MaxSize \in Nat
    BY <1>2, SfsFileAssumption DEF Types, SfsFileAssumption
  <2>. QED
    BY <2>1
<1>5. CASE Ahead(f) = {} /\ Newest(role, f, inodes[f], FALSE, 0, Blank)
  <2> DEFINE ino == inodes[f]
             no == FALSE
             zero == 0
             none == Blank
  <2>1. NewestInode(f) = ino /\ ino.size = length[f]
    BY <1>5 DEF NewestInode, Newest
  <2>2. no \in BOOLEAN /\ ~no /\ Newest(role, f, ino, no, zero, none) /\ ino.size \in Nat /\ ino.size <= MaxSize
    BY <1>4, <1>5, <2>1
  <2> HIDE DEF ino, no, zero, none
  <2>3. ASSUME NEW p \in 0 .. length[f] - 1 PROVE Found(f, p) = <<f, p>> \/ Log2Phys(disk, ino, p \div Bytes) < 0
    <3> DEFINE b == Log2Phys(disk, ino, p \div Bytes)
    <3>1. p \in Nat /\ p < ino.size
      BY <2>1, <1>4
    <3>2. HasByte(f, p, no, zero, none, b)
      BY <1>1, <1>2, <2>2, <3>1, ByteFound
    <3> HIDE DEF b
    <3>3. Found(f, p) = IF b \in Blocks \ {0} THEN disk[b][p % Bytes] ELSE <<NoFile, b>>
      <4>1. {d \in Ahead(f) : fdesc[d].dirty /\ fdesc[d].curr_blk = b} = {}
        BY <1>5
      <4>. QED
        BY <2>1, <4>1 DEF Found, b
    <3>. QED
      BY <2>2, <3>2, <3>3 DEF HasByte, b
  <2>. QED
    BY <2>1, <2>3
<1>6. CASE \E d \in Desc : /\ Ahead(f) = {d} /\ fdesc[d] \in Descriptor
                           /\ Newest(role, f, fdesc[d].inode, fdesc[d].dirty, fdesc[d].curr_blk, fdesc[d].buffer)
  <2>1. PICK d \in Desc : /\ Ahead(f) = {d} /\ fdesc[d] \in Descriptor
                          /\ Newest(role, f, fdesc[d].inode, fdesc[d].dirty, fdesc[d].curr_blk, fdesc[d].buffer)
    BY <1>6
  <2> DEFINE ino == fdesc[d].inode
             dirty == fdesc[d].dirty
             blk == fdesc[d].curr_blk
             buf == fdesc[d].buffer
  <2>2. (CHOOSE e \in Ahead(f) : TRUE) = d
    BY <2>1
  <2>3. NewestInode(f) = ino /\ ino.size = length[f] /\ dirty \in BOOLEAN
    BY <2>1, <2>2, FieldsAre DEF NewestInode, Newest
  <2>4. Newest(role, f, ino, dirty, blk, buf) /\ ino.size \in Nat /\ ino.size <= MaxSize
    BY <1>4, <2>1, <2>3
  <2>5. \A b : {e \in Ahead(f) : fdesc[e].dirty /\ fdesc[e].curr_blk = b} = IF dirty /\ blk = b THEN {d} ELSE {}
    BY <2>1
  <2>6. buf = fdesc[d].buffer
    OBVIOUS
  <2> HIDE DEF ino, dirty, blk, buf
  <2>7. ASSUME NEW p \in 0 .. length[f] - 1 PROVE Found(f, p) = <<f, p>> \/ Log2Phys(disk, ino, p \div Bytes) < 0
    <3> DEFINE b == Log2Phys(disk, ino, p \div Bytes)
               held == {e \in Ahead(f) : fdesc[e].dirty /\ fdesc[e].curr_blk = b}
    <3>1. p \in Nat /\ p < ino.size
      BY <2>3, <1>4
    <3>2. HasByte(f, p, dirty, blk, buf, b)
      BY <1>1, <1>2, <2>3, <2>4, <3>1, ByteFound
    <3>3. held = IF dirty /\ blk = b THEN {d} ELSE {}
      BY <2>5
    <3>4. Found(f, p) = IF held # {} THEN fdesc[CHOOSE e \in held : TRUE].buffer[p % Bytes]
                        ELSE IF b \in Blocks \ {0} THEN disk[b][p % Bytes] ELSE <<NoFile, b>>
      BY <2>3 DEF Found
    <3> HIDE DEF b, held
    <3>5. CASE dirty /\ blk = b
      <4>1. held = {d}
        BY <3>3, <3>5
      <4>2. (CHOOSE e \in held : TRUE) = d
        BY <4>1
      <4>3. Found(f, p) = buf[p % Bytes]
        BY <3>4, <4>1, <4>2, <2>6
      <4>. QED
        BY <4>3, <3>2, <3>5 DEF HasByte, b
    <3>6. CASE ~(dirty /\ blk = b)
      <4>1. held = {}
        BY <3>3, <3>6
      <4>. QED
        BY <4>1, <3>2, <3>4, <3>6 DEF HasByte, b
    <3>. QED
      BY <3>5, <3>6
  <2>. QED
    BY <2>3, <2>7
<1>. QED
  BY <1>1, <1>2, <1>5, <1>6, NewestIs

(* It implies NextByteRight: a map in use has a code only if f is wrecked. *)
LEMMA NextRight ==
  ASSUME IInv
  PROVE  NextByteRight
<1>1. PICK role : InOrder(role) /\ FilesRight(role)
  BY DEF IInv
<1>2. Types
  BY DEF IInv
<1>3. SUFFICES ASSUME NEW d \in Desc, fdesc[d].open, ~fdesc[d].refused, fdesc[d].filepos < fdesc[d].inode.size,
                      ~JustFilled(fdesc[d]), fdesc[d].file \notin spoilt
               PROVE  Wrecked(fdesc[d].file) \/ fdesc[d].buffer[fdesc[d].bufpos] = <<fdesc[d].file, fdesc[d].filepos>>
  BY DEF NextByteRight
<1> DEFINE fd == fdesc[d]
           f == fd.file
<1>4. fd \in Descriptor /\ f \in Files
  BY <1>2, <1>3, OpenIs
<1>5. d \in OpenIn(fdesc, f) /\ FileOK(role, used, disk, inodes, fdesc, f, length[f])
  BY <1>1, <1>3, <1>4 DEF OpenIn, FilesRight
<1>6. FdRight(role, used, disk, fd)
  BY <1>5 DEF FileOK, DescRight
<1>7. fd.filepos \in Nat /\ fd.bufpos \in Int /\ fd.inode.size \in Nat /\ Bytes \in Nat
  BY <1>4, FieldsAre, TimesIs
<1>8. PICK k \in 0 .. Starts[4] - 1 : On(role, used, disk, fd, k)
  BY <1>3, <1>6, <1>7 DEF FdRight, Empty, Ended
<1>9. OnPos(fd, k) /\ Buffered(role, used, disk, fd.inode, f, k, fd.curr_blk, fd.buffer)
  BY <1>8 DEF On
<1>10. CASE At(disk, fd.inode, Spot(k)) < 0
  <2> DEFINE b == At(disk, fd.inode, Spot(k))
  <2>1. Spot(k) \in Place /\ b # 0 /\ b < 0
    BY <1>10, StartsAre, SpotPlace
  <2>2. b \in Named(disk, fd.inode)
    BY <2>1, NamedAll
  <2>3. fd.inode \in {inodes[f]} \cup {fdesc[e].inode : e \in OpenOn(f)}
    BY <1>5, OpenOnIs
  <2> HIDE DEF b
  <2>. QED
    BY <2>1, <2>2, <2>3 DEF Wrecked
<1>11. CASE ~(At(disk, fd.inode, Spot(k)) < 0)
  <2>1. InBuffer(fd.buffer, fd.inode.size, f, k)
    BY <1>9, <1>11 DEF Buffered
  <2>2. fd.bufpos \in 0 .. Bytes - 1 /\ Times(k) + fd.bufpos = fd.filepos /\ fd.filepos < fd.inode.size
    BY <1>3, <1>7, <1>9 DEF OnPos, JustFilled
  <2>3. fd.buffer[fd.bufpos] = <<f, fd.filepos>>
    BY <2>1, <2>2 DEF InBuffer
  <2>. QED
    BY <2>3
<1>. QED
  BY <1>10, <1>11

(* It implies RefusedMeansFull. *)
LEMMA RefusedFull ==
  ASSUME IInv
  PROVE  RefusedMeansFull
<1>1. PICK role : InOrder(role) /\ FilesRight(role)
  BY DEF IInv
<1>2. ASSUME NEW d \in Desc, fdesc[d].open, fdesc[d].refused, fdesc[d].file \notin spoilt PROVE used = Blocks
  <2>1. fdesc[d].file \in Files \ spoilt
    BY <1>2, OpenIs DEF IInv
  <2>2. FileOK(role, used, disk, inodes, fdesc, fdesc[d].file, length[fdesc[d].file])
    BY <1>1, <2>1 DEF FilesRight
  <2>3. DescRight(role, used, disk, fdesc[d], length[fdesc[d].file])
    BY <1>2, <2>2 DEF FileOK, OpenIn
  <2>. QED
    BY <1>2, <2>3 DEF DescRight
<1>. QED
  BY <1>2 DEF RefusedMeansFull

-----------------------------------------------------------------------------
(* A block that some map names as pointers holds pointers, one that it     *)
(* names as data holds data, and no descriptor of a file that was used as  *)
(* the code expects ever has its place past the end of its buffer.         *)
THEOREM TypesRight == SeekSpec => []TypeOK
  BY FilesInvariance, TypesHold, PTL

(* Every block a map names, on the disk or in a descriptor, has its bit    *)
(* set, none is of two files, nor at two places of one map: what set_bit   *)
(* before sfs_set_phys (sfs_write.c) gives, also when sfs_set_phys fails   *)
(* half way.                                                               *)
THEOREM BlocksApart == SeekSpec => []NoSharing
  BY FilesInvariance, NothingShared, PTL

(* No block that sfs_set_phys takes on its way down is lost to the file.   *)
THEOREM BlocksNamed == SeekSpec => []NoLeak
  BY FilesInvariance, NothingLost, PTL

(* Whatever mixture of opens, writes, reads, seeks and closes has come     *)
(* before, each byte written to a file that was not misused is found at    *)
(* its position, in the buffer or through the three levels of the map.     *)
THEOREM BytesStay == SeekSpec => []ReadBack
  BY FilesInvariance, AllThere, PTL

(* The byte that the next read hands out is the one at filepos.            *)
THEOREM ReadsRight == SeekSpec => []NextByteRight
  BY FilesInvariance, NextRight, PTL

(* A write gives up only when every block is taken.                        *)
THEOREM OnlyWhenFull == SeekSpec => []RefusedMeansFull
  BY FilesInvariance, RefusedFull, PTL
=============================================================================
