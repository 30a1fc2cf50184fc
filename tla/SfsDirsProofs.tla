---------------------------- MODULE SfsDirsProofs ----------------------------
(***************************************************************************)
(* Proofs about SfsDirs, for volumes, blocks and directories of any size   *)
(* and any paths: names lead to the inodes made for them, and both bitmaps *)
(* are exact. The last two parts are about what SfsDirs rests on: the      *)
(* bitmaps that it takes for sets (Bitmap), and the tables that it takes   *)
(* for arrays (Mkfs).                                                      *)
(***************************************************************************)
EXTENDS SfsDirs, Bitmap, SequenceTheorems, WellFoundedInduction, TLAPS
Fields == {"inodes", "iused", "bused", "disk", "ok"}
Special == {"", ".", ".."}
Names == STRING \cup Special \cup {"Master Boot Record", "/"}
EntrySet == [name : Names, inode : Inums]
Slots == 0 .. NumDirect - 1
Most == NumDirect * PerBlock

(* What a volume is made of. *)
Typed(v) ==
  /\ DOMAIN v = Fields
  /\ v.inodes \in [Inums -> Inode]
  /\ v.iused \subseteq Inums /\ v.bused \subseteq Blocks
  /\ v.disk \in [Blocks -> [1 .. PerBlock -> EntrySet]]
  /\ v.ok \in BOOLEAN

(* A file in use has the blocks that its entries need. *)
SizesOK(v) ==
  \A i \in v.iused :
    /\ v.inodes[i].size <= Most
    /\ v.inodes[i].type = "FT_NORMAL" => v.inodes[i].size = 0
    /\ \A k \in Slots : v.inodes[i].direct[k] # 0 <=> \E e \in 0 .. v.inodes[i].size - 1 : e \div PerBlock = k

(* A block is in the tables, or has one owner, or is free. *)
OwnersOK(v) ==
  /\ \A i, j \in v.iused : \A k, l \in Slots :
       v.inodes[i].direct[k] # 0 /\ v.inodes[i].direct[k] = v.inodes[j].direct[l] => i = j /\ k = l
  /\ \A i \in v.iused : \A k \in Slots : v.inodes[i].direct[k] # 0 => v.inodes[i].direct[k] \notin Tables
  /\ \A b \in Blocks : b \in v.bused <=> b \in Tables \/ \E i \in v.iused : \E k \in Slots : v.inodes[i].direct[k] = b

(* Blocks that are free, and what is behind the end of a directory, hold no names. *)
CleanOK(v) ==
  /\ \A b \in Blocks \ v.bused : \A p \in 1 .. PerBlock : v.disk[b][p].name \in Special
  /\ \A i \in v.iused : \A e \in v.inodes[i].size .. Most - 1 :
       v.inodes[i].direct[e \div PerBlock] # 0 => EntryAt(v, i, e).name \in Special

(* Each inode in use is the root's, or has a name, or was lost. *)
BitsOK(v, nm, ls) ==
  /\ v.iused = {Root} \cup DOMAIN nm \cup ls
  /\ Root \notin DOMAIN nm /\ Root \notin ls /\ ls \cap DOMAIN nm = {}

(* The entries of directories are the names, and nothing else. *)
Plain(p) == p \in Seq(Names) /\ \A k \in 1 .. Len(p) : p[k] \notin Special
PathOf(nm, d) == IF d = Root THEN <<>> ELSE nm[d]
Dirs(nm) == {Root} \cup DOMAIN nm
Through(rm, p) == \E q \in rm : IsPrefix(q, p)
EntryOK(nm, rm, d, e) ==
  \/ e.name \in Special
  \/ Append(PathOf(nm, d), e.name) \in rm
  \/ e.inode \in DOMAIN nm /\ nm[e.inode] = Append(PathOf(nm, d), e.name)
NamesOK(v, nm, rm) ==
  /\ \A j \in DOMAIN nm : nm[j] # <<>> /\ Plain(nm[j]) /\ ~Through(rm, nm[j])
  /\ \A i, j \in DOMAIN nm : nm[i] = nm[j] => i = j
  /\ \A d \in Dirs(nm) : \A e \in 0 .. v.inodes[d].size - 1 : EntryOK(nm, rm, d, EntryAt(v, d, e))
  /\ \A j \in DOMAIN nm : \E d \in Dirs(nm) : \E e \in 0 .. v.inodes[d].size - 1 :
       EntryAt(v, d, e).inode = j /\ nm[j] = Append(PathOf(nm, d), EntryAt(v, d, e).name)

Tree(v, nm, rm, ls) == SizesOK(v) /\ OwnersOK(v) /\ CleanOK(v) /\ BitsOK(v, nm, ls) /\ NamesOK(v, nm, rm)

InRange(v) == \A i \in Inums : v.inodes[i].size <= Most

IInv ==
  /\ Typed(Volume)
  /\ answer \in {0, 1, -1} /\ stage \in {"running", "wrecked"} /\ ghost \in BOOLEAN
  /\ DOMAIN named \subseteq Inums /\ removed \subseteq Paths
  /\ stage = "running" => InRange(Volume)
  /\ Sound => Tree(Volume, named, removed, lost)
-----------------------------------------------------------------------------
(* A set of natural numbers has a least one. *)
LEMMA LeastExists ==
  ASSUME NEW S \in SUBSET Nat, S # {}
  PROVE  \E b \in S : \A c \in S : b <= c
<1>1. PICK d \in S : \A e \in S : ~(<<e, d>> \in OpToRel(<, Nat))
  BY NatLessThanWellFounded, WFMin, Zenon
<1>2. \A e \in S : ~(e < d)
  <2>1. SUFFICES ASSUME NEW e \in S, e < d PROVE <<e, d>> \in OpToRel(<, Nat)
    BY <1>1, Zenon
  <2>2. <<e, d>> \in Nat \X Nat /\ <<e, d>>[1] < <<e, d>>[2]
    BY <2>1
  <2>. QED
    BY <2>2, Zenon DEF OpToRel
<1>3. \A e \in S : d <= e
  BY <1>2
<1>. QED
  BY <1>3

(* first_cleared answers a clear bit, if there is one. *)
LEMMA FirstClearedIs ==
  ASSUME NEW bitmap, NEW size \in Nat
  PROVE  LET b == FirstCleared(bitmap, size)
         IN \/ b = None /\ 0 .. size - 1 \subseteq bitmap
            \/ b \in 0 .. size - 1 /\ b \notin bitmap /\ b # None
<1> DEFINE clear == (0 .. size - 1) \ bitmap
<1>1. CASE clear = {}
  BY <1>1 DEF FirstCleared
<1>2. CASE clear # {}
  <2> DEFINE b == CHOOSE b \in clear : \A c \in clear : b <= c
  <2>1. clear \in SUBSET Nat
    OBVIOUS
  <2>2. \E d \in clear : \A c \in clear : d <= c
    BY <1>2, <2>1, LeastExists
  <2>3. b \in clear
    BY <2>2
  <2>4. FirstCleared(bitmap, size) = b
    BY <1>2 DEF FirstCleared
  <2> HIDE DEF b
  <2>5. b \in 0 .. size - 1 /\ b \notin bitmap /\ b # None
    BY <2>3 DEF None
  <2>. QED
    BY <2>4, <2>5
<1>. QED
  BY <1>1, <1>2

(* A quotient rounded up is a natural number. *)
LEMMA BlocksForNat ==
  ASSUME NEW n \in Nat, NEW per \in Nat \ {0}
  PROVE  BlocksFor(n, per) \in Nat
<1>1. n \div per \in Nat
  OBVIOUS
<1>. QED
  BY <1>1 DEF BlocksFor

(* The parts of the volume, as mkfs_sfs lays them out. *)
LEMMA SuperIs ==
  /\ super.num_blocks = Sectors /\ Sectors \in Nat /\ super.num_inodes \in Nat \ {0}
  /\ super.rootdir \in Nat /\ super.rootdir >= 2 /\ super.rootdir < Sectors
  /\ super.totalblocks = super.rootdir + 1
<1>1. BlockSize \in Nat \ {0} /\ InodeSize \in Nat \ {0} /\ BytesPerInode \in Nat \ {0} /\ BlockSize % InodeSize = 0
  BY MkfsAssumption
<1>2. Sectors \in Nat /\ Superblock(Sectors).totalblocks <= Sectors /\ NumInodes(Sectors) > 0
  BY SfsDirsAssumption
<1>3. NumInodes(Sectors) \in Nat
  <2>1. Sectors * BlockSize \in Nat
    BY <1>1, <1>2
  <2>2. (Sectors * BlockSize) \div BytesPerInode \in Nat
    BY <1>1, <2>1
  <2>. QED
    BY <1>2, <2>2 DEF NumInodes
<1>4. BlockSize * 8 \in Nat \ {0}
  BY <1>1
<1>5. BlockSize \div InodeSize \in Nat \ {0}
  <2> DEFINE q == BlockSize \div InodeSize
             r == BlockSize % InodeSize
  <2>1. q \in Nat /\ BlockSize = q * InodeSize + r
    BY <1>1
  <2>2. r = 0
    BY <1>1
  <2> HIDE DEF q, r
  <2>3. q # 0
    BY <1>1, <2>1, <2>2
  <2>. QED
    BY <2>1, <2>3 DEF q
<1>6. /\ BlocksFor(Sectors, BlockSize * 8) \in Nat /\ BlocksFor(NumInodes(Sectors), BlockSize * 8) \in Nat
      /\ BlocksFor(NumInodes(Sectors), BlockSize \div InodeSize) \in Nat
  BY <1>2, <1>3, <1>4, <1>5, BlocksForNat
<1> DEFINE b == BlocksFor(Sectors, BlockSize * 8)
           c == BlocksFor(NumInodes(Sectors), BlockSize * 8)
           d == BlocksFor(NumInodes(Sectors), BlockSize \div InodeSize)
<1>7. /\ super.num_blocks = Sectors /\ super.num_inodes = NumInodes(Sectors)
      /\ super.rootdir = 2 + b + c + d /\ super.totalblocks = 3 + b + c + d
  BY DEF super, Superblock
<1>8. b \in Nat /\ c \in Nat /\ d \in Nat /\ super.totalblocks <= Sectors
  BY <1>2, <1>6 DEF super
<1> HIDE DEF b, c, d
<1>. QED
  BY <1>2, <1>3, <1>7, <1>8

(* The sizes of a volume, and where its parts begin *)
LEMMA VolumeIs ==
  /\ PerBlock \in Nat /\ PerBlock >= 2 /\ NumDirect \in Nat /\ NumDirect >= 1 /\ Most \in Nat
  /\ Blocks \subseteq Nat /\ 0 \in Blocks /\ 0 \in Tables /\ super.rootdir \in Blocks /\ super.rootdir \notin Tables
  /\ Tables \subseteq Blocks /\ Marked(super) = Tables \cup {super.rootdir}
  /\ Root \in Inums /\ Inums \subseteq Nat /\ None \notin Inums /\ 0 \in Slots
<1>1. PerBlock \in Nat \ {0, 1} /\ NumDirect \in Nat \ {0}
  BY SfsDirsAssumption
<1>2. NumDirect * PerBlock \in Nat
  BY <1>1
<1>3. Marked(super) = 0 .. super.rootdir
  BY SuperIs DEF Marked
<1>. QED
  BY <1>1, <1>2, <1>3, SuperIs DEF Blocks, Tables, Inums, Root, None, Slots, Most

(* Where an entry of a directory lies: in which of its blocks, at which    *)
(* place.                                                                  *)
LEMMA PlaceIs ==
  ASSUME NEW e \in 0 .. Most - 1
  PROVE  e \div PerBlock \in Slots /\ (e % PerBlock) + 1 \in 1 .. PerBlock
<1> DEFINE q == e \div PerBlock
           r == e % PerBlock
           n == NumDirect
           m == n * PerBlock
<1>1. PerBlock \in Nat \ {0} /\ n \in Nat /\ e \in Nat /\ m \in Nat /\ e < m
  BY VolumeIs DEF Most
<1>2. q \in Nat /\ r \in 0 .. PerBlock - 1 /\ e = q * PerBlock + r
  BY <1>1
<1> HIDE DEF q, r
<1>3. q < n
  <2>1. SUFFICES ASSUME n <= q PROVE FALSE
    BY <1>1, <1>2
  <2>2. PICK k \in Nat : q = n + k
    <3>1. q - n \in Nat /\ q = n + (q - n)
      BY <1>1, <1>2, <2>1
    <3>. QED
      BY <3>1
  <2>3. q * PerBlock = n * PerBlock + k * PerBlock /\ k * PerBlock \in Nat
    BY <1>1, <2>2
  <2>. QED
    BY <1>1, <1>2, <2>3
<1>. QED
  BY <1>1, <1>2, <1>3 DEF Slots, q, r, n

(* Two entries in one place of one block are one. *)
LEMMA PlacesDiffer ==
  ASSUME NEW e \in Nat, NEW f \in Nat, e \div PerBlock = f \div PerBlock, e % PerBlock = f % PerBlock
  PROVE  e = f
<1>1. e = (e \div PerBlock) * PerBlock + (e % PerBlock) /\ f = (f \div PerBlock) * PerBlock + (f % PerBlock)
  BY VolumeIs
<1>. QED
  BY <1>1

(* The first two entries are in the first block. *)
LEMMA FirstTwo ==
  /\ 0 \div PerBlock = 0 /\ 1 \div PerBlock = 0 /\ 0 % PerBlock = 0 /\ 1 % PerBlock = 1
  /\ Most >= 2
<1>1. PerBlock \in Nat /\ PerBlock >= 2 /\ NumDirect \in Nat /\ NumDirect >= 1
  BY VolumeIs
<1>2. NumDirect * PerBlock >= 2
  BY <1>1
<1>. QED
  BY <1>1, <1>2 DEF Most
-----------------------------------------------------------------------------
(* The first n names of a path. *)
LEMMA FirstNames ==
  ASSUME NEW p \in Seq(Names), NEW n \in 0 .. Len(p)
  PROVE  /\ SubSeq(p, 1, n) \in Seq(Names) /\ Len(SubSeq(p, 1, n)) = n
         /\ \A i \in 1 .. n : SubSeq(p, 1, n)[i] = p[i]
<1>1. \A i \in 1 .. n : p[i] \in Names
  BY LenProperties
<1>. QED
  BY <1>1, LenProperties

(* Paths: a path is its parent's and a name more. *)
LEMMA PathParts ==
  ASSUME NEW p \in Seq(Names), p # <<>>
  PROVE  /\ Parent(p) \in Seq(Names) /\ Name(p) \in Names /\ p = Append(Parent(p), Name(p))
         /\ Len(p) \in Nat /\ Len(p) >= 1 /\ Len(Parent(p)) = Len(p) - 1
<1>1. Len(p) \in Nat /\ Len(p) >= 1
  BY EmptySeq, LenProperties
<1>2. Len(p) - 1 \in 0 .. Len(p)
  BY <1>1
<1>3. /\ Parent(p) \in Seq(Names) /\ Len(Parent(p)) = Len(p) - 1
      /\ \A i \in 1 .. Len(p) - 1 : Parent(p)[i] = p[i]
  BY <1>2, FirstNames DEF Parent
<1>4. Name(p) \in Names
  BY <1>1 DEF Name
<1>5. /\ Append(Parent(p), Name(p)) \in Seq(Names)
      /\ Len(Append(Parent(p), Name(p))) = Len(p)
      /\ \A i \in 1 .. Len(p) : Append(Parent(p), Name(p))[i] = p[i]
  <2>1. Name(p) = p[Len(p)]
    BY DEF Name
  <2>. QED
    BY <1>1, <1>3, <1>4, <2>1
<1>6. p = Append(Parent(p), Name(p))
  BY <1>5, SeqEqual
<1>. QED
  BY <1>1, <1>3, <1>4, <1>6

(* The first names of a path, one by one *)
LEMMA OneNameMore ==
  ASSUME NEW p \in Seq(Names), NEW n \in 1 .. Len(p)
  PROVE  SubSeq(p, 1, n) = Append(SubSeq(p, 1, n - 1), p[n])
<1> DEFINE s == SubSeq(p, 1, n)
           t == SubSeq(p, 1, n - 1)
<1>1. Len(p) \in Nat /\ p[n] \in Names
  BY LenProperties
<1>2. s \in Seq(Names) /\ Len(s) = n /\ \A i \in 1 .. n : s[i] = p[i]
  BY <1>1, FirstNames
<1>3. t \in Seq(Names) /\ Len(t) = n - 1 /\ \A i \in 1 .. n - 1 : t[i] = p[i]
  BY <1>1, FirstNames
<1> HIDE DEF s, t
<1>4. /\ Append(t, p[n]) \in Seq(Names) /\ Len(Append(t, p[n])) = n
      /\ \A i \in 1 .. n : Append(t, p[n])[i] = p[i]
  BY <1>1, <1>3, AppendProperties
<1>5. s = Append(t, p[n])
  BY <1>2, <1>4, SeqEqual
<1>. QED
  BY <1>5 DEF s, t

(* What a prefix is. *)
LEMMA PrefixIs ==
  ASSUME NEW q \in Seq(Names), NEW p \in Seq(Names)
  PROVE  IsPrefix(q, p) <=> Len(q) <= Len(p) /\ \A i \in 1 .. Len(q) : q[i] = p[i]
<1>1. Len(q) \in Nat /\ Len(p) \in Nat /\ SubSeq(q, 1, Len(q)) = q
  BY LenProperties, SubSeqFull
<1>2. ASSUME Len(q) <= Len(p)
      PROVE  SubSeq(q, 1, Len(q)) = SubSeq(p, 1, Len(q)) <=> \A i \in 1 .. Len(q) : q[i] = p[i]
  <2>1. Len(q) \in 0 .. Len(p)
    BY <1>1, <1>2
  <2> DEFINE t == SubSeq(p, 1, Len(q))
  <2>2. t \in Seq(Names) /\ Len(t) = Len(q) /\ \A i \in 1 .. Len(q) : t[i] = p[i]
    BY <2>1, FirstNames
  <2> HIDE DEF t
  <2>3. (\A i \in 1 .. Len(q) : q[i] = p[i]) => q = t
    BY <2>2, SeqEqual
  <2>4. q = t => \A i \in 1 .. Len(q) : q[i] = p[i]
    BY <2>2
  <2>. QED
    BY <1>1, <2>3, <2>4 DEF t
<1>. QED
  BY <1>1, <1>2 DEF IsPrefix

(* What begins the beginning of a path begins the path. *)
LEMMA PrefixOfFirst ==
  ASSUME NEW q \in Seq(Names), NEW p \in Seq(Names), NEW n \in 0 .. Len(p), IsPrefix(q, SubSeq(p, 1, n))
  PROVE  IsPrefix(q, p)
<1> DEFINE s == SubSeq(p, 1, n)
<1>1. s \in Seq(Names) /\ Len(s) = n /\ \A i \in 1 .. n : s[i] = p[i]
  BY FirstNames
<1> HIDE DEF s
<1>2. Len(q) <= n /\ \A i \in 1 .. Len(q) : q[i] = s[i]
  BY <1>1, PrefixIs DEF s
<1>3. Len(p) \in Nat /\ Len(q) \in Nat
  BY LenProperties
<1>4. \A i \in 1 .. Len(q) : q[i] = p[i]
  BY <1>1, <1>2, <1>3
<1>. QED
  BY <1>2, <1>3, <1>4, PrefixIs

(* A path begins with itself. *)
LEMMA PrefixItself == ASSUME NEW p \in Seq(Names) PROVE IsPrefix(p, p)
BY LenProperties, PrefixIs

(* What begins a path with one name more *)
LEMMA PrefixOfAppend ==
  ASSUME NEW q \in Seq(Names), NEW p \in Seq(Names), NEW n \in Names
  PROVE  IsPrefix(q, Append(p, n)) <=> q = Append(p, n) \/ IsPrefix(q, p)
<1> DEFINE s == Append(p, n)
<1>1. /\ s \in Seq(Names) /\ Len(s) = Len(p) + 1 /\ s[Len(p) + 1] = n
      /\ \A i \in 1 .. Len(p) : s[i] = p[i]
  BY AppendProperties
<1>2. Len(q) \in Nat /\ Len(p) \in Nat
  BY LenProperties
<1> HIDE DEF s
<1>3. ASSUME IsPrefix(q, p) PROVE IsPrefix(q, s)
  BY <1>1, <1>2, <1>3, PrefixIs
<1>4. ASSUME IsPrefix(q, s), ~IsPrefix(q, p) PROVE q = s
  <2>1. Len(q) <= Len(p) + 1 /\ \A i \in 1 .. Len(q) : q[i] = s[i]
    BY <1>1, <1>4, PrefixIs
  <2>2. Len(q) = Len(p) + 1
    <3>1. SUFFICES ASSUME Len(q) # Len(p) + 1 PROVE FALSE
      OBVIOUS
    <3>2. Len(q) <= Len(p) /\ \A i \in 1 .. Len(q) : q[i] = p[i]
      BY <1>1, <1>2, <2>1, <3>1
    <3>. QED
      BY <1>4, <3>2, PrefixIs
  <2>. QED
    BY <1>1, <2>1, <2>2, SeqEqual
<1>5. q = s => IsPrefix(q, s)
  BY PrefixItself
<1>. QED
  BY <1>3, <1>4, <1>5 DEF s
-----------------------------------------------------------------------------
(* What an entry is, and where the search for a name ends. *)
LEMMA EntryTyped ==
  ASSUME NEW v, Typed(v), NEW d \in Inums, v.inodes[d].size <= Most, NEW e \in 0 .. v.inodes[d].size - 1
  PROVE  EntryAt(v, d, e).name \in Names /\ EntryAt(v, d, e).inode \in Inums
<1>1. v.inodes[d].size \in Nat /\ v.inodes[d].direct \in [Slots -> Blocks]
  <2>1. v.inodes[d] \in Inode
    BY DEF Typed
  <2>2. v.inodes[d].size \in 0 .. Most + 1
    BY <2>1 DEF Inode, Most
  <2>. QED
    BY <2>1, <2>2, VolumeIs DEF Inode, Slots
<1>2. e \in 0 .. Most - 1
  BY <1>1, VolumeIs
<1>3. e \div PerBlock \in Slots /\ (e % PerBlock) + 1 \in 1 .. PerBlock
  BY <1>2, PlaceIs
<1>4. v.inodes[d].direct[e \div PerBlock] \in Blocks
  BY <1>1, <1>3
<1>5. EntryAt(v, d, e) \in EntrySet
  BY <1>3, <1>4 DEF EntryAt, Typed
<1>. QED
  BY <1>5 DEF EntrySet

(* A size is a number. *)
LEMMA SizeIsNat ==
  ASSUME NEW v, Typed(v), NEW d \in Inums
  PROVE  v.inodes[d].size \in Nat
<1>1. v.inodes[d].size \in 0 .. NumDirect * PerBlock + 1
  BY DEF Typed, Inode
<1>. QED
  BY <1>1, VolumeIs DEF Most

(* sfs_dir_lookup answers the inode of an entry with that name, or that there is none. *)
LEMMA DirLookupIs ==
  ASSUME NEW v, NEW d, NEW name, v.inodes[d].size \in Nat
  PROVE  \/ /\ DirLookup(v, d, name) = None
            /\ \A e \in 0 .. v.inodes[d].size - 1 : EntryAt(v, d, e).name # name
         \/ \E e \in 0 .. v.inodes[d].size - 1 :
              EntryAt(v, d, e).name = name /\ DirLookup(v, d, name) = EntryAt(v, d, e).inode
<1> DEFINE at == {k \in 0 .. v.inodes[d].size - 1 : EntryAt(v, d, k).name = name}
<1>1. CASE at = {}
  BY <1>1 DEF DirLookup
<1>2. CASE at # {}
  <2> DEFINE e == CHOOSE k \in at : \A j \in at : k <= j
  <2>1. at \in SUBSET Nat
    OBVIOUS
  <2>2. \E k \in at : \A j \in at : k <= j
    BY <1>2, <2>1, LeastExists
  <2>3. e \in at
    BY <2>2
  <2>4. DirLookup(v, d, name) = EntryAt(v, d, e).inode
    BY <1>2 DEF DirLookup
  <2> HIDE DEF e
  <2>. QED
    BY <2>3, <2>4
<1>. QED
  BY <1>1, <1>2

(* The inodes on the way along a path *)
Way(v, p, n, f) == f = [k \in 0 .. n |-> IF k = 0 THEN Root ELSE LookupIn(v, f[k - 1], p[k])]

(* The directories that a lookup meets, in order *)
LEMMA WayIs ==
  ASSUME NEW v, NEW p, NEW n \in Nat, NEW f, Way(v, p, n, f)
  PROVE  DOMAIN f = 0 .. n /\ f[0] = Root /\ \A k \in 1 .. n : f[k] = LookupIn(v, f[k - 1], p[k])
<1>1. DOMAIN f = 0 .. n
  BY DEF Way
<1>2. \A k \in 0 .. n : f[k] = IF k = 0 THEN Root ELSE LookupIn(v, f[k - 1], p[k])
  BY DEF Way
<1>. QED
  BY <1>1, <1>2

(* There is such a way: no least length of one fails. *)
LEMMA WayExists == ASSUME NEW v, NEW p, NEW n \in Nat PROVE \E f : Way(v, p, n, f)
<1> DEFINE S == {m \in Nat : ~\E f : Way(v, p, m, f)}
<1>1. S = {}
  <2>1. SUFFICES ASSUME S # {} PROVE FALSE
    OBVIOUS
  <2>2. PICK m \in S : \A j \in S : m <= j
    BY <2>1, LeastExists
  <2>3. m # 0
    <3> DEFINE f == [k \in 0 .. 0 |-> Root]
    <3>1. Way(v, p, 0, f)
      <4>1. \A k \in 0 .. 0 : k = 0
        OBVIOUS
      <4>. QED
        BY <4>1 DEF Way
    <3>. QED
      BY <2>2, <3>1
  <2>4. m \in Nat /\ m - 1 \in Nat /\ ~(m <= m - 1)
    BY <2>2, <2>3
  <2>5. PICK f : Way(v, p, m - 1, f)
    BY <2>2, <2>4
  <2> DEFINE e == [k \in 0 .. m |-> IF k = m THEN LookupIn(v, f[m - 1], p[m]) ELSE f[k]]
  <2>6. DOMAIN f = 0 .. m - 1 /\ f[0] = Root /\ \A k \in 1 .. m - 1 : f[k] = LookupIn(v, f[k - 1], p[k])
    BY <2>4, <2>5, WayIs
  <2>7. DOMAIN e = 0 .. m /\ (\A k \in 0 .. m - 1 : e[k] = f[k]) /\ e[m] = LookupIn(v, f[m - 1], p[m])
    BY <2>4
  <2>8. e = [k \in 0 .. m |-> e[k]]
    OBVIOUS
  <2> HIDE DEF e
  <2>9. ASSUME NEW k \in 0 .. m PROVE e[k] = IF k = 0 THEN Root ELSE LookupIn(v, e[k - 1], p[k])
    <3>1. CASE k = 0
      BY <2>4, <2>6, <2>7, <3>1
    <3>2. CASE k = m
      <4>1. m - 1 \in 0 .. m - 1
        BY <2>4
      <4>. QED
        BY <2>3, <2>7, <3>2, <4>1
    <3>3. CASE k # 0 /\ k # m
      <4>1. k \in 1 .. m - 1 /\ k \in 0 .. m - 1 /\ k - 1 \in 0 .. m - 1
        BY <2>4, <3>3
      <4>. QED
        BY <2>6, <2>7, <3>3, <4>1
    <3>. QED
      BY <3>1, <3>2, <3>3
  <2>10. Way(v, p, m, e)
    BY <2>8, <2>9 DEF Way
  <2>. QED
    BY <2>2, <2>10
<1>. QED
  BY <1>1

(* sfs_lookup goes that way. *)
LEMMA LookupIs ==
  ASSUME NEW v, NEW p \in Seq(Names)
  PROVE  \E f : Way(v, p, Len(p), f) /\ Lookup(v, p) = f[Len(p)]
<1> DEFINE f == CHOOSE f : Way(v, p, Len(p), f)
<1>1. Len(p) \in Nat
  BY LenProperties
<1>2. Way(v, p, Len(p), f)
  BY <1>1, WayExists
<1>3. Lookup(v, p) = f[Len(p)]
  BY DEF Lookup, Way
<1>. QED
  BY <1>2, <1>3

(* An inode, or none. *)
LEMMA LookupTyped ==
  ASSUME NEW v, Typed(v), InRange(v), NEW p \in Seq(Names)
  PROVE  Lookup(v, p) \in Inums \cup {None}
<1>1. PICK f : Way(v, p, Len(p), f) /\ Lookup(v, p) = f[Len(p)]
  BY LookupIs
<1>2. Len(p) \in Nat
  BY LenProperties
<1>3. DOMAIN f = 0 .. Len(p) /\ f[0] = Root /\ \A k \in 1 .. Len(p) : f[k] = LookupIn(v, f[k - 1], p[k])
  BY <1>1, <1>2, WayIs
<1>4. ASSUME NEW d \in Inums \cup {None}, NEW name PROVE LookupIn(v, d, name) \in Inums \cup {None}
  <2>1. CASE d = None
    BY <2>1 DEF LookupIn
  <2>2. CASE d # None
    <3>1. d \in Inums /\ v.inodes[d].size \in Nat /\ v.inodes[d].size <= Most
      BY <2>2, SizeIsNat DEF InRange
    <3>2. LookupIn(v, d, name) = DirLookup(v, d, name)
      BY <2>2 DEF LookupIn
    <3>3. CASE DirLookup(v, d, name) = None
      BY <3>2, <3>3
    <3>4. CASE \E e \in 0 .. v.inodes[d].size - 1 : DirLookup(v, d, name) = EntryAt(v, d, e).inode
      BY <3>1, <3>2, <3>4, EntryTyped
    <3>. QED
      BY <3>1, <3>3, <3>4, DirLookupIs
  <2>. QED
    BY <2>1, <2>2
<1> DEFINE S == {k \in 0 .. Len(p) : f[k] \notin Inums \cup {None}}
<1>5. S = {}
  <2>1. SUFFICES ASSUME S # {} PROVE FALSE
    OBVIOUS
  <2>2. S \in SUBSET Nat
    OBVIOUS
  <2>3. PICK k \in S : \A j \in S : k <= j
    BY <2>1, <2>2, LeastExists
  <2>4. k # 0
    BY <1>3, <2>3, VolumeIs
  <2>5. k \in 1 .. Len(p) /\ k - 1 \in 0 .. Len(p) /\ ~(k <= k - 1)
    BY <1>2, <2>3, <2>4
  <2>6. f[k - 1] \in Inums \cup {None}
    BY <2>3, <2>5
  <2>7. f[k] \in Inums \cup {None}
    BY <1>3, <1>4, <2>5, <2>6
  <2>. QED
    BY <2>3, <2>7
<1>6. Len(p) \in 0 .. Len(p)
  BY <1>2
<1>. QED
  BY <1>1, <1>5, <1>6
-----------------------------------------------------------------------------
(* The inode a path has, if it has one *)
Leads(nm, p, i) ==
  \/ p = <<>> /\ i = Root
  \/ i \in DOMAIN nm /\ nm[i] = p
  \/ i = None /\ p # <<>> /\ \A j \in DOMAIN nm : nm[j] # p

(* A directory is known by its path. *)
LEMMA OneDirectory ==
  ASSUME NEW v, NEW nm, NEW rm, NamesOK(v, nm, rm), Root \notin DOMAIN nm,
         NEW c \in Dirs(nm), NEW d \in Dirs(nm), PathOf(nm, c) = PathOf(nm, d)
  PROVE  c = d
BY DEF NamesOK, Dirs, PathOf

(* Names lead along paths. *)
LEMMA PathTyped ==
  ASSUME NEW v, NEW nm, NEW rm, NamesOK(v, nm, rm), NEW d \in Dirs(nm)
  PROVE  PathOf(nm, d) \in Seq(Names)
<1>1. CASE d = Root
  BY <1>1, EmptySeq DEF PathOf
<1>2. CASE d # Root
  BY <1>2 DEF PathOf, NamesOK, Dirs, Plain
<1>. QED
  BY <1>1, <1>2

(* One step along a path: from what its parent leads to. *)
LEMMA OneStep ==
  ASSUME NEW v, NEW nm, NEW rm, Typed(v), NamesOK(v, nm, rm), DOMAIN nm \subseteq Inums, Root \notin DOMAIN nm,
         \A i \in Dirs(nm) : v.inodes[i].size <= Most,
         NEW q \in Seq(Names), NEW n \in Names, n \notin Special, Append(q, n) \notin rm,
         NEW d, Leads(nm, q, d)
  PROVE  Leads(nm, Append(q, n), LookupIn(v, d, n))
<1> DEFINE p == Append(q, n)
<1>1. p \in Seq(Names) /\ p # <<>> /\ (\A s \in Seq(Names), m \in Names : p = Append(s, m) => s = q /\ m = n)
  BY AppendProperties, AppendInjective
<1>2. \A i \in Dirs(nm) : i \in Inums /\ v.inodes[i].size \in Nat
  BY SizeIsNat, VolumeIs DEF Dirs
<1>3. ASSUME NEW j \in DOMAIN nm, nm[j] = p
      PROVE  \E c \in Dirs(nm) : \E e \in 0 .. v.inodes[c].size - 1 : PathOf(nm, c) = q /\ EntryAt(v, c, e).name = n
  <2>0. PICK c \in Dirs(nm) : \E e \in 0 .. v.inodes[c].size - 1 : nm[j] = Append(PathOf(nm, c), EntryAt(v, c, e).name)
    BY DEF NamesOK
  <2>1. PICK e \in 0 .. v.inodes[c].size - 1 : nm[j] = Append(PathOf(nm, c), EntryAt(v, c, e).name)
    BY <2>0
  <2>2. PathOf(nm, c) \in Seq(Names) /\ EntryAt(v, c, e).name \in Names
    BY <1>2, PathTyped, EntryTyped
  <2>. QED
    BY <1>1, <1>3, <2>1, <2>2
<1> HIDE DEF p
<1>4. CASE d = None
  <2>1. d \notin Dirs(nm) /\ q # <<>> /\ \A j \in DOMAIN nm : nm[j] # q
    BY <1>4, VolumeIs DEF Leads, Dirs
  <2>2. \A c \in Dirs(nm) : PathOf(nm, c) # q
    BY <2>1 DEF PathOf, Dirs
  <2>3. \A j \in DOMAIN nm : nm[j] # p
    BY <1>3, <2>2
  <2>. QED
    BY <1>1, <1>4, <2>3 DEF Leads, LookupIn, p
<1>5. CASE d # None
  <2>1. d \in Dirs(nm) /\ PathOf(nm, d) = q
    BY <1>5, VolumeIs DEF Leads, Dirs, PathOf
  <2>2. LookupIn(v, d, n) = DirLookup(v, d, n)
    BY <1>5 DEF LookupIn
  <2>3. CASE DirLookup(v, d, n) = None /\ \A e \in 0 .. v.inodes[d].size - 1 : EntryAt(v, d, e).name # n
    <3>1. \A c \in Dirs(nm) : PathOf(nm, c) = q => c = d
      BY <2>1, OneDirectory
    <3>2. \A j \in DOMAIN nm : nm[j] # p
      BY <1>3, <2>3, <3>1
    <3>. QED
      BY <1>1, <2>2, <2>3, <3>2 DEF Leads, p
  <2>4. ASSUME NEW e \in 0 .. v.inodes[d].size - 1,
               EntryAt(v, d, e).name = n, DirLookup(v, d, n) = EntryAt(v, d, e).inode
        PROVE  Leads(nm, p, DirLookup(v, d, n))
    <3>1. EntryOK(nm, rm, d, EntryAt(v, d, e))
      BY <2>1 DEF NamesOK
    <3>. QED
      BY <2>1, <2>4, <3>1 DEF EntryOK, Leads, p
  <2>. QED
    BY <1>2, <2>1, <2>2, <2>3, <2>4, DirLookupIs DEF p
<1>. QED
  BY <1>4, <1>5

(* sfs_lookup finds what a path was given, if nothing on its way was removed. *)
LEMMA LookupFinds ==
  ASSUME NEW v, NEW nm, NEW rm, Typed(v), NamesOK(v, nm, rm), DOMAIN nm \subseteq Inums, Root \notin DOMAIN nm,
         \A i \in Dirs(nm) : v.inodes[i].size <= Most, rm \subseteq Seq(Names),
         NEW p \in Seq(Names), Plain(p), ~Through(rm, p)
  PROVE  Leads(nm, p, Lookup(v, p))
<1>1. PICK f : Way(v, p, Len(p), f) /\ Lookup(v, p) = f[Len(p)]
  BY LookupIs
<1>2. Len(p) \in Nat
  BY LenProperties
<1>3. DOMAIN f = 0 .. Len(p) /\ f[0] = Root /\ \A k \in 1 .. Len(p) : f[k] = LookupIn(v, f[k - 1], p[k])
  BY <1>1, <1>2, WayIs
<1> DEFINE S == {k \in 0 .. Len(p) : ~Leads(nm, SubSeq(p, 1, k), f[k])}
<1>4. S = {}
  <2>1. SUFFICES ASSUME S # {} PROVE FALSE
    OBVIOUS
  <2>2. S \in SUBSET Nat
    OBVIOUS
  <2>3. PICK k \in S : \A j \in S : k <= j
    BY <2>1, <2>2, LeastExists
  <2>4. k # 0
    <3>1. SubSeq(p, 1, 0) = <<>>
      BY SubSeqEmpty
    <3>. QED
      BY <1>3, <2>3, <3>1 DEF Leads
  <2>5. k \in 1 .. Len(p) /\ k - 1 \in 0 .. Len(p) /\ ~(k <= k - 1) /\ k \in 0 .. Len(p)
    BY <1>2, <2>3, <2>4
  <2> DEFINE q == SubSeq(p, 1, k - 1)
  <2>6. Leads(nm, q, f[k - 1])
    BY <2>3, <2>5
  <2>7. q \in Seq(Names) /\ p[k] \in Names /\ p[k] \notin Special /\ SubSeq(p, 1, k) = Append(q, p[k])
    BY <2>5, LenProperties, FirstNames, OneNameMore DEF Plain
  <2>8. Append(q, p[k]) \notin rm
    <3>1. SUFFICES ASSUME SubSeq(p, 1, k) \in rm PROVE FALSE
      BY <2>7
    <3>2. SubSeq(p, 1, k) \in Seq(Names)
      BY <2>5, FirstNames
    <3>3. IsPrefix(SubSeq(p, 1, k), p)
      BY <2>5, <3>2, PrefixItself, PrefixOfFirst
    <3>. QED
      BY <3>1, <3>3 DEF Through
  <2> HIDE DEF q
  <2>9. Leads(nm, Append(q, p[k]), LookupIn(v, f[k - 1], p[k]))
    BY <2>6, <2>7, <2>8, OneStep
  <2>. QED
    BY <1>3, <2>3, <2>5, <2>7, <2>9
<1>5. Len(p) \in 0 .. Len(p) /\ SubSeq(p, 1, Len(p)) = p
  BY <1>2, SubSeqFull
<1>. QED
  BY <1>1, <1>4, <1>5
-----------------------------------------------------------------------------
(* What the writes of a call make of the volume: nothing, as it is full; a *)
(* block more for a file; or an entry more for a directory, in block b.    *)
Rejected(v, w) ==
  /\ DOMAIN w = Fields /\ w.ok = FALSE
  /\ w.inodes = v.inodes /\ w.iused = v.iused /\ w.bused = v.bused /\ w.disk = v.disk
GotBlock(v, w, i, log, b) ==
  /\ DOMAIN w = Fields /\ w.ok = v.ok
  /\ w.inodes = [v.inodes EXCEPT ![i].direct[log] = b]
  /\ w.iused = v.iused /\ w.bused = v.bused \cup {b} /\ w.disk = v.disk
LastBlock(v, d) == v.inodes[d].size \div PerBlock
LastPlace(v, d) == (v.inodes[d].size % PerBlock) + 1
Grown(inode, log, b) == [type |-> inode.type, size |-> inode.size + 1, direct |-> [inode.direct EXCEPT ![log] = b]]
Appended(v, w, d, e, b, B) ==
  /\ DOMAIN w = Fields /\ w.ok = v.ok
  /\ w.inodes = [v.inodes EXCEPT ![d] = Grown(v.inodes[d], LastBlock(v, d), b)]
  /\ w.iused = v.iused /\ w.bused = B
  /\ w.disk = [v.disk EXCEPT ![b] = [v.disk[b] EXCEPT ![LastPlace(v, d)] = e]]
Takes(v, d, b, B) ==
  \/ /\ v.inodes[d].size = 0 \/ v.inodes[d].direct[LastBlock(v, d)] = 0
     /\ b \in Blocks \ v.bused /\ B = v.bused \cup {b}
  \/ /\ v.inodes[d].size # 0 /\ v.inodes[d].direct[LastBlock(v, d)] # 0
     /\ b = v.inodes[d].direct[LastBlock(v, d)] /\ B = v.bused

(* The parts of an inode *)
LEMMA InodeTyped ==
  ASSUME NEW v, Typed(v), NEW i \in Inums
  PROVE  /\ v.inodes[i] = [type |-> v.inodes[i].type, size |-> v.inodes[i].size, direct |-> v.inodes[i].direct]
         /\ v.inodes[i].type \in {"FT_NORMAL", "FT_DIR"} /\ v.inodes[i].size \in 0 .. Most + 1
         /\ v.inodes[i].direct \in [Slots -> Blocks] /\ v.inodes[i].size \in Nat
<1>1. v.inodes[i] \in Inode
  BY DEF Typed
<1>2. v.inodes[i].size \in Nat
  BY SizeIsNat
<1>. QED
  BY <1>1, <1>2 DEF Inode, Most, Slots

(* There is no block, or one that was free is taken. *)
LEMMA AllocatedIs ==
  ASSUME NEW v, Typed(v), NEW i \in Inums, NEW log \in Slots
  PROVE  \/ Blocks \subseteq v.bused /\ Rejected(v, Allocated(v, i, log))
         \/ \E b \in Blocks \ v.bused : GotBlock(v, Allocated(v, i, log), i, log, b)
<1> DEFINE b == FirstCleared(v.bused, super.num_blocks)
<1>1. super.num_blocks \in Nat /\ Blocks = 0 .. super.num_blocks - 1
  BY SuperIs DEF Blocks
<1>2. (b = None /\ Blocks \subseteq v.bused) \/ (b \in Blocks \ v.bused /\ b # None)
  BY <1>1, FirstClearedIs
<1>3. DOMAIN v = Fields
  BY DEF Typed
<1>4. CASE b = None
  <2>1. Allocated(v, i, log) = [v EXCEPT !.ok = FALSE]
    BY <1>4 DEF Allocated
  <2>2. Rejected(v, [v EXCEPT !.ok = FALSE])
    BY <1>3 DEF Rejected, Fields
  <2>. QED
    BY <1>2, <1>4, <2>1, <2>2
<1>5. CASE b # None
  <2>1. Allocated(v, i, log) = [v EXCEPT !.bused = @ \cup {b}, !.inodes[i].direct[log] = b]
    BY <1>5 DEF Allocated
  <2> HIDE DEF b
  <2>2. GotBlock(v, [v EXCEPT !.bused = @ \cup {b}, !.inodes[i].direct[log] = b], i, log, b)
    BY <1>3 DEF GotBlock, Fields
  <2>. QED
    BY <1>2, <1>5, <2>1, <2>2
<1>. QED
  BY <1>4, <1>5

(* The volume after a block was taken *)
LEMMA GotTyped ==
  ASSUME NEW v, Typed(v), NEW i \in Inums, NEW log \in Slots, NEW b \in Blocks, NEW w, GotBlock(v, w, i, log, b)
  PROVE  /\ Typed(w) /\ w.inodes[i].type = v.inodes[i].type /\ w.inodes[i].size = v.inodes[i].size
         /\ w.inodes[i].direct = [v.inodes[i].direct EXCEPT ![log] = b]
         /\ \A j \in Inums \ {i} : w.inodes[j] = v.inodes[j]
<1>1. /\ DOMAIN v.inodes = Inums
      /\ v.inodes[i] = [type |-> v.inodes[i].type, size |-> v.inodes[i].size, direct |-> v.inodes[i].direct]
      /\ v.inodes[i].direct \in [Slots -> Blocks]
  BY InodeTyped DEF Typed
<1> DEFINE x == [v.inodes[i] EXCEPT !.direct[log] = b]
<1>2. w.inodes = [v.inodes EXCEPT ![i] = x]
  BY DEF GotBlock
<1>3. x = [type |-> v.inodes[i].type, size |-> v.inodes[i].size, direct |-> [v.inodes[i].direct EXCEPT ![log] = b]]
  BY <1>1
<1>4. [v.inodes[i].direct EXCEPT ![log] = b] \in [Slots -> Blocks]
  BY <1>1
<1>5. x \in Inode
  <2>1. v.inodes[i] \in Inode
    BY DEF Typed
  <2>. QED
    BY <1>3, <1>4, <2>1 DEF Inode, Slots
<1> HIDE DEF x
<1>6. w.inodes[i] = x /\ \A j \in Inums \ {i} : w.inodes[j] = v.inodes[j]
  BY <1>1, <1>2
<1>7. w.inodes \in [Inums -> Inode]
  BY <1>2, <1>5 DEF Typed
<1>8. Typed(w)
  BY <1>7 DEF Typed, GotBlock
<1>. QED
  BY <1>3, <1>6, <1>8

(* sfs_write of an entry, opened to append *)
LEMMA WithEntryIs ==
  ASSUME NEW v, Typed(v), v.ok, NEW d \in Inums, v.inodes[d].size < Most, NEW e \in EntrySet
  PROVE  \/ Blocks \subseteq v.bused /\ Rejected(v, WithEntry(v, d, e))
         \/ \E b \in Blocks, B \in SUBSET Blocks : Takes(v, d, b, B) /\ Appended(v, WithEntry(v, d, e), d, e, b, B)
<1> DEFINE size == v.inodes[d].size
           log == LastBlock(v, d)
           place == LastPlace(v, d)
           needs == size = 0 \/ v.inodes[d].direct[log] = 0
           w == IF needs THEN Allocated(v, d, log) ELSE v
           u == [w EXCEPT !.disk[w.inodes[d].direct[log]][place] = e, !.inodes[d].size = @ + 1]
<1>1. WithEntry(v, d, e) = IF ~w.ok THEN w ELSE u
  BY DEF WithEntry, LastBlock, LastPlace
<1>2. size \in Nat /\ size \in 0 .. Most - 1
  <2>1. size \in Nat
    BY InodeTyped
  <2>. QED
    BY <2>1, VolumeIs
<1>3. log \in Slots /\ place \in 1 .. PerBlock
  BY <1>2, PlaceIs DEF LastBlock, LastPlace
<1>4. v.inodes[d] = [type |-> v.inodes[d].type, size |-> size, direct |-> v.inodes[d].direct]
      /\ v.inodes[d].direct \in [Slots -> Blocks]
  BY InodeTyped
<1> HIDE DEF place
<1>5. ASSUME NEW b \in Blocks, NEW B, w.ok = TRUE, Typed(w), w.iused = v.iused, w.bused = B, w.disk = v.disk,
             w.inodes[d].direct = [v.inodes[d].direct EXCEPT ![log] = b], w.inodes[d].direct[log] = b,
             w.inodes[d].type = v.inodes[d].type, w.inodes[d].size = size,
             \A j \in Inums \ {d} : w.inodes[j] = v.inodes[j]
      PROVE  Appended(v, WithEntry(v, d, e), d, e, b, B)
  <2> HIDE DEF w
  <2>1. WithEntry(v, d, e) = [w EXCEPT !.disk[b][place] = e, !.inodes[d].size = @ + 1]
    BY <1>1, <1>5
  <2>2. DOMAIN w = Fields /\ DOMAIN w.disk = Blocks /\ DOMAIN w.inodes = Inums /\ DOMAIN v.inodes = Inums
    BY <1>5 DEF Typed
  <2>3. w.inodes[d] = [type |-> v.inodes[d].type, size |-> size, direct |-> [v.inodes[d].direct EXCEPT ![log] = b]]
    BY <1>5, InodeTyped
  <2> DEFINE t == [w EXCEPT !.disk[b][place] = e, !.inodes[d].size = @ + 1]
  <2>4. DOMAIN t = Fields /\ t.ok = w.ok /\ t.iused = w.iused /\ t.bused = w.bused
    BY <2>2 DEF Fields
  <2>5. t.disk = [w.disk EXCEPT ![b] = [w.disk[b] EXCEPT ![place] = e]]
    BY <2>2 DEF Fields
  <2>6. t.inodes = [w.inodes EXCEPT ![d] = [w.inodes[d] EXCEPT !.size = @ + 1]]
    BY <2>2 DEF Fields
  <2> HIDE DEF t
  <2>7. [w.inodes[d] EXCEPT !.size = @ + 1] = Grown(v.inodes[d], log, b)
    BY <2>3 DEF Grown
  <2>8. t.inodes = [v.inodes EXCEPT ![d] = Grown(v.inodes[d], log, b)]
    <3>1. DOMAIN t.inodes = Inums /\ t.inodes[d] = Grown(v.inodes[d], log, b)
      BY <2>2, <2>6, <2>7
    <3>2. \A j \in Inums \ {d} : t.inodes[j] = v.inodes[j]
      BY <1>5, <2>2, <2>6
    <3>3. t.inodes = [j \in Inums |-> t.inodes[j]]
      BY <2>2, <2>6
    <3>. QED
      BY <2>2, <3>1, <3>2, <3>3
  <2>9. t.disk = [v.disk EXCEPT ![b] = [v.disk[b] EXCEPT ![LastPlace(v, d)] = e]]
    BY <1>5, <2>5 DEF place
  <2>. QED
    BY <1>5, <2>1, <2>4, <2>8, <2>9 DEF Appended, t
<1>6. CASE needs
  <2>1. w = Allocated(v, d, log)
    BY <1>6
  <2> HIDE DEF w
  <2>2. CASE Blocks \subseteq v.bused /\ Rejected(v, w)
    BY <1>1, <2>2 DEF Rejected
  <2>3. ASSUME NEW b \in Blocks \ v.bused, GotBlock(v, w, d, log, b)
        PROVE  \E B \in SUBSET Blocks : Takes(v, d, b, B) /\ Appended(v, WithEntry(v, d, e), d, e, b, B)
    <3> DEFINE B == v.bused \cup {b}
    <3>1. /\ Typed(w) /\ w.inodes[d].type = v.inodes[d].type /\ w.inodes[d].size = v.inodes[d].size
          /\ w.inodes[d].direct = [v.inodes[d].direct EXCEPT ![log] = b]
          /\ \A j \in Inums \ {d} : w.inodes[j] = v.inodes[j]
      BY <1>3, <2>3, GotTyped
    <3>2. w.inodes[d].direct[log] = b
      BY <1>3, <1>4, <3>1
    <3>3. w.ok = TRUE /\ w.iused = v.iused /\ w.bused = v.bused \cup {b} /\ w.disk = v.disk
      BY <2>3 DEF GotBlock, Typed
    <3>4. Appended(v, WithEntry(v, d, e), d, e, b, B)
      BY <1>5, <3>1, <3>2, <3>3
    <3>5. B \in SUBSET Blocks
      BY DEF Typed
    <3>. QED
      BY <1>6, <3>4, <3>5 DEF Takes
  <2>4. \/ Blocks \subseteq v.bused /\ Rejected(v, w)
        \/ \E b \in Blocks \ v.bused : GotBlock(v, w, d, log, b)
    BY <1>3, <2>1, AllocatedIs
  <2>. QED
    BY <2>2, <2>3, <2>4
<1>7. CASE ~needs
  <2> DEFINE b == v.inodes[d].direct[log]
  <2>1. w = v
    BY <1>7
  <2> HIDE DEF w
  <2>2. b \in Blocks /\ v.bused \in SUBSET Blocks
    BY <1>3, <1>4 DEF Typed
  <2>3. v.inodes[d].direct = [v.inodes[d].direct EXCEPT ![log] = b]
    BY <1>4
  <2>4. Appended(v, WithEntry(v, d, e), d, e, b, v.bused)
    BY <1>5, <2>1, <2>2, <2>3
  <2>. QED
    BY <1>7, <2>2, <2>4 DEF Takes
<1>. QED
  BY <1>6, <1>7
-----------------------------------------------------------------------------
(* The volume after an entry was appended *)
LEMMA AppendedTyped ==
  ASSUME NEW v, Typed(v), NEW d \in Inums, v.inodes[d].size < Most, NEW e \in EntrySet, NEW b \in Blocks,
         NEW B \in SUBSET Blocks, NEW w, Appended(v, w, d, e, b, B)
  PROVE  /\ Typed(w) /\ w.inodes[d] = Grown(v.inodes[d], LastBlock(v, d), b)
         /\ \A j \in Inums \ {d} : w.inodes[j] = v.inodes[j]
<1>1. LastBlock(v, d) \in Slots /\ LastPlace(v, d) \in 1 .. PerBlock /\ v.inodes[d].size + 1 \in 0 .. Most + 1
  <2>1. v.inodes[d].size \in Nat
    BY InodeTyped
  <2>2. v.inodes[d].size \in 0 .. Most - 1 /\ v.inodes[d].size + 1 \in 0 .. Most + 1
    BY <2>1, VolumeIs
  <2>. QED
    BY <2>2, PlaceIs DEF LastBlock, LastPlace
<1> DEFINE x == Grown(v.inodes[d], LastBlock(v, d), b)
<1>2. x \in Inode
  <2>1. [v.inodes[d].direct EXCEPT ![LastBlock(v, d)] = b] \in [Slots -> Blocks]
    BY <1>1, InodeTyped
  <2>2. v.inodes[d].type \in {"FT_NORMAL", "FT_DIR"}
    BY InodeTyped
  <2>. QED
    BY <1>1, <2>1, <2>2 DEF Grown, Inode, Slots, Most
<1>3. DOMAIN v.inodes = Inums /\ v.inodes \in [Inums -> Inode] /\ v.disk \in [Blocks -> [1 .. PerBlock -> EntrySet]]
      /\ v.iused \subseteq Inums
  BY DEF Typed
<1> HIDE DEF x
<1>4. w.inodes = [v.inodes EXCEPT ![d] = x]
  BY DEF Appended, x
<1>5. w.inodes \in [Inums -> Inode] /\ w.inodes[d] = x /\ \A j \in Inums \ {d} : w.inodes[j] = v.inodes[j]
  BY <1>2, <1>3, <1>4
<1>6. [v.disk[b] EXCEPT ![LastPlace(v, d)] = e] \in [1 .. PerBlock -> EntrySet]
  BY <1>1, <1>3
<1>7. w.disk \in [Blocks -> [1 .. PerBlock -> EntrySet]]
  BY <1>3, <1>6 DEF Appended
<1>8. Typed(w)
  BY <1>3, <1>5, <1>7 DEF Typed, Appended
<1>. QED
  BY <1>5, <1>8 DEF x

(* A new file in directory d, and its entry in block b *)
Made(v, w, d, i, e, b, B) ==
  /\ w.ok = TRUE /\ w.iused = v.iused \cup {i} /\ w.bused = B
  /\ w.inodes[i] = NewInode
  /\ d # i => w.inodes[d] = Grown(v.inodes[d], LastBlock(v, d), b)
  /\ \A j \in Inums \ {d, i} : w.inodes[j] = v.inodes[j]
  /\ w.disk = [v.disk EXCEPT ![b] = [v.disk[b] EXCEPT ![LastPlace(v, d)] = e]]
(* A new file that got no entry, as the volume is full *)
Spilled(v, w, i) ==
  /\ Blocks \subseteq v.bused
  /\ w.ok = FALSE /\ w.iused = v.iused \cup {i} /\ w.bused = v.bused /\ w.disk = v.disk
  /\ w.inodes[i] = NewInode /\ \A j \in Inums \ {i} : w.inodes[j] = v.inodes[j]

(* The inode of a new file is one. *)
LEMMA NewInodeTyped == NewInode \in Inode
<1>1. NoBlocks \in [Slots -> Blocks]
  BY VolumeIs DEF NoBlocks, Slots
<1>2. 0 \in 0 .. NumDirect * PerBlock + 1
  BY VolumeIs DEF Most
<1>. QED
  BY <1>1, <1>2 DEF NewInode, Inode, Slots

(* The inode that sfs_creat takes *)
LEMMA InodeTaken ==
  ASSUME NEW v, FirstCleared(v.iused, super.num_inodes) # None
  PROVE  FirstCleared(v.iused, super.num_inodes) \in Inums \ v.iused
<1>1. super.num_inodes \in Nat /\ Inums = 0 .. super.num_inodes - 1
  BY SuperIs DEF Inums
<1>. QED
  BY <1>1, FirstClearedIs

(* sfs_creat makes the file, or runs out of blocks. *)
LEMMA CreatedIs ==
  ASSUME NEW v, Typed(v), v.ok, NEW d \in Inums, v.inodes[d].size < Most, NEW name \in Names,
         NEW i \in Inums, i = FirstCleared(v.iused, super.num_inodes), NEW w, w = Created(v, d, name)
  PROVE  /\ Typed(w)
         /\ \/ Spilled(v, w, i)
            \/ \E b \in Blocks, B \in SUBSET Blocks : Takes(v, d, b, B) /\ Made(v, w, d, i, Entry(name, i), b, B)
<1> DEFINE u == [v EXCEPT !.iused = @ \cup {i}]
           e == Entry(name, i)
           t == WithEntry(u, d, e)
<1>1. w = [t EXCEPT !.inodes[i] = NewInode]
  BY DEF Created
<1>2. DOMAIN v = Fields /\ DOMAIN v.inodes = Inums
  BY DEF Typed
<1>3. /\ DOMAIN u = Fields /\ u.ok = v.ok /\ u.inodes = v.inodes /\ u.iused = v.iused \cup {i}
      /\ u.bused = v.bused /\ u.disk = v.disk
  BY <1>2 DEF Fields
<1> HIDE DEF u
<1>4. Typed(u)
  BY <1>3 DEF Typed
<1>5. e \in EntrySet
  BY DEF Entry, EntrySet
<1>6. v.ok = TRUE
  BY DEF Typed
<1> HIDE DEF e, t
<1>7. ASSUME DOMAIN t = Fields, DOMAIN t.inodes = Inums
      PROVE  /\ DOMAIN w = Fields /\ w.ok = t.ok /\ w.iused = t.iused /\ w.bused = t.bused /\ w.disk = t.disk
             /\ w.inodes = [t.inodes EXCEPT ![i] = NewInode]
             /\ w.inodes[i] = NewInode /\ \A j \in Inums \ {i} : w.inodes[j] = t.inodes[j]
  <2>1. /\ DOMAIN w = Fields /\ w.ok = t.ok /\ w.iused = t.iused /\ w.bused = t.bused /\ w.disk = t.disk
        /\ w.inodes = [t.inodes EXCEPT ![i] = NewInode]
    BY <1>1, <1>7 DEF Fields
  <2>. QED
    BY <1>7, <2>1
<1>8. ASSUME Typed(t), DOMAIN w = Fields, w.ok = t.ok, w.iused = t.iused, w.bused = t.bused, w.disk = t.disk,
             w.inodes = [t.inodes EXCEPT ![i] = NewInode]
      PROVE  Typed(w)
  <2>1. w.inodes \in [Inums -> Inode]
    BY <1>8, NewInodeTyped DEF Typed
  <2>. QED
    BY <1>8, <2>1 DEF Typed
<1>9. u.ok /\ u.inodes[d].size < Most
  BY <1>3
<1>10. CASE Blocks \subseteq u.bused /\ Rejected(u, t)
  <2>1. Typed(t)
    BY <1>4, <1>10 DEF Rejected, Typed
  <2>2. DOMAIN t = Fields /\ DOMAIN t.inodes = Inums
    BY <2>1 DEF Typed
  <2>3. Spilled(v, w, i)
    BY <1>3, <1>7, <1>10, <2>2 DEF Spilled, Rejected
  <2>. QED
    BY <1>7, <1>8, <2>1, <2>2, <2>3
<1>11. ASSUME NEW b \in Blocks, NEW B \in SUBSET Blocks, Takes(u, d, b, B), Appended(u, t, d, e, b, B)
       PROVE  Typed(w) /\ Takes(v, d, b, B) /\ Made(v, w, d, i, e, b, B)
  <2>1. /\ Typed(t) /\ t.inodes[d] = Grown(u.inodes[d], LastBlock(u, d), b)
        /\ \A j \in Inums \ {d} : t.inodes[j] = u.inodes[j]
    BY <1>4, <1>5, <1>11, <1>9, AppendedTyped
  <2>2. DOMAIN t = Fields /\ DOMAIN t.inodes = Inums
    BY <2>1 DEF Typed
  <2>3. LastBlock(u, d) = LastBlock(v, d) /\ LastPlace(u, d) = LastPlace(v, d)
    BY <1>3 DEF LastBlock, LastPlace
  <2>4. Takes(v, d, b, B)
    BY <1>3, <1>11, <2>3 DEF Takes
  <2>5. t.ok = TRUE /\ t.iused = v.iused \cup {i} /\ t.bused = B
        /\ t.disk = [v.disk EXCEPT ![b] = [v.disk[b] EXCEPT ![LastPlace(v, d)] = e]]
    BY <1>3, <1>6, <1>11, <2>3 DEF Appended
  <2>6. Made(v, w, d, i, e, b, B)
    BY <1>3, <1>7, <2>1, <2>2, <2>3, <2>5 DEF Made
  <2>. QED
    BY <1>7, <1>8, <2>1, <2>2, <2>4, <2>6
<1>12. \/ Blocks \subseteq u.bused /\ Rejected(u, t)
       \/ \E b \in Blocks, B \in SUBSET Blocks : Takes(u, d, b, B) /\ Appended(u, t, d, e, b, B)
  BY <1>4, <1>5, <1>9, WithEntryIs DEF t
<1>. QED
  BY <1>10, <1>11, <1>12 DEF e
-----------------------------------------------------------------------------
(* Directory d has m entries now, the new ones in block b. *)
Extends(v, w, d, m, b) ==
  LET size == v.inodes[d].size
      log == LastBlock(v, d)
  IN /\ w.iused = v.iused /\ w.bused = v.bused \cup {b}
     /\ w.inodes[d].type = "FT_DIR" /\ w.inodes[d].size = m
     /\ w.inodes[d].direct = [v.inodes[d].direct EXCEPT ![log] = b]
     /\ \A j \in v.iused \ {d} : w.inodes[j] = v.inodes[j]
     /\ \/ v.inodes[d].direct[log] = 0 /\ b \in Blocks \ v.bused
        \/ v.inodes[d].direct[log] = b /\ b # 0
     /\ \A c \in Blocks \ {b} : w.disk[c] = v.disk[c]
     /\ m \in size + 1 .. Most /\ \A e \in size .. m - 1 : e \div PerBlock = log
     /\ \A e \in 0 .. Most - 1 : e \notin size .. m - 1 /\ e \div PerBlock = log
                                   => w.disk[b][(e % PerBlock) + 1] = v.disk[b][(e % PerBlock) + 1]
Whole(v) == SizesOK(v) /\ OwnersOK(v) /\ CleanOK(v)

(* The block is nobody else's. *)
LEMMA ExtendsOwn ==
  ASSUME NEW v, Typed(v), Whole(v), NEW d \in v.iused, NEW w, NEW m, NEW b, Extends(v, w, d, m, b)
  PROVE  /\ LastBlock(v, d) \in Slots /\ v.inodes[d].size \in 0 .. Most - 1 /\ m \in Nat
         /\ b \in Blocks /\ b # 0 /\ b \notin Tables
         /\ \A j \in v.iused, k \in Slots : v.inodes[j].direct[k] = b => j = d /\ k = LastBlock(v, d)
         /\ \A k \in Slots : w.inodes[d].direct[k] = IF k = LastBlock(v, d) THEN b ELSE v.inodes[d].direct[k]
<1> DEFINE log == LastBlock(v, d)
<1>1. d \in Inums /\ v.iused \subseteq Inums
  BY DEF Typed
<1>2. v.inodes[d].size \in Nat /\ v.inodes[d].direct \in [Slots -> Blocks]
  BY <1>1, InodeTyped
<1>3. m \in v.inodes[d].size + 1 .. Most
  BY DEF Extends
<1>4. v.inodes[d].size \in 0 .. Most - 1 /\ m \in Nat
  BY <1>2, <1>3, VolumeIs
<1>5. log \in Slots
  BY <1>4, PlaceIs DEF LastBlock
<1>6. OwnersOK(v)
  BY DEF Whole
<1>7. /\ \A i, j \in v.iused : \A k, l \in Slots :
           v.inodes[i].direct[k] # 0 /\ v.inodes[i].direct[k] = v.inodes[j].direct[l] => i = j /\ k = l
      /\ \A i \in v.iused : \A k \in Slots : v.inodes[i].direct[k] # 0 => v.inodes[i].direct[k] \notin Tables
      /\ \A c \in Blocks : c \in v.bused <=> c \in Tables \/ \E i \in v.iused : \E k \in Slots : v.inodes[i].direct[k] = c
  BY <1>6 DEF OwnersOK
<1>8. /\ \/ v.inodes[d].direct[log] = 0 /\ b \in Blocks \ v.bused
         \/ v.inodes[d].direct[log] = b /\ b # 0
      /\ w.inodes[d].direct = [v.inodes[d].direct EXCEPT ![log] = b]
  BY DEF Extends
<1> HIDE DEF log
<1>9. \A k \in Slots : w.inodes[d].direct[k] = IF k = log THEN b ELSE v.inodes[d].direct[k]
  BY <1>2, <1>5, <1>8
<1>10. /\ b \in Blocks /\ b # 0 /\ b \notin Tables
       /\ \A j \in v.iused, k \in Slots : v.inodes[j].direct[k] = b => j = d /\ k = log
  <2>1. CASE v.inodes[d].direct[log] = 0 /\ b \in Blocks \ v.bused
    <3>1. b \notin Tables /\ \A j \in v.iused, k \in Slots : v.inodes[j].direct[k] # b
      BY <1>7, <2>1
    <3>. QED
      BY <2>1, <3>1, VolumeIs
  <2>2. CASE v.inodes[d].direct[log] = b /\ b # 0
    <3>1. b \in Blocks
      BY <1>2, <1>5, <2>2
    <3>. QED
      BY <1>5, <1>7, <2>2, <3>1
  <2>. QED
    BY <1>8, <2>1, <2>2
<1>. QED
  BY <1>4, <1>5, <1>9, <1>10 DEF log

(* Every other entry is as it was. *)
LEMMA ExtendsKeeps ==
  ASSUME NEW v, Typed(v), Whole(v), NEW d \in v.iused, NEW w, NEW m, NEW b, Extends(v, w, d, m, b),
         NEW c \in v.iused, NEW e \in 0 .. Most - 1, c = d => e \notin v.inodes[d].size .. m - 1,
         v.inodes[c].direct[e \div PerBlock] # 0
  PROVE  EntryAt(w, c, e) = EntryAt(v, c, e) /\ w.inodes[c].direct[e \div PerBlock] = v.inodes[c].direct[e \div PerBlock]
<1> DEFINE q == e \div PerBlock
           r == (e % PerBlock) + 1
<1>1. q \in Slots /\ c \in Inums
  BY PlaceIs DEF Typed
<1>2. v.inodes[c].direct[q] \in Blocks
  <2>1. v.inodes[c].direct \in [Slots -> Blocks]
    BY <1>1, InodeTyped
  <2>. QED
    BY <1>1, <2>1
<1>3. /\ LastBlock(v, d) \in Slots
      /\ \A j \in v.iused, k \in Slots : v.inodes[j].direct[k] = b => j = d /\ k = LastBlock(v, d)
      /\ \A k \in Slots : w.inodes[d].direct[k] = IF k = LastBlock(v, d) THEN b ELSE v.inodes[d].direct[k]
  BY ExtendsOwn
<1>4. /\ \A j \in v.iused \ {d} : w.inodes[j] = v.inodes[j]
      /\ \A x \in Blocks \ {b} : w.disk[x] = v.disk[x]
      /\ v.inodes[d].direct[LastBlock(v, d)] # 0 => v.inodes[d].direct[LastBlock(v, d)] = b
      /\ e \notin v.inodes[d].size .. m - 1 /\ q = LastBlock(v, d) => w.disk[b][r] = v.disk[b][r]
  BY DEF Extends
<1>5. EntryAt(v, c, e) = v.disk[v.inodes[c].direct[q]][r] /\ EntryAt(w, c, e) = w.disk[w.inodes[c].direct[q]][r]
  BY DEF EntryAt
<1>6. v.inodes[c].direct[q] # 0
  OBVIOUS
<1> HIDE DEF q, r
<1>7. ASSUME c = d, q = LastBlock(v, d)
      PROVE  w.inodes[c].direct[q] = v.inodes[c].direct[q] /\ EntryAt(w, c, e) = EntryAt(v, c, e)
  <2>1. w.inodes[c].direct[q] = b /\ v.inodes[c].direct[q] = b
    BY <1>1, <1>3, <1>4, <1>6, <1>7
  <2>2. w.disk[b][r] = v.disk[b][r]
    BY <1>4, <1>7
  <2>. QED
    BY <1>5, <2>1, <2>2
<1>8. ASSUME ~(c = d /\ q = LastBlock(v, d))
      PROVE  w.inodes[c].direct[q] = v.inodes[c].direct[q] /\ EntryAt(w, c, e) = EntryAt(v, c, e)
  <2>1. w.inodes[c].direct[q] = v.inodes[c].direct[q]
    BY <1>1, <1>3, <1>4, <1>8
  <2>2. v.inodes[c].direct[q] # b
    BY <1>1, <1>3, <1>8
  <2>. QED
    BY <1>2, <1>4, <1>5, <2>1, <2>2
<1>. QED
  BY <1>7, <1>8 DEF q

(* A directory that grows has the blocks it needs. *)
LEMMA ExtendsSizes ==
  ASSUME NEW v, Typed(v), Whole(v), NEW d \in v.iused, NEW w, NEW m, NEW b, Extends(v, w, d, m, b)
  PROVE  SizesOK(w)
<1>1. /\ LastBlock(v, d) \in Slots /\ v.inodes[d].size \in 0 .. Most - 1 /\ b # 0 /\ m \in Nat
      /\ \A k \in Slots : w.inodes[d].direct[k] = IF k = LastBlock(v, d) THEN b ELSE v.inodes[d].direct[k]
  BY ExtendsOwn
<1>2. /\ w.iused = v.iused /\ w.inodes[d].type = "FT_DIR" /\ w.inodes[d].size = m
      /\ \A j \in v.iused \ {d} : w.inodes[j] = v.inodes[j]
      /\ m \in v.inodes[d].size + 1 .. Most
      /\ \A e \in v.inodes[d].size .. m - 1 : e \div PerBlock = LastBlock(v, d)
  BY DEF Extends
<1>3. SizesOK(v)
  BY DEF Whole
<1>4. ASSUME NEW j \in v.iused \ {d}
      PROVE  /\ w.inodes[j].size <= Most
             /\ w.inodes[j].type = "FT_NORMAL" => w.inodes[j].size = 0
             /\ \A k \in Slots : w.inodes[j].direct[k] # 0 <=> \E e \in 0 .. w.inodes[j].size - 1 : e \div PerBlock = k
  BY <1>2, <1>3 DEF SizesOK
<1>5. ASSUME NEW k \in Slots
      PROVE  w.inodes[d].direct[k] # 0 <=> \E e \in 0 .. m - 1 : e \div PerBlock = k
  <2> DEFINE size == v.inodes[d].size
  <2>1. v.inodes[d].direct[k] # 0 <=> \E e \in 0 .. size - 1 : e \div PerBlock = k
    BY <1>3 DEF SizesOK
  <2>2. size \in Nat /\ m \in Nat /\ size < m /\ size \div PerBlock = LastBlock(v, d)
    BY <1>1, <1>2 DEF LastBlock
  <2>3. \A e \in size .. m - 1 : e \div PerBlock = LastBlock(v, d)
    BY <1>2
  <2> HIDE DEF size
  <2>4. CASE k = LastBlock(v, d)
    <3>1. size \in 0 .. m - 1
      BY <2>2
    <3>. QED
      BY <1>1, <2>2, <2>4, <3>1
  <2>5. CASE k # LastBlock(v, d)
    <3>1. \A e \in 0 .. m - 1 : e \div PerBlock = k => e \in 0 .. size - 1
      BY <2>2, <2>3, <2>5
    <3>2. \A e \in 0 .. size - 1 : e \in 0 .. m - 1
      BY <2>2
    <3>. QED
      BY <1>1, <2>1, <2>5, <3>1, <3>2
  <2>. QED
    BY <2>4, <2>5
<1>6. m <= Most
  BY <1>1, <1>2, VolumeIs
<1>. QED
  BY <1>2, <1>4, <1>5, <1>6 DEF SizesOK

(* Its new block had no owner. *)
LEMMA ExtendsOwners ==
  ASSUME NEW v, Typed(v), Whole(v), NEW d \in v.iused, NEW w, NEW m, NEW b, Extends(v, w, d, m, b)
  PROVE  OwnersOK(w)
<1> DEFINE log == LastBlock(v, d)
<1>1. /\ log \in Slots /\ b \in Blocks /\ b # 0 /\ b \notin Tables
      /\ \A j \in v.iused, k \in Slots : v.inodes[j].direct[k] = b => j = d /\ k = log
      /\ \A k \in Slots : w.inodes[d].direct[k] = IF k = log THEN b ELSE v.inodes[d].direct[k]
  BY ExtendsOwn
<1>2. /\ w.iused = v.iused /\ w.bused = v.bused \cup {b}
      /\ \A j \in v.iused \ {d} : w.inodes[j] = v.inodes[j]
      /\ v.inodes[d].direct[log] = 0 \/ v.inodes[d].direct[log] = b
  BY DEF Extends
<1>3. OwnersOK(v)
  BY DEF Whole
<1>4. /\ \A i, j \in v.iused : \A k, l \in Slots :
           v.inodes[i].direct[k] # 0 /\ v.inodes[i].direct[k] = v.inodes[j].direct[l] => i = j /\ k = l
      /\ \A i \in v.iused : \A k \in Slots : v.inodes[i].direct[k] # 0 => v.inodes[i].direct[k] \notin Tables
      /\ \A c \in Blocks : c \in v.bused <=> c \in Tables \/ \E i \in v.iused : \E k \in Slots : v.inodes[i].direct[k] = c
  BY <1>3 DEF OwnersOK
<1> HIDE DEF log
<1>5. \A j \in v.iused, k \in Slots :
        w.inodes[j].direct[k] = IF j = d /\ k = log THEN b ELSE v.inodes[j].direct[k]
  BY <1>1, <1>2
<1>6. ASSUME NEW i \in v.iused, NEW j \in v.iused, NEW k \in Slots, NEW l \in Slots,
             w.inodes[i].direct[k] # 0, w.inodes[i].direct[k] = w.inodes[j].direct[l]
      PROVE  i = j /\ k = l
  <2>1. CASE i = d /\ k = log
    BY <1>1, <1>5, <1>6, <2>1
  <2>2. CASE j = d /\ l = log
    BY <1>1, <1>5, <1>6, <2>2
  <2>3. CASE ~(i = d /\ k = log) /\ ~(j = d /\ l = log)
    <3>1. w.inodes[i].direct[k] = v.inodes[i].direct[k] /\ w.inodes[j].direct[l] = v.inodes[j].direct[l]
      BY <1>5, <2>3
    <3>2. v.inodes[i].direct[k] # 0 /\ v.inodes[i].direct[k] = v.inodes[j].direct[l]
      BY <1>6, <3>1
    <3>3. \A x, y \in v.iused : \A f, g \in Slots :
            v.inodes[x].direct[f] # 0 /\ v.inodes[x].direct[f] = v.inodes[y].direct[g] => x = y /\ f = g
      BY <1>4
    <3>. QED
      BY <3>2, <3>3
  <2>. QED
    BY <2>1, <2>2, <2>3
<1>7. ASSUME NEW i \in v.iused, NEW k \in Slots, w.inodes[i].direct[k] # 0
      PROVE  w.inodes[i].direct[k] \notin Tables
  BY <1>1, <1>4, <1>5, <1>7
<1>8. ASSUME NEW c \in Blocks
      PROVE  c \in w.bused <=> c \in Tables \/ \E i \in v.iused : \E k \in Slots : w.inodes[i].direct[k] = c
  <2>1. CASE c = b
    BY <1>1, <1>2, <1>5, <2>1
  <2>2. CASE c # b
    <3>1. c \in w.bused <=> c \in v.bused
      BY <1>2, <2>2
    <3>2. ASSUME NEW i \in v.iused, NEW k \in Slots, v.inodes[i].direct[k] = c, c \notin Tables
          PROVE  w.inodes[i].direct[k] = c
      <4>1. c # 0
        BY <3>2, VolumeIs
      <4>2. ~(i = d /\ k = log)
        BY <1>2, <2>2, <3>2, <4>1
      <4>. QED
        BY <1>5, <3>2, <4>2
    <3>3. ASSUME NEW i \in v.iused, NEW k \in Slots, w.inodes[i].direct[k] = c
          PROVE  v.inodes[i].direct[k] = c
      BY <1>5, <2>2, <3>3
    <3>. QED
      BY <1>4, <3>1, <3>2, <3>3
  <2>. QED
    BY <2>1, <2>2
<1>. QED
  BY <1>2, <1>6, <1>7, <1>8 DEF OwnersOK

(* Every place of a block is that of an entry. *)
LEMMA PlaceInBlock ==
  ASSUME NEW p \in 1 .. PerBlock
  PROVE  /\ p - 1 \in 0 .. Most - 1 /\ (p - 1) \div PerBlock = 0 /\ (p - 1) % PerBlock = p - 1
         /\ p = ((p - 1) % PerBlock) + 1
<1>1. PerBlock \in Nat /\ PerBlock >= 2 /\ NumDirect \in Nat /\ NumDirect >= 1
  BY VolumeIs
<1>2. NumDirect * PerBlock >= PerBlock /\ Most \in Nat
  <2>1. PICK n \in Nat : NumDirect = n + 1
    <3>1. NumDirect - 1 \in Nat /\ NumDirect = (NumDirect - 1) + 1
      BY <1>1
    <3>. QED
      BY <3>1
  <2>2. (n + 1) * PerBlock = n * PerBlock + PerBlock /\ n * PerBlock \in Nat
    BY <1>1
  <2>. QED
    BY <1>1, <2>1, <2>2, VolumeIs
<1>3. p - 1 \in 0 .. Most - 1
  BY <1>1, <1>2 DEF Most
<1>4. (p - 1) \div PerBlock = 0 /\ (p - 1) % PerBlock = p - 1
  BY <1>1
<1>. QED
  BY <1>1, <1>3, <1>4

(* What is behind its end still holds no names. *)
LEMMA ExtendsClean ==
  ASSUME NEW v, Typed(v), Whole(v), NEW d \in v.iused, NEW w, NEW m, NEW b, Extends(v, w, d, m, b)
  PROVE  CleanOK(w)
<1> DEFINE log == LastBlock(v, d)
           size == v.inodes[d].size
<1>1. /\ log \in Slots /\ size \in 0 .. Most - 1 /\ m \in Nat /\ b \in Blocks /\ b # 0 /\ b \notin Tables
      /\ \A k \in Slots : w.inodes[d].direct[k] = IF k = log THEN b ELSE v.inodes[d].direct[k]
  BY ExtendsOwn
<1>2. /\ w.iused = v.iused /\ w.bused = v.bused \cup {b} /\ w.inodes[d].size = m
      /\ \A j \in v.iused \ {d} : w.inodes[j] = v.inodes[j]
      /\ \/ v.inodes[d].direct[log] = 0 /\ b \in Blocks \ v.bused
         \/ v.inodes[d].direct[log] = b /\ b # 0
      /\ \A c \in Blocks \ {b} : w.disk[c] = v.disk[c]
      /\ m \in size + 1 .. Most
      /\ \A e \in 0 .. Most - 1 : e \notin size .. m - 1 /\ e \div PerBlock = log
                                   => w.disk[b][(e % PerBlock) + 1] = v.disk[b][(e % PerBlock) + 1]
  BY DEF Extends
<1>3. /\ \A c \in Blocks \ v.bused : \A p \in 1 .. PerBlock : v.disk[c][p].name \in Special
      /\ \A i \in v.iused : \A e \in v.inodes[i].size .. Most - 1 :
           v.inodes[i].direct[e \div PerBlock] # 0 => EntryAt(v, i, e).name \in Special
  BY DEF Whole, CleanOK
<1>4. \A c \in Blocks \ w.bused : \A p \in 1 .. PerBlock : w.disk[c][p].name \in Special
  BY <1>2, <1>3
<1>5. ASSUME NEW i \in v.iused \ {d}, NEW e \in w.inodes[i].size .. Most - 1, w.inodes[i].direct[e \div PerBlock] # 0
      PROVE  EntryAt(w, i, e).name \in Special
  <2>1. w.inodes[i] = v.inodes[i] /\ v.inodes[i].size \in Nat
    BY <1>2, InodeTyped DEF Typed
  <2>2. e \in v.inodes[i].size .. Most - 1 /\ e \in 0 .. Most - 1 /\ v.inodes[i].direct[e \div PerBlock] # 0
    BY <1>5, <2>1, VolumeIs
  <2>3. EntryAt(w, i, e) = EntryAt(v, i, e)
    BY <2>2, ExtendsKeeps
  <2>. QED
    BY <1>3, <2>2, <2>3
<1>6. ASSUME NEW e \in m .. Most - 1, w.inodes[d].direct[e \div PerBlock] # 0
      PROVE  EntryAt(w, d, e).name \in Special
  <2>1. size \in Nat /\ size < m
    BY <1>1, <1>2
  <2>2. e \in size .. Most - 1 /\ e \in 0 .. Most - 1 /\ e \notin size .. m - 1
    BY <1>1, <2>1, VolumeIs
  <2>3. e \div PerBlock \in Slots /\ (e % PerBlock) + 1 \in 1 .. PerBlock
    BY <2>2, PlaceIs
  <2>4. CASE v.inodes[d].direct[e \div PerBlock] # 0
    <3>1. EntryAt(w, d, e) = EntryAt(v, d, e)
      BY <2>2, <2>4, ExtendsKeeps
    <3>. QED
      BY <1>3, <2>2, <2>4, <3>1
  <2>5. CASE v.inodes[d].direct[e \div PerBlock] = 0
    <3>1. e \div PerBlock = log /\ w.inodes[d].direct[e \div PerBlock] = b
      BY <1>1, <1>6, <2>3, <2>5
    <3>2. b \in Blocks \ v.bused
      BY <1>2, <2>5, <3>1
    <3>3. EntryAt(w, d, e) = v.disk[b][(e % PerBlock) + 1]
      BY <1>2, <2>2, <3>1 DEF EntryAt
    <3>. QED
      BY <1>3, <2>3, <3>2, <3>3
  <2>. QED
    BY <2>4, <2>5
<1>7. \A i \in w.iused : \A e \in w.inodes[i].size .. Most - 1 :
        w.inodes[i].direct[e \div PerBlock] # 0 => EntryAt(w, i, e).name \in Special
  BY <1>2, <1>5, <1>6
<1>. QED
  BY <1>4, <1>7 DEF CleanOK

(* The entries that directories had, they still have. *)
LEMMA ExtendsEntries ==
  ASSUME NEW v, Typed(v), Whole(v), NEW d \in v.iused, NEW w, NEW m, NEW b, Extends(v, w, d, m, b),
         NEW c \in v.iused, NEW e \in 0 .. v.inodes[c].size - 1
  PROVE  EntryAt(w, c, e) = EntryAt(v, c, e) /\ e \in 0 .. w.inodes[c].size - 1
<1>1. c \in Inums /\ v.inodes[c].size \in Nat
  BY InodeTyped DEF Typed
<1>2. v.inodes[c].size <= Most /\ v.inodes[c].direct[e \div PerBlock] # 0
  <2>1. SizesOK(v)
    BY DEF Whole
  <2>2. e \div PerBlock \in Slots
    <3>1. v.inodes[c].size <= Most
      BY <2>1 DEF SizesOK
    <3>2. e \in 0 .. Most - 1
      BY <1>1, <3>1, VolumeIs
    <3>. QED
      BY <3>2, PlaceIs
  <2>. QED
    BY <2>1, <2>2 DEF SizesOK
<1>3. e \in 0 .. Most - 1 /\ e \notin v.inodes[c].size .. m - 1
  BY <1>1, <1>2, VolumeIs
<1>4. EntryAt(w, c, e) = EntryAt(v, c, e)
  BY <1>2, <1>3, ExtendsKeeps
<1>5. CASE c = d
  <2>1. w.inodes[c].size = m /\ m \in v.inodes[c].size + 1 .. Most
    BY <1>5 DEF Extends
  <2>2. m \in Nat /\ m >= v.inodes[c].size
    BY <1>1, <2>1, VolumeIs
  <2>. QED
    BY <1>1, <1>4, <2>1, <2>2
<1>6. CASE c # d
  <2>1. w.inodes[c] = v.inodes[c]
    BY <1>6 DEF Extends
  <2>. QED
    BY <1>4, <2>1
<1>. QED
  BY <1>5, <1>6

(* Directories are in use. *)
LEMMA DirsInUse ==
  ASSUME NEW v, NEW nm, NEW ls, BitsOK(v, nm, ls)
  PROVE  Dirs(nm) \subseteq v.iused /\ ls \subseteq v.iused /\ Root \notin DOMAIN nm
BY DEF BitsOK, Dirs

(* A directory that gets entries without a name keeps the tree as it is. *)
LEMMA GrownTree ==
  ASSUME NEW v, NEW nm, NEW rm, NEW ls, Typed(v), Tree(v, nm, rm, ls), NEW d \in v.iused,
         NEW w, NEW m, NEW b, Extends(v, w, d, m, b),
         \A e \in v.inodes[d].size .. m - 1 : EntryAt(w, d, e).name \in Special
  PROVE  Tree(w, nm, rm, ls)
<1>1. Whole(v) /\ BitsOK(v, nm, ls) /\ NamesOK(v, nm, rm)
  BY DEF Tree, Whole
<1>2. SizesOK(w) /\ OwnersOK(w) /\ CleanOK(w)
  BY <1>1, ExtendsSizes, ExtendsOwners, ExtendsClean
<1>3. BitsOK(w, nm, ls)
  BY <1>1 DEF BitsOK, Extends
<1>4. Dirs(nm) \subseteq v.iused
  BY <1>1, DirsInUse
<1>5. \A c \in Dirs(nm) : \A e \in 0 .. v.inodes[c].size - 1 :
        EntryAt(w, c, e) = EntryAt(v, c, e) /\ e \in 0 .. w.inodes[c].size - 1
  BY <1>1, <1>4, ExtendsEntries
<1>6. ASSUME NEW c \in Dirs(nm), NEW e \in 0 .. w.inodes[c].size - 1
      PROVE  EntryOK(nm, rm, c, EntryAt(w, c, e))
  <2>1. CASE e \in 0 .. v.inodes[c].size - 1
    BY <1>1, <1>5, <2>1 DEF NamesOK
  <2>2. CASE e \notin 0 .. v.inodes[c].size - 1
    <3>1. c = d
      BY <1>4, <2>2 DEF Extends
    <3>2. w.inodes[d].size = m /\ m \in v.inodes[d].size + 1 .. Most
      BY DEF Extends
    <3>3. v.inodes[d].size \in Nat
      BY InodeTyped DEF Typed
    <3>4. e \in v.inodes[d].size .. m - 1
      BY <2>2, <3>1, <3>2, <3>3, VolumeIs
    <3>. QED
      BY <3>1, <3>4 DEF EntryOK
  <2>. QED
    BY <2>1, <2>2
<1>7. ASSUME NEW j \in DOMAIN nm
      PROVE  \E c \in Dirs(nm) : \E e \in 0 .. w.inodes[c].size - 1 :
               EntryAt(w, c, e).inode = j /\ nm[j] = Append(PathOf(nm, c), EntryAt(w, c, e).name)
  <2>1. PICK c \in Dirs(nm) : \E e \in 0 .. v.inodes[c].size - 1 :
          EntryAt(v, c, e).inode = j /\ nm[j] = Append(PathOf(nm, c), EntryAt(v, c, e).name)
    BY <1>1 DEF NamesOK
  <2>2. PICK e \in 0 .. v.inodes[c].size - 1 :
          EntryAt(v, c, e).inode = j /\ nm[j] = Append(PathOf(nm, c), EntryAt(v, c, e).name)
    BY <2>1
  <2>3. EntryAt(w, c, e) = EntryAt(v, c, e) /\ e \in 0 .. w.inodes[c].size - 1
    BY <1>5
  <2>. QED
    BY <2>2, <2>3
<1>8. NamesOK(w, nm, rm)
  BY <1>1, <1>6, <1>7 DEF NamesOK
<1>. QED
  BY <1>2, <1>3, <1>8 DEF Tree

(* The names, with one more. *)
Also(nm, i, p) == [j \in DOMAIN nm \cup {i} |-> IF j = i THEN p ELSE nm[j]]

(* A directory that gets an entry for a lost inode gives it a name. *)
LEMMA NamedTree ==
  ASSUME NEW v, NEW nm, NEW rm, NEW ls, Typed(v), Tree(v, nm, rm, ls), NEW d \in Dirs(nm),
         NEW w, NEW b, Extends(v, w, d, v.inodes[d].size + 1, b),
         NEW i \in ls, NEW n \in Names, EntryAt(w, d, v.inodes[d].size) = Entry(n, i), v.inodes[i].size = 0,
         NEW p, p = Append(PathOf(nm, d), n), p # <<>>, Plain(p), ~Through(rm, p), \A j \in DOMAIN nm : nm[j] # p
  PROVE  Tree(w, Also(nm, i, p), rm, ls \ {i})
<1> DEFINE size == v.inodes[d].size
           nn == Also(nm, i, p)
<1>1. Whole(v) /\ BitsOK(v, nm, ls) /\ NamesOK(v, nm, rm)
  BY DEF Tree, Whole
<1>2. d \in v.iused /\ Dirs(nm) \subseteq v.iused /\ i \in v.iused
  BY <1>1, DirsInUse
<1>3. SizesOK(w) /\ OwnersOK(w) /\ CleanOK(w)
  BY <1>1, <1>2, ExtendsSizes, ExtendsOwners, ExtendsClean
<1>4. DOMAIN nn = DOMAIN nm \cup {i} /\ nn[i] = p /\ i \notin DOMAIN nm /\ i # Root /\ \A j \in DOMAIN nm : nn[j] = nm[j]
  BY <1>1 DEF BitsOK, Also
<1> HIDE DEF nn
<1>5. w.iused = v.iused /\ BitsOK(w, nn, ls \ {i})
  BY <1>1, <1>4 DEF BitsOK, Extends
<1>6. \A c \in Dirs(nm) : \A e \in 0 .. v.inodes[c].size - 1 :
        EntryAt(w, c, e) = EntryAt(v, c, e) /\ e \in 0 .. w.inodes[c].size - 1
  BY <1>1, <1>2, ExtendsEntries
<1>7. Dirs(nn) = Dirs(nm) \cup {i} /\ (\A c \in Dirs(nm) : PathOf(nn, c) = PathOf(nm, c)) /\ d # i
  BY <1>1, <1>4 DEF Dirs, PathOf, BitsOK
<1>8. w.inodes[i] = v.inodes[i] /\ w.inodes[d].size = size + 1 /\ \A c \in v.iused \ {d} : w.inodes[c] = v.inodes[c]
  BY <1>2, <1>7 DEF Extends
<1>9. size \in Nat
  BY <1>2, InodeTyped DEF Typed
<1>10. ASSUME NEW c \in Dirs(nn), NEW e \in 0 .. w.inodes[c].size - 1
       PROVE  EntryOK(nn, rm, c, EntryAt(w, c, e))
  <2>1. CASE c = i
    BY <1>8, <2>1
  <2>2. CASE c \in Dirs(nm) /\ e \in 0 .. v.inodes[c].size - 1
    <3>1. EntryAt(w, c, e) = EntryAt(v, c, e) /\ EntryOK(nm, rm, c, EntryAt(v, c, e)) /\ PathOf(nn, c) = PathOf(nm, c)
      BY <1>1, <1>6, <1>7, <2>2 DEF NamesOK
    <3>. QED
      BY <1>4, <3>1 DEF EntryOK
  <2>3. CASE c \in Dirs(nm) /\ e \notin 0 .. v.inodes[c].size - 1
    <3>1. c = d /\ e = size
      BY <1>2, <1>8, <1>9, <2>3
    <3>2. EntryAt(w, c, e).inode = i /\ EntryAt(w, c, e).name = n /\ PathOf(nn, c) = PathOf(nm, d)
      BY <1>7, <3>1 DEF Entry
    <3>. QED
      BY <1>4, <3>2 DEF EntryOK
  <2>. QED
    BY <1>7, <2>1, <2>2, <2>3
<1>11. ASSUME NEW j \in DOMAIN nn
       PROVE  \E c \in Dirs(nn) : \E e \in 0 .. w.inodes[c].size - 1 :
                EntryAt(w, c, e).inode = j /\ nn[j] = Append(PathOf(nn, c), EntryAt(w, c, e).name)
  <2>1. CASE j = i
    <3>1. size \in 0 .. w.inodes[d].size - 1
      BY <1>8, <1>9
    <3>2. EntryAt(w, d, size).inode = i /\ EntryAt(w, d, size).name = n
      BY DEF Entry
    <3>. QED
      BY <1>4, <1>7, <2>1, <3>1, <3>2
  <2>2. CASE j # i
    <3>1. j \in DOMAIN nm
      BY <1>4, <2>2
    <3>2. PICK c \in Dirs(nm) : \E e \in 0 .. v.inodes[c].size - 1 :
            EntryAt(v, c, e).inode = j /\ nm[j] = Append(PathOf(nm, c), EntryAt(v, c, e).name)
      BY <1>1, <3>1 DEF NamesOK
    <3>3. PICK e \in 0 .. v.inodes[c].size - 1 :
            EntryAt(v, c, e).inode = j /\ nm[j] = Append(PathOf(nm, c), EntryAt(v, c, e).name)
      BY <3>2
    <3>4. EntryAt(w, c, e) = EntryAt(v, c, e) /\ e \in 0 .. w.inodes[c].size - 1
      BY <1>6
    <3>. QED
      BY <1>4, <1>7, <3>1, <3>3, <3>4
  <2>. QED
    BY <2>1, <2>2
<1>12. \A j \in DOMAIN nn : nn[j] # <<>> /\ Plain(nn[j]) /\ ~Through(rm, nn[j])
  <2>1. \A j \in DOMAIN nm : nm[j] # <<>> /\ Plain(nm[j]) /\ ~Through(rm, nm[j])
    BY <1>1 DEF NamesOK
  <2>. QED
    BY <1>4, <2>1
<1>13. \A j, k \in DOMAIN nn : nn[j] = nn[k] => j = k
  <2>1. \A j, k \in DOMAIN nm : nm[j] = nm[k] => j = k
    BY <1>1 DEF NamesOK
  <2>. QED
    BY <1>4, <2>1
<1>14. NamesOK(w, nn, rm)
  BY <1>10, <1>11, <1>12, <1>13 DEF NamesOK
<1>. QED
  BY <1>3, <1>5, <1>14 DEF Tree, nn
-----------------------------------------------------------------------------
(* An inode taken, its file without a name for now *)
Taken(v, w, i) ==
  /\ w.iused = v.iused \cup {i} /\ w.bused = v.bused /\ w.disk = v.disk
  /\ w.inodes[i] = NewInode /\ \A j \in Inums \ {i} : w.inodes[j] = v.inodes[j]

(* A new file is empty. *)
LEMMA NewInodeIs ==
  /\ NewInode.type = "FT_NORMAL" /\ NewInode.size = 0 /\ \A k \in Slots : NewInode.direct[k] = 0
BY DEF NewInode, NoBlocks, Slots

(* An inode that is taken and has no entry yet is lost. *)
LEMMA TakenTree ==
  ASSUME NEW v, NEW nm, NEW rm, NEW ls, Typed(v), Tree(v, nm, rm, ls), NEW i \in Inums \ v.iused, NEW w, Taken(v, w, i)
  PROVE  Tree(w, nm, rm, ls \cup {i})
<1>1. SizesOK(v) /\ OwnersOK(v) /\ CleanOK(v) /\ BitsOK(v, nm, ls) /\ NamesOK(v, nm, rm)
  BY DEF Tree
<1>2. v.iused \subseteq Inums /\ Dirs(nm) \subseteq v.iused
  BY <1>1, DirsInUse DEF Typed
<1>3. \A j \in v.iused : w.inodes[j] = v.inodes[j]
  BY <1>2 DEF Taken
<1>4. w.iused = v.iused \cup {i} /\ w.bused = v.bused /\ w.disk = v.disk
  BY DEF Taken
<1>5. w.inodes[i].type = "FT_NORMAL" /\ w.inodes[i].size = 0 /\ \A k \in Slots : w.inodes[i].direct[k] = 0
  BY NewInodeIs DEF Taken
<1>6. \A j \in v.iused, e \in Nat : EntryAt(w, j, e) = EntryAt(v, j, e)
  BY <1>3, <1>4 DEF EntryAt
<1>7. SizesOK(w)
  <2>1. ASSUME NEW k \in Slots PROVE w.inodes[i].direct[k] # 0 <=> \E e \in 0 .. w.inodes[i].size - 1 : e \div PerBlock = k
    BY <1>5
  <2>2. w.inodes[i].size <= Most
    BY <1>5, VolumeIs
  <2>3. \A j \in v.iused :
          /\ w.inodes[j].size <= Most
          /\ w.inodes[j].type = "FT_NORMAL" => w.inodes[j].size = 0
          /\ \A k \in Slots : w.inodes[j].direct[k] # 0 <=> \E e \in 0 .. w.inodes[j].size - 1 : e \div PerBlock = k
    BY <1>1, <1>3 DEF SizesOK
  <2>. QED
    BY <1>4, <1>5, <2>1, <2>2, <2>3 DEF SizesOK
<1>8. OwnersOK(w)
  <2>1. \A j, l \in w.iused : \A k, m \in Slots :
          w.inodes[j].direct[k] # 0 /\ w.inodes[j].direct[k] = w.inodes[l].direct[m] => j = l /\ k = m
    <3>1. \A j, l \in v.iused : \A k, m \in Slots :
            v.inodes[j].direct[k] # 0 /\ v.inodes[j].direct[k] = v.inodes[l].direct[m] => j = l /\ k = m
      BY <1>1 DEF OwnersOK
    <3>. QED
      BY <1>3, <1>4, <1>5, <3>1
  <2>2. \A j \in w.iused : \A k \in Slots : w.inodes[j].direct[k] # 0 => w.inodes[j].direct[k] \notin Tables
    BY <1>1, <1>3, <1>4, <1>5 DEF OwnersOK
  <2>3. \A b \in Blocks : b \in w.bused <=> b \in Tables \/ \E j \in w.iused : \E k \in Slots : w.inodes[j].direct[k] = b
    <3>1. \A b \in Blocks : b \in v.bused <=> b \in Tables \/ \E j \in v.iused : \E k \in Slots : v.inodes[j].direct[k] = b
      BY <1>1 DEF OwnersOK
    <3>. QED
      BY <1>3, <1>4, <1>5, <3>1, VolumeIs
  <2>. QED
    BY <2>1, <2>2, <2>3 DEF OwnersOK
<1>9. CleanOK(w)
  <2>1. \A b \in Blocks \ w.bused : \A p \in 1 .. PerBlock : w.disk[b][p].name \in Special
    BY <1>1, <1>4 DEF CleanOK
  <2>2. ASSUME NEW j \in w.iused, NEW e \in w.inodes[j].size .. Most - 1, w.inodes[j].direct[e \div PerBlock] # 0
        PROVE  EntryAt(w, j, e).name \in Special
    <3>1. CASE j = i
      <4>1. e \in 0 .. Most - 1
        BY <1>5, <3>1
      <4>2. e \div PerBlock \in Slots
        BY <4>1, PlaceIs
      <4>. QED
        BY <1>5, <2>2, <3>1, <4>2
    <3>2. CASE j # i
      <4>1. j \in v.iused /\ w.inodes[j] = v.inodes[j]
        BY <1>3, <1>4, <3>2
      <4>2. v.inodes[j].size \in Nat
        BY <1>2, <4>1, InodeTyped
      <4>3. e \in v.inodes[j].size .. Most - 1 /\ e \in Nat
        BY <4>1, <4>2
      <4>4. EntryAt(w, j, e) = EntryAt(v, j, e)
        BY <1>6, <4>1, <4>3
      <4>. QED
        BY <1>1, <2>2, <4>1, <4>3, <4>4 DEF CleanOK
    <3>. QED
      BY <3>1, <3>2
  <2>. QED
    BY <2>1, <2>2 DEF CleanOK
<1>10. BitsOK(w, nm, ls \cup {i})
  BY <1>1, <1>2, <1>4, VolumeIs DEF BitsOK
<1>11. NamesOK(w, nm, rm)
  <2>1. \A d \in Dirs(nm) : w.inodes[d] = v.inodes[d] /\ \A e \in 0 .. v.inodes[d].size - 1 : EntryAt(w, d, e) = EntryAt(v, d, e)
    BY <1>2, <1>3, <1>6
  <2>2. \A d \in Dirs(nm) : \A e \in 0 .. w.inodes[d].size - 1 : EntryOK(nm, rm, d, EntryAt(w, d, e))
    BY <1>1, <2>1 DEF NamesOK
  <2>3. \A j \in DOMAIN nm : \E d \in Dirs(nm) : \E e \in 0 .. w.inodes[d].size - 1 :
          EntryAt(w, d, e).inode = j /\ nm[j] = Append(PathOf(nm, d), EntryAt(w, d, e).name)
    <3>1. \A j \in DOMAIN nm : \E d \in Dirs(nm) : \E e \in 0 .. v.inodes[d].size - 1 :
            EntryAt(v, d, e).inode = j /\ nm[j] = Append(PathOf(nm, d), EntryAt(v, d, e).name)
      BY <1>1 DEF NamesOK
    <3>. QED
      BY <2>1, <3>1
  <2>. QED
    BY <1>1, <2>2, <2>3 DEF NamesOK
<1>. QED
  BY <1>7, <1>8, <1>9, <1>10, <1>11 DEF Tree

(* A new file with its entry: the inode is taken, then the directory is    *)
(* extended.                                                               *)
LEMMA MadeExtends ==
  ASSUME NEW v, NEW nm, NEW rm, NEW ls, Typed(v), v.ok, Tree(v, nm, rm, ls),
         NEW d \in v.iused, v.inodes[d].type = "FT_DIR", v.inodes[d].size < Most,
         NEW i \in Inums \ v.iused, NEW e, NEW b \in Blocks, NEW B, Takes(v, d, b, B),
         NEW w, Typed(w), Made(v, w, d, i, e, b, B)
  PROVE  \E u : /\ Typed(u) /\ Taken(v, u, i) /\ Extends(u, w, d, v.inodes[d].size + 1, b)
                /\ EntryAt(w, d, v.inodes[d].size) = e
<1> DEFINE u == [inodes |-> [v.inodes EXCEPT ![i] = NewInode], iused |-> v.iused \cup {i}, bused |-> v.bused,
                 disk |-> v.disk, ok |-> TRUE]
           size == v.inodes[d].size
           log == LastBlock(v, d)
           place == LastPlace(v, d)
<1>1. d \in Inums /\ d # i /\ DOMAIN v.inodes = Inums
  BY DEF Typed
<1>2. Typed(u)
  <2>1. DOMAIN u = Fields
    BY DEF Fields
  <2>2. u.inodes \in [Inums -> Inode]
    BY NewInodeTyped DEF Typed
  <2>. QED
    BY <2>1, <2>2 DEF Typed
<1>3. Taken(v, u, i)
  BY <1>1 DEF Taken
<1>4. u.iused = v.iused \cup {i} /\ u.bused = v.bused /\ u.disk = v.disk /\ \A j \in Inums \ {i} : u.inodes[j] = v.inodes[j]
  BY <1>3 DEF Taken
<1>5. u.inodes[i] = NewInode /\ u.inodes[d] = v.inodes[d]
  BY <1>1, <1>3 DEF Taken
<1> HIDE DEF u
<1>6. size \in 0 .. Most - 1 /\ size \in Nat
  <2>1. size \in Nat
    BY <1>1, InodeTyped
  <2>. QED
    BY <2>1, VolumeIs
<1>7. log \in Slots /\ place \in 1 .. PerBlock /\ size \div PerBlock = log /\ (size % PerBlock) + 1 = place
  BY <1>6, PlaceIs DEF LastBlock, LastPlace
<1>8. v.inodes[d].direct \in [Slots -> Blocks]
  BY <1>1, InodeTyped
<1>9. size = 0 => v.inodes[d].direct[log] = 0
  BY <1>7 DEF Tree, SizesOK
<1>10. /\ \/ v.inodes[d].direct[log] = 0 /\ b \in Blocks \ v.bused
          \/ v.inodes[d].direct[log] = b /\ b # 0
       /\ B = v.bused \cup {b}
  <2>1. CASE v.inodes[d].direct[log] = 0
    BY <1>9, <2>1 DEF Takes
  <2>2. CASE v.inodes[d].direct[log] # 0
    <3>1. b = v.inodes[d].direct[log] /\ B = v.bused
      BY <1>9, <2>2 DEF Takes
    <3>2. b \in v.bused
      <4>1. OwnersOK(v)
        BY DEF Tree
      <4>. QED
        BY <1>7, <3>1, <4>1 DEF OwnersOK
    <3>. QED
      BY <2>2, <3>1, <3>2
  <2>. QED
    BY <2>1, <2>2
<1>11. LastBlock(u, d) = log
  BY <1>5 DEF LastBlock
<1>12. /\ w.iused = u.iused /\ w.bused = u.bused \cup {b}
       /\ w.inodes[d].type = "FT_DIR" /\ w.inodes[d].size = size + 1
       /\ w.inodes[d].direct = [u.inodes[d].direct EXCEPT ![log] = b]
  BY <1>1, <1>4, <1>5, <1>10 DEF Made, Grown
<1>13. \A j \in u.iused \ {d} : w.inodes[j] = u.inodes[j]
  BY <1>1, <1>4, <1>5 DEF Made, Typed
<1>14. DOMAIN v.disk = Blocks /\ DOMAIN v.disk[b] = 1 .. PerBlock
  BY DEF Typed
<1>15. w.disk = [v.disk EXCEPT ![b] = [v.disk[b] EXCEPT ![place] = e]]
  BY DEF Made
<1>16. \A c \in Blocks \ {b} : w.disk[c] = u.disk[c]
  BY <1>4, <1>14, <1>15
<1>17. w.disk[b] = [v.disk[b] EXCEPT ![place] = e]
  BY <1>14, <1>15
<1> HIDE DEF size, log, place
<1>18. size + 1 \in size + 1 .. Most /\ \A f \in size .. (size + 1) - 1 : f = size
  BY <1>6, VolumeIs
<1>19. ASSUME NEW f \in 0 .. Most - 1, f \notin size .. (size + 1) - 1, f \div PerBlock = log
       PROVE  w.disk[b][(f % PerBlock) + 1] = u.disk[b][(f % PerBlock) + 1]
  <2>1. f \in Nat /\ f # size
    BY <1>6, <1>19
  <2>2. f % PerBlock # size % PerBlock
    BY <1>6, <1>7, <1>19, <2>1, PlacesDiffer
  <2>3. (f % PerBlock) + 1 # place /\ (f % PerBlock) + 1 \in 1 .. PerBlock
    <3>1. f % PerBlock \in Nat /\ size % PerBlock \in Nat
      BY <1>6, <2>1, VolumeIs
    <3>. QED
      BY <1>7, <2>2, <3>1, PlaceIs
  <2>. QED
    BY <1>4, <1>14, <1>17, <2>3
<1>20. Extends(u, w, d, size + 1, b)
  <2>1. u.inodes[d].size = size
    BY <1>5 DEF size
  <2>2. \A f \in size .. (size + 1) - 1 : f \div PerBlock = log
    BY <1>7, <1>18
  <2>3. \/ u.inodes[d].direct[log] = 0 /\ b \in Blocks \ u.bused
        \/ u.inodes[d].direct[log] = b /\ b # 0
    BY <1>4, <1>5, <1>10
  <2>. QED
    BY <1>11, <1>12, <1>13, <1>16, <1>18, <1>19, <2>1, <2>2, <2>3 DEF Extends
<1>21. EntryAt(w, d, size) = e
  <2>1. w.inodes[d].direct[log] = b
    BY <1>5, <1>7, <1>8, <1>12
  <2>2. w.disk[b][place] = e
    BY <1>7, <1>14, <1>17
  <2>. QED
    BY <1>7, <2>1, <2>2 DEF EntryAt
<1>. QED
  BY <1>2, <1>3, <1>20, <1>21 DEF size

(* A name that a directory has not *)
NewName(v, nm, rm, d, n, p) ==
  /\ d \in Dirs(nm) /\ v.inodes[d].type = "FT_DIR" /\ v.inodes[d].size < Most
  /\ n \in Names /\ p = Append(PathOf(nm, d), n) /\ p # <<>> /\ Plain(p) /\ ~Through(rm, p) /\ \A j \in DOMAIN nm : nm[j] # p
Outcome(v, w, nm, rm, ls, i, p) ==
  /\ w.inodes[i] = NewInode
  /\ \/ w.ok = TRUE /\ Tree(w, Also(nm, i, p), rm, ls)
     \/ w.ok = FALSE /\ Blocks \subseteq v.bused /\ Tree(w, nm, rm, ls \cup {i})

(* sfs_creat gives the file its name, or loses the inode on a full volume. *)
LEMMA CreatedTree ==
  ASSUME NEW v, NEW nm, NEW rm, NEW ls, Typed(v), v.ok, Tree(v, nm, rm, ls),
         NEW d, NEW n, NEW p, NewName(v, nm, rm, d, n, p),
         FirstCleared(v.iused, super.num_inodes) \in Inums \ v.iused
  PROVE  Outcome(v, Created(v, d, n), nm, rm, ls, FirstCleared(v.iused, super.num_inodes), p)
<1> DEFINE i == FirstCleared(v.iused, super.num_inodes)
           w == Created(v, d, n)
<1>a. i \in Inums \ v.iused /\ i = FirstCleared(v.iused, super.num_inodes) /\ w = Created(v, d, n)
  OBVIOUS
<1> HIDE DEF i, w
<1>b. /\ d \in Dirs(nm) /\ v.inodes[d].type = "FT_DIR" /\ v.inodes[d].size < Most
      /\ n \in Names /\ p = Append(PathOf(nm, d), n) /\ p # <<>> /\ Plain(p) /\ ~Through(rm, p)
  BY DEF NewName
<1>c. \A j \in DOMAIN nm : nm[j] # p
  BY DEF NewName
<1>1. d \in v.iused /\ d \in Inums /\ ls \subseteq v.iused
  BY <1>b, DirsInUse DEF Tree, Typed
<1>2. /\ Typed(w)
      /\ \/ Spilled(v, w, i)
         \/ \E b \in Blocks, B \in SUBSET Blocks : Takes(v, d, b, B) /\ Made(v, w, d, i, Entry(n, i), b, B)
  BY <1>a, <1>b, <1>1, CreatedIs
<1>3. CASE Spilled(v, w, i)
  <2>1. Taken(v, w, i)
    BY <1>3 DEF Spilled, Taken
  <2>. QED
    BY <1>a, <1>2, <1>3, <2>1, TakenTree DEF Spilled, Outcome
<1>4. ASSUME NEW b \in Blocks, NEW B \in SUBSET Blocks, Takes(v, d, b, B), Made(v, w, d, i, Entry(n, i), b, B)
      PROVE  w.ok = TRUE /\ w.inodes[i] = NewInode /\ Tree(w, Also(nm, i, p), rm, ls)
  <2>1. PICK u : /\ Typed(u) /\ Taken(v, u, i) /\ Extends(u, w, d, v.inodes[d].size + 1, b)
                 /\ EntryAt(w, d, v.inodes[d].size) = Entry(n, i)
    BY <1>a, <1>b, <1>1, <1>2, <1>4, MadeExtends
  <2>2. Tree(u, nm, rm, ls \cup {i})
    BY <1>a, <2>1, TakenTree
  <2>3. u.inodes[d] = v.inodes[d] /\ u.inodes[i].size = 0
    BY <1>a, <1>1, <2>1, NewInodeIs DEF Taken
  <2>4. Tree(w, Also(nm, i, p), rm, (ls \cup {i}) \ {i})
    BY <1>b, <1>c, <2>1, <2>2, <2>3, NamedTree
  <2>5. (ls \cup {i}) \ {i} = ls
    BY <1>a, <1>1
  <2>. QED
    BY <1>4, <2>4, <2>5 DEF Made
<1>. QED
  BY <1>2, <1>3, <1>4 DEF Outcome, i, w

(* A created file and its directory are in range, in any state. *)
LEMMA CreatedRange ==
  ASSUME NEW v, Typed(v), v.ok, InRange(v), NEW d \in Inums, v.inodes[d].size < Most, NEW n \in Names,
         NEW i \in Inums, i = FirstCleared(v.iused, super.num_inodes), NEW w, w = Created(v, d, n)
  PROVE  Typed(w) /\ InRange(w) /\ (w.ok \/ Blocks \subseteq w.bused)
<1>1. /\ Typed(w)
      /\ \/ Spilled(v, w, i)
         \/ \E b \in Blocks, B \in SUBSET Blocks : Takes(v, d, b, B) /\ Made(v, w, d, i, Entry(n, i), b, B)
  BY CreatedIs
<1>2. \A j \in Inums : v.inodes[j].size <= Most /\ v.inodes[j].size \in Nat
  BY SizeIsNat DEF InRange
<1>3. 0 <= Most /\ v.inodes[d].size + 1 <= Most
  BY <1>2, VolumeIs
<1>4. CASE Spilled(v, w, i)
  BY <1>1, <1>2, <1>3, <1>4, NewInodeIs DEF Spilled, InRange
<1>5. ASSUME NEW b \in Blocks, NEW B \in SUBSET Blocks, Made(v, w, d, i, Entry(n, i), b, B)
      PROVE  InRange(w) /\ w.ok
  <2>1. w.inodes[i].size = 0
    BY <1>5, NewInodeIs DEF Made
  <2>2. d # i => w.inodes[d].size = v.inodes[d].size + 1
    BY <1>5 DEF Made, Grown
  <2>3. \A j \in Inums \ {d, i} : w.inodes[j].size <= Most
    BY <1>2, <1>5 DEF Made
  <2>. QED
    BY <1>3, <1>5, <2>1, <2>2, <2>3 DEF InRange, Made
<1>. QED
  BY <1>1, <1>4, <1>5
-----------------------------------------------------------------------------
(* sfs_mkdir, when the file is there: it becomes a directory, with ".." in *)
(* a block, or without one.                                                *)
Turned(v, w, i) ==
  /\ w.ok = TRUE /\ w.iused = v.iused /\ w.bused = v.bused /\ w.disk = v.disk
  /\ w.inodes[i].type = "FT_DIR" /\ w.inodes[i].size = v.inodes[i].size /\ w.inodes[i].direct = v.inodes[i].direct
  /\ \A j \in Inums \ {i} : w.inodes[j] = v.inodes[j]
Furnished(v, w, i, e, b) ==
  /\ w.ok = TRUE /\ w.iused = v.iused /\ w.bused = v.bused \cup {b}
  /\ w.inodes[i].type = "FT_DIR" /\ w.inodes[i].size = 2 /\ w.inodes[i].direct = [v.inodes[i].direct EXCEPT ![0] = b]
  /\ \A j \in Inums \ {i} : w.inodes[j] = v.inodes[j]
  /\ \A c \in Blocks \ {b} : w.disk[c] = v.disk[c]
  /\ \A p \in 1 .. PerBlock : w.disk[b][p] = IF p = 2 THEN e ELSE v.disk[b][p]

(* An inode with another type or size *)
LEMMA InodeExcept ==
  ASSUME NEW x \in Inode, NEW t, NEW n
  PROVE  /\ [x EXCEPT !.type = t] = [type |-> t, size |-> x.size, direct |-> x.direct]
         /\ [x EXCEPT !.size = n] = [type |-> x.type, size |-> n, direct |-> x.direct]
<1>1. x = [type |-> x.type, size |-> x.size, direct |-> x.direct]
  BY DEF Inode
<1> DEFINE a == x.type
           b == x.size
           c == x.direct
<1>2. x = [type |-> a, size |-> b, direct |-> c]
  BY <1>1
<1> HIDE DEF a, b, c
<1>3. /\ [x EXCEPT !.type = t] = [type |-> t, size |-> b, direct |-> c]
      /\ [x EXCEPT !.size = n] = [type |-> a, size |-> n, direct |-> c]
  BY <1>2
<1>. QED
  BY <1>3 DEF a, b, c

(* sfs_mkdir makes a directory of a file, with or without a block. *)
LEMMA AsDirectoryIs ==
  ASSUME NEW v, Typed(v), v.ok \/ Blocks \subseteq v.bused,
         NEW i \in Inums, NEW parent \in Inums, NEW w, w = AsDirectory(v, i, parent)
  PROVE  /\ Typed(w)
         /\ Turned(v, w, i) \/ \E b \in Blocks \ v.bused : Furnished(v, w, i, Entry("..", parent), b)
<1> DEFINE u == [v EXCEPT !.inodes[i].type = "FT_DIR"]
           t == Allocated(u, i, 0)
           e == Entry("..", parent)
<1>1. w = IF ~t.ok THEN [t EXCEPT !.ok = TRUE]
          ELSE [t EXCEPT !.inodes[i].size = 2, !.disk[t.inodes[i].direct[0]][2] = e]
  BY DEF AsDirectory
<1>2. DOMAIN v = Fields /\ DOMAIN v.inodes = Inums /\ v.ok \in BOOLEAN
  BY DEF Typed
<1>3. /\ DOMAIN u = Fields /\ u.ok = v.ok /\ u.iused = v.iused /\ u.bused = v.bused /\ u.disk = v.disk
      /\ u.inodes = [v.inodes EXCEPT ![i] = [v.inodes[i] EXCEPT !.type = "FT_DIR"]]
  BY <1>2 DEF Fields
<1> HIDE DEF u
<1>4. [v.inodes[i] EXCEPT !.type = "FT_DIR"] = [type |-> "FT_DIR", size |-> v.inodes[i].size, direct |-> v.inodes[i].direct]
  BY InodeExcept DEF Typed
<1>5. /\ u.inodes[i].type = "FT_DIR" /\ u.inodes[i].size = v.inodes[i].size /\ u.inodes[i].direct = v.inodes[i].direct
      /\ \A j \in Inums \ {i} : u.inodes[j] = v.inodes[j]
  BY <1>2, <1>3, <1>4
<1>6. Typed(u)
  <2>1. [v.inodes[i] EXCEPT !.type = "FT_DIR"] \in Inode
    BY <1>4, InodeTyped DEF Inode, Most, Slots
  <2>2. u.inodes \in [Inums -> Inode]
    BY <1>3, <2>1 DEF Typed
  <2>. QED
    BY <1>3, <2>2 DEF Typed
<1>7. e \in EntrySet
  <2>1. ".." \in Names
    BY DEF Names, Special
  <2>. QED
    BY <2>1 DEF Entry, EntrySet
<1>8. 0 \in Slots /\ 2 \in 1 .. PerBlock /\ 2 \in 0 .. Most + 1
  BY VolumeIs, FirstTwo
<1> HIDE DEF t, e
<1>9. CASE Rejected(u, t)
  <2>1. w = [t EXCEPT !.ok = TRUE]
    BY <1>1, <1>9 DEF Rejected
  <2>2. DOMAIN t = Fields
    BY <1>9 DEF Rejected
  <2>3. /\ DOMAIN w = Fields /\ w.ok = TRUE /\ w.iused = t.iused /\ w.bused = t.bused
        /\ w.disk = t.disk /\ w.inodes = t.inodes
    BY <2>1, <2>2 DEF Fields
  <2>4. Turned(v, w, i)
    BY <1>3, <1>5, <1>9, <2>3 DEF Turned, Rejected
  <2>5. Typed(w)
    BY <1>6, <1>9, <2>3 DEF Typed, Rejected
  <2>. QED
    BY <2>4, <2>5
<1>10. ASSUME NEW b \in Blocks \ u.bused, GotBlock(u, t, i, 0, b)
       PROVE  Typed(w) /\ Furnished(v, w, i, e, b)
  <2>1. /\ Typed(t) /\ t.inodes[i].type = "FT_DIR"
        /\ t.inodes[i].direct = [v.inodes[i].direct EXCEPT ![0] = b]
        /\ \A j \in Inums \ {i} : t.inodes[j] = v.inodes[j]
    BY <1>5, <1>6, <1>8, <1>10, GotTyped
  <2>2. t.ok = TRUE /\ t.iused = v.iused /\ t.bused = v.bused \cup {b} /\ t.disk = v.disk
    BY <1>2, <1>3, <1>10 DEF GotBlock
  <2>3. t.inodes[i].direct[0] = b
    <3>1. v.inodes[i].direct \in [Slots -> Blocks]
      BY InodeTyped
    <3>. QED
      BY <1>8, <2>1, <3>1
  <2>4. w = [t EXCEPT !.inodes[i].size = 2, !.disk[b][2] = e]
    BY <1>1, <2>2, <2>3
  <2>5. DOMAIN t = Fields /\ DOMAIN t.inodes = Inums /\ DOMAIN t.disk = Blocks /\ DOMAIN t.disk[b] = 1 .. PerBlock
    BY <2>1 DEF Typed
  <2>6. /\ DOMAIN w = Fields /\ w.ok = TRUE /\ w.iused = t.iused /\ w.bused = t.bused
        /\ w.inodes = [t.inodes EXCEPT ![i] = [t.inodes[i] EXCEPT !.size = 2]]
        /\ w.disk = [t.disk EXCEPT ![b] = [t.disk[b] EXCEPT ![2] = e]]
    BY <2>2, <2>4, <2>5 DEF Fields
  <2>7. [t.inodes[i] EXCEPT !.size = 2] = [type |-> "FT_DIR", size |-> 2, direct |-> t.inodes[i].direct]
    <3> DEFINE x == t.inodes[i]
    <3>1. x \in Inode
      BY <2>1 DEF Typed
    <3>2. x.type = "FT_DIR"
      BY <2>1
    <3> HIDE DEF x
    <3>3. [x EXCEPT !.size = 2] = [type |-> x.type, size |-> 2, direct |-> x.direct]
      BY <3>1, InodeExcept
    <3>. QED
      BY <3>2, <3>3 DEF x
  <2>8. /\ w.inodes[i].type = "FT_DIR" /\ w.inodes[i].size = 2 /\ w.inodes[i].direct = t.inodes[i].direct
        /\ \A j \in Inums \ {i} : w.inodes[j] = t.inodes[j]
    BY <2>5, <2>6, <2>7
  <2>9. /\ \A c \in Blocks \ {b} : w.disk[c] = v.disk[c]
        /\ \A p \in 1 .. PerBlock : w.disk[b][p] = IF p = 2 THEN e ELSE v.disk[b][p]
    <3>1. w.disk[b] = [t.disk[b] EXCEPT ![2] = e] /\ \A c \in Blocks \ {b} : w.disk[c] = t.disk[c]
      BY <2>5, <2>6
    <3>2. \A p \in 1 .. PerBlock : w.disk[b][p] = IF p = 2 THEN e ELSE t.disk[b][p]
      BY <1>8, <2>5, <3>1
    <3>. QED
      BY <2>2, <3>1, <3>2
  <2>10. [t.inodes[i] EXCEPT !.size = 2] \in Inode
    <3>1. t.inodes[i].direct \in [Slots -> Blocks]
      BY <2>1, InodeTyped
    <3>. QED
      BY <1>8, <2>7, <3>1 DEF Inode, Most, Slots
  <2>11. w.inodes \in [Inums -> Inode]
    BY <2>1, <2>6, <2>10 DEF Typed
  <2>12. [t.disk[b] EXCEPT ![2] = e] \in [1 .. PerBlock -> EntrySet]
    BY <1>7, <1>8, <2>1 DEF Typed
  <2>13. w.disk \in [Blocks -> [1 .. PerBlock -> EntrySet]]
    BY <2>1, <2>6, <2>12 DEF Typed
  <2>14. Typed(w)
    BY <2>1, <2>6, <2>11, <2>13 DEF Typed
  <2>. QED
    BY <2>1, <2>2, <2>6, <2>8, <2>9, <2>14 DEF Furnished
<1>11. \/ Rejected(u, t)
       \/ \E b \in Blocks \ u.bused : GotBlock(u, t, i, 0, b)
  BY <1>6, <1>8, AllocatedIs DEF t
<1>. QED
  BY <1>3, <1>9, <1>10, <1>11 DEF e

(* A volume that differs only in the types of some files has the same tree. *)
LEMMA TurnedTree ==
  ASSUME NEW v, NEW nm, NEW rm, NEW ls, Typed(v), Tree(v, nm, rm, ls), NEW i \in v.iused, NEW w, Turned(v, w, i)
  PROVE  Tree(w, nm, rm, ls)
<1>1. SizesOK(v) /\ OwnersOK(v) /\ CleanOK(v) /\ BitsOK(v, nm, ls) /\ NamesOK(v, nm, rm)
  BY DEF Tree
<1>2. v.iused \subseteq Inums /\ Dirs(nm) \subseteq v.iused
  BY <1>1, DirsInUse DEF Typed
<1>3. \A j \in v.iused : w.inodes[j].size = v.inodes[j].size /\ w.inodes[j].direct = v.inodes[j].direct
  BY <1>2 DEF Turned
<1>4. w.iused = v.iused /\ w.bused = v.bused /\ w.disk = v.disk
  BY DEF Turned
<1>5. \A j \in v.iused : w.inodes[j].type = "FT_NORMAL" => v.inodes[j].type = "FT_NORMAL"
  BY <1>2 DEF Turned
<1>6. \A j \in v.iused : \A e : EntryAt(w, j, e) = EntryAt(v, j, e)
  BY <1>3, <1>4 DEF EntryAt
<1>7. SizesOK(w)
  BY <1>1, <1>3, <1>4, <1>5 DEF SizesOK
<1>8. OwnersOK(w)
  <2>1. \A j, l \in w.iused : \A k, m \in Slots :
          w.inodes[j].direct[k] # 0 /\ w.inodes[j].direct[k] = w.inodes[l].direct[m] => j = l /\ k = m
    <3>1. \A j, l \in v.iused : \A k, m \in Slots :
            v.inodes[j].direct[k] # 0 /\ v.inodes[j].direct[k] = v.inodes[l].direct[m] => j = l /\ k = m
      BY <1>1 DEF OwnersOK
    <3>. QED
      BY <1>3, <1>4, <3>1
  <2>2. \A j \in w.iused : \A k \in Slots : w.inodes[j].direct[k] # 0 => w.inodes[j].direct[k] \notin Tables
    BY <1>1, <1>3, <1>4 DEF OwnersOK
  <2>3. \A b \in Blocks : b \in w.bused <=> b \in Tables \/ \E j \in w.iused : \E k \in Slots : w.inodes[j].direct[k] = b
    BY <1>1, <1>3, <1>4 DEF OwnersOK
  <2>. QED
    BY <2>1, <2>2, <2>3 DEF OwnersOK
<1>9. CleanOK(w)
  BY <1>1, <1>3, <1>4, <1>6 DEF CleanOK
<1>10. BitsOK(w, nm, ls)
  BY <1>1, <1>4 DEF BitsOK
<1>11. NamesOK(w, nm, rm)
  <2>1. \A d \in Dirs(nm) : w.inodes[d].size = v.inodes[d].size /\ \A e : EntryAt(w, d, e) = EntryAt(v, d, e)
    BY <1>2, <1>3, <1>6
  <2>2. \A d \in Dirs(nm) : \A e \in 0 .. w.inodes[d].size - 1 : EntryOK(nm, rm, d, EntryAt(w, d, e))
    BY <1>1, <2>1 DEF NamesOK
  <2>3. \A j \in DOMAIN nm : \E d \in Dirs(nm) : \E e \in 0 .. w.inodes[d].size - 1 :
          EntryAt(w, d, e).inode = j /\ nm[j] = Append(PathOf(nm, d), EntryAt(w, d, e).name)
    <3>1. \A j \in DOMAIN nm : \E d \in Dirs(nm) : \E e \in 0 .. v.inodes[d].size - 1 :
            EntryAt(v, d, e).inode = j /\ nm[j] = Append(PathOf(nm, d), EntryAt(v, d, e).name)
      BY <1>1 DEF NamesOK
    <3>. QED
      BY <2>1, <3>1
  <2>. QED
    BY <1>1, <2>2, <2>3 DEF NamesOK
<1>. QED
  BY <1>7, <1>8, <1>9, <1>10, <1>11 DEF Tree

(* A new file that becomes a directory changes no names. *)
LEMMA AsDirectoryTree ==
  ASSUME NEW v, NEW nm, NEW rm, NEW ls, Typed(v), v.ok, Tree(v, nm, rm, ls), NEW i \in DOMAIN nm, v.inodes[i] = NewInode,
         NEW parent \in Inums, NEW w, w = AsDirectory(v, i, parent)
  PROVE  Typed(w) /\ w.ok = TRUE /\ Tree(w, nm, rm, ls)
<1>1. i \in v.iused /\ i \in Inums
  BY DirsInUse DEF Tree, Dirs, Typed
<1>2. /\ Typed(w)
      /\ Turned(v, w, i) \/ \E b \in Blocks \ v.bused : Furnished(v, w, i, Entry("..", parent), b)
  BY <1>1, AsDirectoryIs
<1>3. CASE Turned(v, w, i)
  <2>1. Tree(w, nm, rm, ls)
    BY <1>1, <1>3, TurnedTree
  <2>. QED
    BY <1>2, <1>3, <2>1 DEF Turned
<1>4. ASSUME NEW b \in Blocks \ v.bused, Furnished(v, w, i, Entry("..", parent), b)
      PROVE  Tree(w, nm, rm, ls) /\ w.ok = TRUE
  <2>1. v.inodes[i].size = 0 /\ \A k \in Slots : v.inodes[i].direct[k] = 0
    BY NewInodeIs
  <2>2. LastBlock(v, i) = 0 /\ 0 \in Slots
    BY <2>1, FirstTwo, VolumeIs DEF LastBlock
  <2>3. /\ w.iused = v.iused /\ w.bused = v.bused \cup {b}
        /\ w.inodes[i].type = "FT_DIR" /\ w.inodes[i].size = 2 /\ w.inodes[i].direct = [v.inodes[i].direct EXCEPT ![0] = b]
        /\ \A j \in v.iused \ {i} : w.inodes[j] = v.inodes[j]
        /\ \A c \in Blocks \ {b} : w.disk[c] = v.disk[c]
        /\ \A p \in 1 .. PerBlock : w.disk[b][p] = IF p = 2 THEN Entry("..", parent) ELSE v.disk[b][p]
    BY <1>4 DEF Furnished, Typed
  <2>4. 2 \in 0 + 1 .. Most /\ \A e \in 0 .. 2 - 1 : (e = 0 \/ e = 1) /\ e \div PerBlock = 0
    <3>1. \A e \in 0 .. 2 - 1 : e = 0 \/ e = 1
      OBVIOUS
    <3>. QED
      BY <3>1, FirstTwo, VolumeIs
  <2>5. ASSUME NEW e \in 0 .. Most - 1, e \notin 0 .. 2 - 1, e \div PerBlock = 0
        PROVE  w.disk[b][(e % PerBlock) + 1] = v.disk[b][(e % PerBlock) + 1]
    <3>1. e \in Nat /\ e # 1
      BY <2>5
    <3>2. e % PerBlock # 1
      BY <2>5, <3>1, FirstTwo, PlacesDiffer
    <3>3. (e % PerBlock) + 1 \in 1 .. PerBlock /\ e % PerBlock \in Nat
      BY <3>1, PlaceIs, VolumeIs
    <3>4. (e % PerBlock) + 1 # 2
      BY <3>2, <3>3
    <3>. QED
      BY <2>3, <3>3, <3>4
  <2>6. Extends(v, w, i, 2, b)
    BY <1>4, <2>1, <2>2, <2>3, <2>4, <2>5 DEF Extends
  <2>7. v.inodes[i].direct \in [Slots -> Blocks] /\ CleanOK(v)
    BY <1>1, InodeTyped DEF Tree
  <2>8. w.inodes[i].direct[0] = b
    BY <2>2, <2>3, <2>7
  <2>9. 1 \in 1 .. PerBlock /\ 2 \in 1 .. PerBlock
    BY VolumeIs
  <2>10. EntryAt(w, i, 0) = v.disk[b][1] /\ EntryAt(w, i, 1) = Entry("..", parent)
    <3>1. EntryAt(w, i, 0) = w.disk[b][0 + 1] /\ EntryAt(w, i, 1) = w.disk[b][1 + 1]
      BY <2>8, FirstTwo DEF EntryAt
    <3>. QED
      BY <2>3, <2>9, <3>1
  <2>11. EntryAt(w, i, 0).name \in Special /\ EntryAt(w, i, 1).name \in Special
    <3>1. v.disk[b][1].name \in Special
      BY <2>7, <2>9 DEF CleanOK
    <3>2. Entry("..", parent).name = ".." /\ ".." \in Special
      BY DEF Entry, Special
    <3>. QED
      BY <2>10, <3>1, <3>2
  <2>12. \A e \in v.inodes[i].size .. 2 - 1 : EntryAt(w, i, e).name \in Special
    BY <2>1, <2>4, <2>11
  <2>. QED
    BY <1>1, <1>4, <2>6, <2>12, GrownTree DEF Furnished
<1>. QED
  BY <1>2, <1>3, <1>4

(* A directory made of a file is in range, in any state. *)
LEMMA AsDirectoryRange ==
  ASSUME NEW v, Typed(v), v.ok \/ Blocks \subseteq v.bused, InRange(v),
         NEW i \in Inums, NEW parent \in Inums, NEW w, w = AsDirectory(v, i, parent)
  PROVE  Typed(w) /\ InRange(w)
<1>1. /\ Typed(w)
      /\ Turned(v, w, i) \/ \E b \in Blocks \ v.bused : Furnished(v, w, i, Entry("..", parent), b)
  BY AsDirectoryIs
<1>2. CASE Turned(v, w, i)
  BY <1>1, <1>2 DEF Turned, InRange
<1>3. CASE \E b \in Blocks \ v.bused : Furnished(v, w, i, Entry("..", parent), b)
  <2>1. w.inodes[i].size = 2 /\ \A j \in Inums \ {i} : w.inodes[j] = v.inodes[j]
    BY <1>3 DEF Furnished
  <2>. QED
    BY <1>1, <2>1, FirstTwo, VolumeIs DEF InRange
<1>. QED
  BY <1>1, <1>2, <1>3
-----------------------------------------------------------------------------
(* sfs_rmdir of a directory of two entries *)
Released(v, w, i) ==
  /\ w.ok = v.ok /\ w.iused = v.iused \ {i} /\ w.bused = v.bused \ {v.inodes[i].direct[0]} /\ w.disk = v.disk
  /\ w.inodes[i].type = v.inodes[i].type /\ w.inodes[i].size = v.inodes[i].size
  /\ \A j \in Inums \ {i} : w.inodes[j] = v.inodes[j]

(* sfs_rmdir gives up one inode and its first block. *)
LEMMA FreedIs ==
  ASSUME NEW v, Typed(v), NEW i \in Inums, NEW w, w = Freed(v, i)
  PROVE  Typed(w) /\ Released(v, w, i)
<1> DEFINE b == v.inodes[i].direct[0]
           x == [v.inodes[i] EXCEPT !.direct[0] = 0]
<1>1. DOMAIN v = Fields /\ DOMAIN v.inodes = Inums
  BY DEF Typed
<1>2. w = [v EXCEPT !.bused = @ \ {b}, !.inodes[i].direct[0] = 0, !.iused = @ \ {i}]
  BY DEF Freed
<1> HIDE DEF b
<1>3. /\ DOMAIN w = Fields /\ w.ok = v.ok /\ w.iused = v.iused \ {i} /\ w.bused = v.bused \ {b} /\ w.disk = v.disk
      /\ w.inodes = [v.inodes EXCEPT ![i] = x]
  BY <1>1, <1>2 DEF Fields
<1>4. /\ v.inodes[i] = [type |-> v.inodes[i].type, size |-> v.inodes[i].size, direct |-> v.inodes[i].direct]
      /\ v.inodes[i].direct \in [Slots -> Blocks]
  BY InodeTyped
<1>5. x = [type |-> v.inodes[i].type, size |-> v.inodes[i].size, direct |-> [v.inodes[i].direct EXCEPT ![0] = 0]]
  BY <1>4
<1>6. [v.inodes[i].direct EXCEPT ![0] = 0] \in [Slots -> Blocks]
  BY <1>4, VolumeIs
<1>7. x \in Inode /\ x.type = v.inodes[i].type /\ x.size = v.inodes[i].size
  <2>1. v.inodes[i] \in Inode
    BY DEF Typed
  <2>. QED
    BY <1>5, <1>6, <2>1 DEF Inode, Slots
<1> HIDE DEF x
<1>8. w.inodes \in [Inums -> Inode]
  BY <1>3, <1>7 DEF Typed
<1>9. w.inodes[i] = x /\ \A j \in Inums \ {i} : w.inodes[j] = v.inodes[j]
  BY <1>1, <1>3
<1>10. Typed(w)
  BY <1>3, <1>8 DEF Typed
<1>. QED
  BY <1>3, <1>7, <1>9, <1>10 DEF Released, b

(* A strict prefix: one name less, or less than that. *)
LEMMA StrictAppend ==
  ASSUME NEW p \in Seq(Names), NEW n \in Names
  PROVE  IsStrictPrefix(p, Append(p, n))
<1>1. IsPrefix(p, p)
  BY PrefixItself
<1>2. IsPrefix(p, Append(p, n))
  BY <1>1, PrefixOfAppend
<1>3. Len(Append(p, n)) = Len(p) + 1 /\ Len(p) \in Nat
  BY AppendProperties, LenProperties
<1>. QED
  BY <1>2, <1>3 DEF IsStrictPrefix

(* The names without one *)
Without(nm, i) == [j \in DOMAIN nm \ {i} |-> nm[j]]

(* The removal of a directory in which nothing was ever made. *)
LEMMA ReleasedTree ==
  ASSUME NEW v, NEW nm, NEW rm, NEW ls, Typed(v), Tree(v, nm, rm, ls), rm \subseteq Seq(Names), NEW i \in DOMAIN nm,
         v.inodes[i].size = 2, NEW w, Released(v, w, i),
         \A j \in DOMAIN nm : ~IsStrictPrefix(nm[i], nm[j]), \A p \in rm : ~IsStrictPrefix(nm[i], p)
  PROVE  Tree(w, Without(nm, i), rm \cup {nm[i]}, ls)
<1> DEFINE nn == Without(nm, i)
           rn == rm \cup {nm[i]}
           b == v.inodes[i].direct[0]
<1>1. SizesOK(v) /\ OwnersOK(v) /\ CleanOK(v) /\ BitsOK(v, nm, ls) /\ NamesOK(v, nm, rm)
  BY DEF Tree
<1>2. v.iused \subseteq Inums /\ Dirs(nm) \subseteq v.iused /\ i \in v.iused /\ i # Root
  BY <1>1, DirsInUse DEF Typed, BitsOK
<1>3. \A j \in v.iused \ {i} : w.inodes[j] = v.inodes[j]
  BY <1>2 DEF Released
<1>4. w.iused = v.iused \ {i} /\ w.bused = v.bused \ {b} /\ w.disk = v.disk
  BY DEF Released
<1>5. \A j \in v.iused \ {i} : \A e : EntryAt(w, j, e) = EntryAt(v, j, e)
  BY <1>3, <1>4 DEF EntryAt
<1>6. b \in Blocks /\ 0 \in Slots /\ v.inodes[i].direct \in [Slots -> Blocks]
  <2>1. v.inodes[i].direct \in [Slots -> Blocks]
    BY <1>2, InodeTyped
  <2>. QED
    BY <2>1, VolumeIs
<1> HIDE DEF b
<1>7. b # 0 /\ \A k \in Slots : v.inodes[i].direct[k] # 0 <=> k = 0
  <2>1. \A k \in Slots : v.inodes[i].direct[k] # 0 <=> \E e \in 0 .. 2 - 1 : e \div PerBlock = k
    BY <1>1, <1>2 DEF SizesOK
  <2>2. \A e \in 0 .. 2 - 1 : e = 0 \/ e = 1
    OBVIOUS
  <2>3. 0 \in 0 .. 2 - 1
    OBVIOUS
  <2>4. \A k \in Slots : v.inodes[i].direct[k] # 0 <=> k = 0
    BY <2>1, <2>2, <2>3, FirstTwo
  <2>. QED
    BY <1>6, <2>4 DEF b
<1>8. /\ \A j, l \in v.iused : \A k, m \in Slots :
           v.inodes[j].direct[k] # 0 /\ v.inodes[j].direct[k] = v.inodes[l].direct[m] => j = l /\ k = m
      /\ \A j \in v.iused : \A k \in Slots : v.inodes[j].direct[k] # 0 => v.inodes[j].direct[k] \notin Tables
      /\ \A c \in Blocks : c \in v.bused <=> c \in Tables \/ \E j \in v.iused : \E k \in Slots : v.inodes[j].direct[k] = c
  BY <1>1 DEF OwnersOK
<1>9. b \notin Tables /\ \A j \in v.iused \ {i} : \A k \in Slots : v.inodes[j].direct[k] # b
  <2>1. v.inodes[i].direct[0] = b
    BY DEF b
  <2>2. b \notin Tables
    BY <1>2, <1>6, <1>7, <1>8, <2>1
  <2>3. ASSUME NEW j \in v.iused \ {i}, NEW k \in Slots, v.inodes[j].direct[k] = b PROVE FALSE
    BY <1>2, <1>6, <1>7, <1>8, <2>1, <2>3
  <2>. QED
    BY <2>2, <2>3
<1>10. SizesOK(w)
  BY <1>1, <1>3, <1>4 DEF SizesOK
<1>11. OwnersOK(w)
  <2>1. \A j, l \in w.iused : \A k, m \in Slots :
          w.inodes[j].direct[k] # 0 /\ w.inodes[j].direct[k] = w.inodes[l].direct[m] => j = l /\ k = m
    <3>1. \A j, l \in v.iused : \A k, m \in Slots :
            v.inodes[j].direct[k] # 0 /\ v.inodes[j].direct[k] = v.inodes[l].direct[m] => j = l /\ k = m
      BY <1>8
    <3>. QED
      BY <1>3, <1>4, <3>1
  <2>2. \A j \in w.iused : \A k \in Slots : w.inodes[j].direct[k] # 0 => w.inodes[j].direct[k] \notin Tables
    BY <1>3, <1>4, <1>8
  <2>3. ASSUME NEW c \in Blocks
        PROVE  c \in w.bused <=> c \in Tables \/ \E j \in w.iused : \E k \in Slots : w.inodes[j].direct[k] = c
    <3>1. CASE c = b
      BY <1>3, <1>4, <1>9, <3>1
    <3>2. CASE c # b
      <4>1. c \in w.bused <=> c \in Tables \/ \E j \in v.iused : \E k \in Slots : v.inodes[j].direct[k] = c
        BY <1>4, <1>8, <3>2
      <4>2. (\E k \in Slots : v.inodes[i].direct[k] = c) => c \in Tables
        <5>1. \A k \in Slots : v.inodes[i].direct[k] = b \/ v.inodes[i].direct[k] = 0
          BY <1>7 DEF b
        <5>. QED
          BY <3>2, <5>1, VolumeIs
      <4>3. (\E j \in v.iused : \E k \in Slots : v.inodes[j].direct[k] = c) <=>
              (\E k \in Slots : v.inodes[i].direct[k] = c) \/ (\E j \in w.iused : \E k \in Slots : w.inodes[j].direct[k] = c)
        BY <1>2, <1>3, <1>4
      <4>. QED
        BY <4>1, <4>2, <4>3
    <3>. QED
      BY <3>1, <3>2
  <2>. QED
    BY <2>1, <2>2, <2>3 DEF OwnersOK
<1>12. nm[i] \in Seq(Names) /\ PathOf(nm, i) = nm[i] /\ i \in Dirs(nm)
  BY <1>1, <1>2 DEF NamesOK, Plain, PathOf, Dirs
<1>13. \A e \in 0 .. 1 : EntryAt(v, i, e).name \in Special
  <2>1. SUFFICES ASSUME NEW e \in 0 .. 1 PROVE EntryAt(v, i, e).name \in Special
    OBVIOUS
  <2>2. e \in 0 .. v.inodes[i].size - 1
    OBVIOUS
  <2>3. EntryOK(nm, rm, i, EntryAt(v, i, e))
    BY <1>1, <1>12, <2>2 DEF NamesOK
  <2>4. EntryAt(v, i, e).name \in Names
    <3>1. v.inodes[i].size <= Most
      BY <1>1, <1>2 DEF SizesOK
    <3>. QED
      BY <1>2, <2>2, <3>1, EntryTyped
  <2> DEFINE n == EntryAt(v, i, e).name
  <2>5. IsStrictPrefix(nm[i], Append(nm[i], n))
    BY <1>12, <2>4, StrictAppend
  <2>. QED
    BY <1>12, <2>3, <2>5 DEF EntryOK
<1>14. \A p \in 1 .. PerBlock : v.disk[b][p].name \in Special
  <2>1. SUFFICES ASSUME NEW p \in 1 .. PerBlock PROVE v.disk[b][p].name \in Special
    OBVIOUS
  <2> DEFINE e == p - 1
  <2>2. e \in 0 .. Most - 1 /\ e \div PerBlock = 0 /\ p = (e % PerBlock) + 1
    BY PlaceInBlock
  <2>3. EntryAt(v, i, e) = v.disk[b][p]
    BY <2>2 DEF EntryAt, b
  <2>4. EntryAt(v, i, e).name \in Special
    <3>1. CASE e \in 0 .. 1
      BY <1>13, <3>1
    <3>2. CASE e \notin 0 .. 1
      <4>1. e \in v.inodes[i].size .. Most - 1
        BY <2>2, <3>2, VolumeIs
      <4>2. v.inodes[i].direct[e \div PerBlock] # 0
        BY <1>6, <1>7, <2>2
      <4>. QED
        BY <1>1, <1>2, <4>1, <4>2 DEF CleanOK
    <3>. QED
      BY <3>1, <3>2
  <2>. QED
    BY <2>3, <2>4
<1>15. CleanOK(w)
  <2>1. \A c \in Blocks \ w.bused : \A p \in 1 .. PerBlock : w.disk[c][p].name \in Special
    BY <1>1, <1>4, <1>14 DEF CleanOK
  <2>2. \A j \in w.iused : \A e \in w.inodes[j].size .. Most - 1 :
          w.inodes[j].direct[e \div PerBlock] # 0 => EntryAt(w, j, e).name \in Special
    BY <1>1, <1>3, <1>4, <1>5 DEF CleanOK
  <2>. QED
    BY <2>1, <2>2 DEF CleanOK
<1>16. DOMAIN nn = DOMAIN nm \ {i} /\ \A j \in DOMAIN nm \ {i} : nn[j] = nm[j]
  BY DEF Without
<1> HIDE DEF nn
<1>17. Dirs(nn) = Dirs(nm) \ {i} /\ \A d \in Dirs(nn) : PathOf(nn, d) = PathOf(nm, d)
  BY <1>2, <1>16 DEF Dirs, PathOf
<1>18. BitsOK(w, nn, ls)
  BY <1>1, <1>2, <1>4, <1>16 DEF BitsOK
<1>19. \A d \in Dirs(nn) : w.inodes[d] = v.inodes[d] /\ \A e : EntryAt(w, d, e) = EntryAt(v, d, e)
  BY <1>2, <1>3, <1>5, <1>17
<1>20. ASSUME NEW j \in DOMAIN nn PROVE nn[j] # <<>> /\ Plain(nn[j]) /\ ~Through(rn, nn[j])
  <2>1. nn[j] = nm[j] /\ j \in DOMAIN nm /\ j # i /\ nm[j] # <<>> /\ Plain(nm[j]) /\ ~Through(rm, nm[j])
    BY <1>1, <1>16 DEF NamesOK
  <2>2. nm[j] # nm[i]
    BY <1>1, <2>1 DEF NamesOK
  <2>3. ~IsPrefix(nm[i], nm[j])
    BY <2>1, <2>2 DEF IsStrictPrefix
  <2>. QED
    BY <2>1, <2>3 DEF Through
<1>21. ASSUME NEW j \in DOMAIN nn, NEW k \in DOMAIN nn, nn[j] = nn[k] PROVE j = k
  BY <1>1, <1>16, <1>21 DEF NamesOK
<1>22. ASSUME NEW d \in Dirs(nn), NEW e \in 0 .. w.inodes[d].size - 1
       PROVE  EntryOK(nn, rn, d, EntryAt(w, d, e))
  <2> DEFINE x == EntryAt(w, d, e)
  <2>1. d \in Dirs(nm) /\ e \in 0 .. v.inodes[d].size - 1 /\ x = EntryAt(v, d, e)
    BY <1>17, <1>19
  <2>2. EntryOK(nm, rm, d, x)
    BY <1>1, <2>1 DEF NamesOK
  <2>3. PathOf(nn, d) = PathOf(nm, d)
    BY <1>17
  <2> HIDE DEF x
  <2>4. CASE x.inode = i /\ nm[i] = Append(PathOf(nm, d), x.name)
    <3>1. Append(PathOf(nn, d), x.name) \in rn
      BY <2>3, <2>4
    <3>. QED
      BY <3>1 DEF EntryOK, x
  <2>5. CASE ~(x.inode = i /\ nm[i] = Append(PathOf(nm, d), x.name))
    <3>1. \/ x.name \in Special
          \/ Append(PathOf(nn, d), x.name) \in rn
          \/ x.inode \in DOMAIN nm /\ nm[x.inode] = Append(PathOf(nn, d), x.name)
      BY <2>2, <2>3 DEF EntryOK
    <3>2. x.inode \in DOMAIN nm /\ nm[x.inode] = Append(PathOf(nn, d), x.name)
            => x.inode \in DOMAIN nn /\ nn[x.inode] = nm[x.inode]
      BY <1>16, <2>3, <2>5
    <3>. QED
      BY <3>1, <3>2 DEF EntryOK, x
  <2>. QED
    BY <2>4, <2>5 DEF x
<1>23. ASSUME NEW j \in DOMAIN nn
       PROVE  \E d \in Dirs(nn) : \E e \in 0 .. w.inodes[d].size - 1 :
                EntryAt(w, d, e).inode = j /\ nn[j] = Append(PathOf(nn, d), EntryAt(w, d, e).name)
  <2>1. j \in DOMAIN nm /\ nn[j] = nm[j]
    BY <1>16
  <2>2. PICK d \in Dirs(nm) : \E e \in 0 .. v.inodes[d].size - 1 :
          EntryAt(v, d, e).inode = j /\ nm[j] = Append(PathOf(nm, d), EntryAt(v, d, e).name)
    BY <1>1, <2>1 DEF NamesOK
  <2>3. PICK e \in 0 .. v.inodes[d].size - 1 :
          EntryAt(v, d, e).inode = j /\ nm[j] = Append(PathOf(nm, d), EntryAt(v, d, e).name)
    BY <2>2
  <2>4. d # i
    <3>1. SUFFICES ASSUME d = i PROVE FALSE
      OBVIOUS
    <3>2. EntryAt(v, i, e).name \in Names
      <4>1. v.inodes[i].size <= Most
        BY <1>1, <1>2 DEF SizesOK
      <4>. QED
        BY <1>2, <2>3, <3>1, <4>1, EntryTyped
    <3>3. IsStrictPrefix(nm[i], nm[j])
      BY <1>12, <2>3, <3>1, <3>2, StrictAppend
    <3>. QED
      BY <2>1, <3>3
  <2>5. d \in Dirs(nn)
    BY <1>17, <2>4
  <2>6. w.inodes[d] = v.inodes[d] /\ EntryAt(w, d, e) = EntryAt(v, d, e) /\ PathOf(nn, d) = PathOf(nm, d)
    BY <1>17, <1>19, <2>5
  <2>. QED
    BY <2>1, <2>3, <2>5, <2>6
<1>24. NamesOK(w, nn, rn)
  BY <1>20, <1>21, <1>22, <1>23 DEF NamesOK
<1>. QED
  BY <1>10, <1>11, <1>15, <1>18, <1>24 DEF Tree, nn
-----------------------------------------------------------------------------
(* The volume as the variables have it after a call, whatever became of    *)
(* its last write                                                          *)
Fine(w) == [inodes |-> w.inodes, iused |-> w.iused, bused |-> w.bused, disk |-> w.disk, ok |-> TRUE]

(* It is a volume as before. *)
LEMMA FineIs ==
  ASSUME NEW w, Typed(w)
  PROVE  /\ Typed(Fine(w))
         /\ InRange(w) => InRange(Fine(w))
<1>1. DOMAIN Fine(w) = Fields
  BY DEF Fine, Fields
<1>2. /\ Fine(w).inodes = w.inodes /\ Fine(w).iused = w.iused /\ Fine(w).bused = w.bused
      /\ Fine(w).disk = w.disk /\ Fine(w).ok = TRUE
  BY DEF Fine
<1>. QED
  BY <1>1, <1>2 DEF Typed, InRange

(* It holds the same tree. *)
LEMMA FineTree ==
  ASSUME NEW w, NEW nm, NEW rm, NEW ls, Tree(w, nm, rm, ls)
  PROVE  Tree(Fine(w), nm, rm, ls)
<1> DEFINE v == Fine(w)
<1>1. v.inodes = w.inodes /\ v.iused = w.iused /\ v.bused = w.bused /\ v.disk = w.disk
  BY DEF Fine
<1> HIDE DEF v
<1>2. \A d, e : EntryAt(v, d, e) = EntryAt(w, d, e)
  BY <1>1 DEF EntryAt
<1>3. SizesOK(v) <=> SizesOK(w)
  BY <1>1 DEF SizesOK
<1>4. OwnersOK(v) <=> OwnersOK(w)
  BY <1>1 DEF OwnersOK
<1>5. CleanOK(v) <=> CleanOK(w)
  BY <1>1, <1>2 DEF CleanOK
<1>6. BitsOK(v, nm, ls) <=> BitsOK(w, nm, ls)
  BY <1>1 DEF BitsOK
<1>7. NamesOK(v, nm, rm) <=> NamesOK(w, nm, rm)
  BY <1>1, <1>2 DEF NamesOK
<1>. QED
  BY <1>3, <1>4, <1>5, <1>6, <1>7 DEF Tree, v

(* Lookup in a volume whose tree is right *)
LEMMA LookupTree ==
  ASSUME NEW v, NEW nm, NEW rm, NEW ls, Typed(v), Tree(v, nm, rm, ls), rm \subseteq Seq(Names),
         NEW p, Plain(p), ~Through(rm, p)
  PROVE  Leads(nm, p, Lookup(v, p))
<1>1. p \in Seq(Names) /\ NamesOK(v, nm, rm) /\ BitsOK(v, nm, ls) /\ SizesOK(v)
  BY DEF Tree, Plain
<1>2. Dirs(nm) \subseteq v.iused /\ Root \notin DOMAIN nm /\ v.iused \subseteq Inums
  BY <1>1, DirsInUse DEF Typed
<1>3. DOMAIN nm \subseteq Inums /\ \A i \in Dirs(nm) : v.inodes[i].size <= Most
  BY <1>1, <1>2 DEF Dirs, SizesOK
<1>. QED
  BY <1>1, <1>2, <1>3, LookupFinds

(* Paths that callers use *)
LEMMA PathIs ==
  ASSUME NEW p \in Paths
  PROVE  /\ p \in Seq(Names) /\ p # <<>> /\ Plain(p)
         /\ Parent(p) \in Seq(Names) /\ Plain(Parent(p)) /\ Name(p) \in Names /\ p = Append(Parent(p), Name(p))
<1>1. p \in Seq(STRING) /\ p # <<>> /\ \A k \in DOMAIN p : p[k] \notin Special
  BY SfsDirsAssumption DEF Special
<1>2. p \in Seq(Names)
  <2>1. STRING \subseteq Names
    BY DEF Names
  <2>. QED
    BY <1>1, <2>1, SeqMonotonic
<1>3. Plain(p)
  <2>1. DOMAIN p = 1 .. Len(p)
    BY <1>2, LenProperties
  <2>. QED
    BY <1>1, <1>2, <2>1 DEF Plain
<1>4. /\ Parent(p) \in Seq(Names) /\ Name(p) \in Names /\ p = Append(Parent(p), Name(p))
      /\ Len(p) \in Nat /\ Len(p) >= 1 /\ Len(Parent(p)) = Len(p) - 1
  BY <1>1, <1>2, PathParts
<1>5. Plain(Parent(p))
  <2>1. Parent(p) = SubSeq(p, 1, Len(p) - 1) /\ Len(p) - 1 \in 0 .. Len(p)
    BY <1>4 DEF Parent
  <2>2. \A k \in 1 .. Len(p) - 1 : Parent(p)[k] = p[k]
    BY <1>2, <2>1, FirstNames
  <2>3. \A k \in 1 .. Len(Parent(p)) : k \in 1 .. Len(p) /\ Parent(p)[k] = p[k]
    BY <1>4, <2>2
  <2>. QED
    BY <1>3, <1>4, <2>3 DEF Plain
<1>. QED
  BY <1>1, <1>2, <1>3, <1>4, <1>5

(* The paths of callers are sequences of names. *)
LEMMA PathsAre == Paths \subseteq Seq(Names)
BY PathIs

(* What is not under a removed directory has a parent that is not either. *)
LEMMA ParentThrough ==
  ASSUME NEW p \in Paths, NEW rm \in SUBSET Paths, ~Through(rm, p)
  PROVE  ~Through(rm, Parent(p))
<1>1. SUFFICES ASSUME NEW q \in rm, IsPrefix(q, Parent(p)) PROVE IsPrefix(q, p)
  BY DEF Through
<1>2. q \in Seq(Names) /\ Parent(p) \in Seq(Names) /\ Name(p) \in Names /\ p = Append(Parent(p), Name(p))
  BY PathIs
<1>. QED
  BY <1>1, <1>2, PrefixOfAppend
-----------------------------------------------------------------------------
(* The volume in a state, by its parts *)
LEMMA VolumeParts ==
  /\ Volume.inodes = inodes /\ Volume.iused = iused /\ Volume.bused = bused /\ Volume.disk = disk /\ Volume.ok = TRUE
BY DEF Volume

(* After a call the variables hold what the call made. *)
LEMMA BecomesFine ==
  ASSUME NEW w, NEW a, Becomes(w, a)
  PROVE  Volume' = Fine(w) /\ answer' = a
BY DEF Becomes, Volume, Fine

(* What is in a call's path *)
LEMMA ParentFound ==
  ASSUME IInv, Sound, NEW p \in Paths, ~ThroughRemoved(p), ParentOf(p) # None
  PROVE  ParentOf(p) \in Dirs(named) /\ PathOf(named, ParentOf(p)) = Parent(p)
<1>1. Typed(Volume) /\ Tree(Volume, named, removed, lost) /\ removed \subseteq Paths
  BY DEF IInv
<1>2. ~Through(removed, p)
  BY DEF ThroughRemoved, Through
<1>3. Leads(named, Parent(p), ParentOf(p))
  BY <1>1, <1>2, PathIs, PathsAre, ParentThrough, LookupTree DEF ParentOf
<1>4. Root \notin DOMAIN named
  BY <1>1 DEF Tree, BitsOK
<1>. QED
  BY <1>3, <1>4 DEF Leads, Dirs, PathOf

(* A path that is not under a removed directory leads where the names say. *)
LEMMA PathFound ==
  ASSUME IInv, Sound, NEW p \in Paths, ~ThroughRemoved(p)
  PROVE  \/ Lookup(Volume, p) = None /\ \A j \in DOMAIN named : named[j] # p
         \/ Lookup(Volume, p) # None /\ Lookup(Volume, p) \in DOMAIN named /\ named[Lookup(Volume, p)] = p
<1>1. Typed(Volume) /\ Tree(Volume, named, removed, lost) /\ removed \subseteq Paths /\ DOMAIN named \subseteq Inums
  BY DEF IInv
<1>2. ~Through(removed, p)
  BY DEF ThroughRemoved, Through
<1>3. Leads(named, p, Lookup(Volume, p)) /\ p # <<>>
  BY <1>1, <1>2, PathIs, PathsAre, LookupTree
<1>. QED
  BY <1>1, <1>3, VolumeIs DEF Leads

(* Whatever was done before, a lookup answers an inode or none. *)
LEMMA LookupInums ==
  ASSUME IInv, stage = "running", NEW p \in Seq(Names)
  PROVE  Lookup(Volume, p) \in Inums \cup {None}
BY LookupTyped DEF IInv

(* A call that leaves the volume and the names alone *)
LEMMA QuietStep ==
  ASSUME IInv, stage = "running", NEW a \in {0, 1, -1}, Becomes(Volume, a), NEW p, Uses(p),
         stage' \in {"running", "wrecked"}, UNCHANGED <<named, lost, removed>>
  PROVE  IInv'
<1>1. /\ Typed(Volume) /\ InRange(Volume) /\ ghost \in BOOLEAN /\ DOMAIN named \subseteq Inums /\ removed \subseteq Paths
      /\ Sound => Tree(Volume, named, removed, lost)
  BY DEF IInv
<1>2. Volume' = Fine(Volume) /\ answer' = a
  BY BecomesFine
<1>3. Typed(Volume') /\ InRange(Volume')
  BY <1>1, <1>2, FineIs
<1>4. ghost' \in BOOLEAN /\ (~ghost' => ~ghost)
  BY <1>1 DEF Uses
<1>5. named' = named /\ lost' = lost /\ removed' = removed
  OBVIOUS
<1>6. Sound' => Tree(Volume', named', removed', lost')
  <2>1. SUFFICES ASSUME Sound' PROVE Tree(Volume', named', removed', lost')
    OBVIOUS
  <2>2. Sound
    BY <1>4, <2>1 DEF Sound
  <2>3. Tree(Fine(Volume), named, removed, lost)
    BY <1>1, <2>2, FineTree
  <2>. QED
    BY <1>2, <1>5, <2>3
<1>7. answer' \in {0, 1, -1} /\ DOMAIN named' \subseteq Inums /\ removed' \subseteq Paths
  BY <1>1, <1>2, <1>5
<1>. QED
  BY <1>3, <1>4, <1>6, <1>7 DEF IInv

(* A call after which the volume is not followed any more *)
LEMMA WreckStep ==
  ASSUME IInv, NEW w, Typed(w), NEW a \in {0, 1, -1}, Becomes(w, a), NEW p, Uses(p),
         stage' = "wrecked", UNCHANGED <<named, lost, removed>>
  PROVE  IInv'
<1>1. ghost \in BOOLEAN /\ DOMAIN named \subseteq Inums /\ removed \subseteq Paths
  BY DEF IInv
<1>2. Volume' = Fine(w) /\ answer' = a
  BY BecomesFine
<1>3. Typed(Volume')
  BY <1>2, FineIs
<1>4. ghost' \in BOOLEAN
  BY <1>1 DEF Uses
<1>5. answer' \in {0, 1, -1} /\ DOMAIN named' \subseteq Inums /\ removed' \subseteq Paths
  BY <1>1, <1>2
<1>6. stage' # "running" /\ ~Sound'
  BY DEF Sound
<1>. QED
  BY <1>3, <1>4, <1>5, <1>6 DEF IInv

(* The file that sfs_creat makes *)
LEMMA FileIs ==
  ASSUME IInv, stage = "running", NEW p \in Paths, InBounds(p), CanCreate(p), ~Exists(p),
         NEW i, i = FirstCleared(iused, super.num_inodes)
  PROVE  /\ i \in Inums \ iused /\ ParentOf(p) \in Inums
         /\ Typed(File(p)) /\ InRange(File(p)) /\ (File(p).ok \/ Blocks \subseteq File(p).bused)
         /\ ~ghost /\ ~ThroughRemoved(p) =>
              /\ File(p).inodes[i] = NewInode
              /\ \/ File(p).ok = TRUE /\ Tree(File(p), Also(named, i, p), removed, lost)
                 \/ File(p).ok = FALSE /\ Full /\ Tree(File(p), named, removed, lost \cup {i})
<1> DEFINE d == ParentOf(p)
           n == Name(p)
           w == File(p)
<1>1. /\ Typed(Volume) /\ InRange(Volume) /\ Volume.ok /\ Volume.ok = TRUE
      /\ Volume.iused = iused /\ Volume.inodes = inodes /\ Volume.bused = bused
  BY VolumeParts DEF IInv
<1>2. /\ p \in Seq(Names) /\ p # <<>> /\ Plain(p) /\ Parent(p) \in Seq(Names) /\ n \in Names /\ p = Append(Parent(p), n)
  BY PathIs
<1>3. d # None /\ inodes[d].type = "FT_DIR" /\ i # None
  BY DEF CanCreate
<1>4. d \in Inums
  BY <1>2, <1>3, LookupInums DEF ParentOf
<1>5. Volume.inodes[d].size < Most /\ Volume.inodes[d].type = "FT_DIR"
  BY <1>1, <1>3 DEF InBounds, Most
<1>6. i \in Inums \ Volume.iused /\ i = FirstCleared(Volume.iused, super.num_inodes)
  BY <1>1, <1>3, InodeTaken
<1>7. w = Created(Volume, d, n)
  BY DEF File
<1> HIDE DEF d, n, w
<1>8. Typed(w) /\ InRange(w) /\ (w.ok \/ Blocks \subseteq w.bused)
  BY <1>1, <1>2, <1>4, <1>5, <1>6, <1>7, CreatedRange
<1>9. ASSUME ~ghost, ~ThroughRemoved(p)
      PROVE  /\ w.inodes[i] = NewInode
             /\ \/ w.ok = TRUE /\ Tree(w, Also(named, i, p), removed, lost)
                \/ w.ok = FALSE /\ Full /\ Tree(w, named, removed, lost \cup {i})
  <2>1. Sound
    BY <1>9 DEF Sound
  <2>2. d \in Dirs(named) /\ PathOf(named, d) = Parent(p)
    BY <1>3, <1>9, <2>1, ParentFound DEF d
  <2>3. Tree(Volume, named, removed, lost)
    BY <2>1 DEF IInv
  <2>4. Lookup(Volume, p) = None
    BY DEF Exists
  <2>5. \A j \in DOMAIN named : named[j] # p
    BY <1>9, <2>1, <2>4, PathFound
  <2>6. ~Through(removed, p)
    BY <1>9 DEF ThroughRemoved, Through
  <2>7. p = Append(PathOf(named, d), n)
    BY <1>2, <2>2
  <2>8. /\ w.inodes[i] = NewInode
        /\ \/ w.ok = TRUE /\ Tree(w, Also(named, i, p), removed, lost)
           \/ w.ok = FALSE /\ Blocks \subseteq Volume.bused /\ Tree(w, named, removed, lost \cup {i})
    <3> DEFINE v == Volume
    <3>1. Typed(v) /\ v.ok /\ Tree(v, named, removed, lost)
      BY <1>1, <2>3
    <3>2. d \in Dirs(named) /\ v.inodes[d].type = "FT_DIR" /\ v.inodes[d].size < Most
      BY <1>5, <2>2
    <3>3. n \in Names /\ p # <<>> /\ Plain(p)
      BY <1>2
    <3>4. i \in Inums \ v.iused /\ i = FirstCleared(v.iused, super.num_inodes) /\ w = Created(v, d, n)
      BY <1>6, <1>7
    <3> HIDE DEF v
    <3>5. /\ w.inodes[i] = NewInode
          /\ \/ w.ok = TRUE /\ Tree(w, Also(named, i, p), removed, lost)
             \/ w.ok = FALSE /\ Blocks \subseteq v.bused /\ Tree(w, named, removed, lost \cup {i})
      <4>1. NewName(v, named, removed, d, n, p)
        BY <2>5, <2>6, <2>7, <3>2, <3>3 DEF NewName
      <4>2. Outcome(v, Created(v, d, n), named, removed, lost, FirstCleared(v.iused, super.num_inodes), p)
        BY <3>1, <3>4, <4>1, CreatedTree
      <4>. QED
        BY <3>4, <4>2 DEF Outcome
    <3>. QED
      BY <3>5 DEF v
  <2>9. Blocks \subseteq bused => Full
    <3>1. Blocks = 0 .. super.num_blocks - 1 /\ super.num_blocks \in Nat
      BY SuperIs DEF Blocks
    <3>2. Blocks \subseteq bused => (0 .. super.num_blocks - 1) \ bused = {}
      BY <3>1
    <3>. QED
      BY <3>2 DEF Full, FirstCleared
  <2>. QED
    BY <1>1, <2>8, <2>9
<1>. QED
  BY <1>1, <1>4, <1>6, <1>8, <1>9 DEF d, w
-----------------------------------------------------------------------------
(* The volume that mkfs_sfs makes *)
RootInode == [type |-> "FT_DIR", size |-> 2, direct |-> [NoBlocks EXCEPT ![0] = super.rootdir]]
RootBlock == [Zeros EXCEPT ![1] = Entry(".", Root), ![2] = Entry("..", Root)]
BootBlock == [Zeros EXCEPT ![1] = Entry("Master Boot Record", 0)]

(* The root's inode *)
LEMMA RootInodeIs ==
  /\ RootInode \in Inode /\ RootInode.type = "FT_DIR" /\ RootInode.size = 2
  /\ \A k \in Slots : RootInode.direct[k] = IF k = 0 THEN super.rootdir ELSE 0
<1> DEFINE f == [NoBlocks EXCEPT ![0] = super.rootdir]
<1>1. NoBlocks = [k \in Slots |-> 0]
  BY DEF NoBlocks, Slots
<1>2. f \in [Slots -> Blocks] /\ \A k \in Slots : f[k] = IF k = 0 THEN super.rootdir ELSE 0
  BY <1>1, VolumeIs
<1> HIDE DEF f
<1>3. RootInode = [type |-> "FT_DIR", size |-> 2, direct |-> f]
  BY DEF RootInode, f
<1>4. 2 \in 0 .. NumDirect * PerBlock + 1
  BY FirstTwo, VolumeIs DEF Most
<1>. QED
  BY <1>2, <1>3, <1>4 DEF Inode, Slots

(* The blocks that are not empty hold entries, the root's no names. *)
LEMMA RootBlocksAre ==
  /\ Zeros \in [1 .. PerBlock -> EntrySet] /\ \A p \in 1 .. PerBlock : Zeros[p].name \in Special
  /\ RootBlock \in [1 .. PerBlock -> EntrySet] /\ \A p \in 1 .. PerBlock : RootBlock[p].name \in Special
  /\ BootBlock \in [1 .. PerBlock -> EntrySet]
<1>1. /\ Entry("", 0) \in EntrySet /\ Entry(".", Root) \in EntrySet /\ Entry("..", Root) \in EntrySet
      /\ Entry("Master Boot Record", 0) \in EntrySet
  BY VolumeIs DEF Entry, EntrySet, Names, Special, Root
<1>2. Entry("", 0).name \in Special /\ Entry(".", Root).name \in Special /\ Entry("..", Root).name \in Special
  BY DEF Entry, Special
<1>3. Zeros \in [1 .. PerBlock -> EntrySet] /\ \A p \in 1 .. PerBlock : Zeros[p].name \in Special
  BY <1>1, <1>2 DEF Zeros
<1>4. 1 \in 1 .. PerBlock /\ 2 \in 1 .. PerBlock
  BY VolumeIs
<1>5. BootBlock \in [1 .. PerBlock -> EntrySet]
  BY <1>1, <1>3, <1>4 DEF BootBlock
<1> DEFINE x == [Zeros EXCEPT ![1] = Entry(".", Root)]
<1>6. x \in [1 .. PerBlock -> EntrySet] /\ \A p \in 1 .. PerBlock : x[p].name \in Special
  BY <1>1, <1>2, <1>3, <1>4
<1>7. RootBlock = [x EXCEPT ![2] = Entry("..", Root)]
  BY DEF RootBlock
<1> HIDE DEF x
<1>8. RootBlock \in [1 .. PerBlock -> EntrySet] /\ \A p \in 1 .. PerBlock : RootBlock[p].name \in Special
  BY <1>1, <1>2, <1>4, <1>6, <1>7
<1>. QED
  BY <1>3, <1>5, <1>8

(* The new volume holds the empty tree. *)
LEMMA InitOK == Init => IInv
<1> SUFFICES ASSUME Init PROVE IInv
  OBVIOUS
<1>1. /\ Volume.inodes = inodes /\ Volume.iused = {Root} /\ Volume.bused = Tables \cup {super.rootdir}
      /\ Volume.disk = disk /\ Volume.ok = TRUE /\ DOMAIN Volume = Fields
  <2>1. DOMAIN Volume = Fields
    BY DEF Volume, Fields
  <2>. QED
    BY <2>1, VolumeIs DEF Init, Volume
<1>2. inodes = [i \in Inums |-> IF i = Root THEN RootInode ELSE NewInode]
  BY DEF Init, RootInode
<1>3. disk = [b \in Blocks |-> IF b = super.rootdir THEN RootBlock ELSE IF b = 0 THEN BootBlock ELSE Zeros]
  <2>1. disk = [b \in Blocks |-> CASE b = super.rootdir -> RootBlock [] b = 0 -> BootBlock [] OTHER -> Zeros]
    BY DEF Init, RootBlock, BootBlock
  <2>2. super.rootdir # 0
    BY VolumeIs
  <2>. QED
    BY <2>1, <2>2
<1>4. named = [i \in {} |-> <<>>] /\ lost = {} /\ removed = {} /\ ghost = FALSE /\ stage = "running" /\ answer = 0
  BY DEF Init
<1>5. /\ \A b \in Blocks \ {super.rootdir, 0} : disk[b] = Zeros
      /\ disk[super.rootdir] = RootBlock /\ super.rootdir # 0
  BY <1>3, VolumeIs
<1>6. inodes[Root] = RootInode /\ \A i \in Inums : inodes[i] \in {RootInode, NewInode}
  BY <1>2, VolumeIs
<1>7. Typed(Volume)
  <2>1. inodes \in [Inums -> Inode]
    BY <1>2, RootInodeIs, NewInodeTyped
  <2>2. disk \in [Blocks -> [1 .. PerBlock -> EntrySet]]
    BY <1>3, RootBlocksAre
  <2>3. {Root} \subseteq Inums /\ Tables \cup {super.rootdir} \subseteq Blocks
    BY VolumeIs
  <2>. QED
    BY <1>1, <2>1, <2>2, <2>3 DEF Typed
<1> DEFINE v == Volume
<1>8. v.inodes[Root] = RootInode /\ v.iused = {Root}
  BY <1>1, <1>6
<1>9. v.bused = Tables \cup {super.rootdir} /\ v.disk = disk
  BY <1>1
<1> HIDE DEF v
<1>10. InRange(v)
  <2>1. RootInode.size <= Most /\ NewInode.size <= Most
    BY RootInodeIs, NewInodeIs, FirstTwo, VolumeIs
  <2>. QED
    BY <1>1, <1>6, <2>1 DEF InRange, v
<1>11. SizesOK(v)
  <2>1. \A k \in Slots : RootInode.direct[k] # 0 <=> \E e \in 0 .. 2 - 1 : e \div PerBlock = k
    <3>1. \A k \in Slots : RootInode.direct[k] # 0 <=> k = 0
      BY <1>5, RootInodeIs
    <3>2. \A e \in 0 .. 2 - 1 : e = 0 \/ e = 1
      OBVIOUS
    <3>3. 0 \in 0 .. 2 - 1
      OBVIOUS
    <3>4. \A k \in Slots : (\E e \in 0 .. 2 - 1 : e \div PerBlock = k) <=> k = 0
      BY <3>2, <3>3, FirstTwo
    <3>. QED
      BY <3>1, <3>4
  <2>. QED
    BY <1>8, <2>1, RootInodeIs, FirstTwo DEF SizesOK
<1>12. OwnersOK(v)
  <2>1. \A k \in Slots : RootInode.direct[k] # 0 => k = 0 /\ RootInode.direct[k] = super.rootdir
    BY RootInodeIs
  <2>2. 0 \in Slots /\ RootInode.direct[0] = super.rootdir
    BY RootInodeIs, VolumeIs
  <2>3. \A k, l \in Slots : RootInode.direct[k] # 0 /\ RootInode.direct[k] = RootInode.direct[l] => k = l
    BY <2>1
  <2>4. \A b \in Blocks : b \in v.bused <=> b \in Tables \/ \E k \in Slots : RootInode.direct[k] = b
    <3>1. \A b \in Blocks : (\E k \in Slots : RootInode.direct[k] = b) => b = 0 \/ b = super.rootdir
      BY <2>1
    <3>. QED
      BY <1>9, <2>2, <3>1, VolumeIs
  <2>. QED
    BY <1>8, <2>1, <2>3, <2>4, VolumeIs DEF OwnersOK
<1>13. CleanOK(v)
  <2>1. \A b \in Blocks \ v.bused : \A p \in 1 .. PerBlock : v.disk[b][p].name \in Special
    BY <1>5, <1>9, RootBlocksAre, VolumeIs
  <2>2. ASSUME NEW e \in RootInode.size .. Most - 1, RootInode.direct[e \div PerBlock] # 0
        PROVE  EntryAt(v, Root, e).name \in Special
    <3>1. e \in 0 .. Most - 1
      BY RootInodeIs, VolumeIs
    <3>2. e \div PerBlock \in Slots /\ (e % PerBlock) + 1 \in 1 .. PerBlock
      BY <3>1, PlaceIs
    <3>3. RootInode.direct[e \div PerBlock] = super.rootdir
      BY <2>2, <3>2, RootInodeIs
    <3>4. EntryAt(v, Root, e) = RootBlock[(e % PerBlock) + 1]
      BY <1>5, <1>8, <1>9, <3>3 DEF EntryAt
    <3>. QED
      BY <3>2, <3>4, RootBlocksAre
  <2>. QED
    BY <1>8, <2>1, <2>2 DEF CleanOK
<1>14. DOMAIN named = {} /\ Dirs(named) = {Root}
  BY <1>4 DEF Dirs
<1>15. BitsOK(v, named, lost)
  BY <1>4, <1>8, <1>14 DEF BitsOK
<1>16. NamesOK(v, named, removed)
  <2>1. ASSUME NEW e \in 0 .. v.inodes[Root].size - 1 PROVE EntryOK(named, removed, Root, EntryAt(v, Root, e))
    <3>1. e \in {0, 1}
      BY <1>8, RootInodeIs
    <3>2. e \div PerBlock = 0 /\ (e % PerBlock) + 1 \in 1 .. PerBlock
      <4>1. /\ 0 \div PerBlock = 0 /\ (0 % PerBlock) + 1 \in 1 .. PerBlock
            /\ 1 \div PerBlock = 0 /\ (1 % PerBlock) + 1 \in 1 .. PerBlock
        <5>1. 0 + 1 \in 1 .. PerBlock /\ 1 + 1 \in 1 .. PerBlock
          BY VolumeIs
        <5>. QED
          BY <5>1, FirstTwo
      <4>. QED
        BY <3>1, <4>1
    <3>3. RootInode.direct[0] = super.rootdir
      BY RootInodeIs, VolumeIs
    <3>4. EntryAt(v, Root, e) = RootBlock[(e % PerBlock) + 1]
      BY <1>5, <1>8, <1>9, <3>2, <3>3 DEF EntryAt
    <3>. QED
      BY <3>2, <3>4, RootBlocksAre DEF EntryOK
  <2>. QED
    BY <1>14, <2>1 DEF NamesOK
<1>17. Tree(v, named, removed, lost)
  BY <1>11, <1>12, <1>13, <1>15, <1>16 DEF Tree
<1>. QED
  BY <1>4, <1>7, <1>10, <1>14, <1>17 DEF IInv, v
-----------------------------------------------------------------------------
(* A call that creates a file *)
LEMMA AddsStep ==
  ASSUME IInv, stage = "running", NEW w, Typed(w), InRange(w), NEW a \in {0, 1, -1}, NEW p \in Paths, Adds(w, a, p),
         NEW i \in Inums, i = FirstCleared(iused, super.num_inodes),
         ~ghost /\ ~ThroughRemoved(p) =>
           \/ w.ok = TRUE /\ Tree(w, Also(named, i, p), removed, lost)
           \/ w.ok = FALSE /\ Tree(w, named, removed, lost \cup {i})
  PROVE  IInv'
<1>1. ghost \in BOOLEAN /\ DOMAIN named \subseteq Inums /\ removed \subseteq Paths
  BY DEF IInv
<1>2. /\ Becomes(w, a) /\ Uses(p) /\ stage' = stage /\ removed' = removed
      /\ named' = IF w.ok THEN Also(named, i, p) ELSE named
      /\ lost' = IF w.ok THEN lost ELSE lost \cup {i}
  BY DEF Adds, Also
<1>3. Volume' = Fine(w) /\ answer' = a
  BY <1>2, BecomesFine
<1>4. Typed(Volume') /\ InRange(Volume')
  BY <1>3, FineIs
<1>5. ghost' \in BOOLEAN /\ (~ghost' => ~ghost /\ ~ThroughRemoved(p))
  BY <1>1, <1>2 DEF Uses, ThroughRemoved
<1>6. DOMAIN named' \subseteq Inums
  <2>1. DOMAIN Also(named, i, p) = DOMAIN named \cup {i}
    BY DEF Also
  <2>. QED
    BY <1>1, <1>2, <2>1
<1>7. ASSUME Sound' PROVE Tree(Volume', named', removed', lost')
  <2>1. ~ghost /\ ~ThroughRemoved(p)
    BY <1>5, <1>7 DEF Sound
  <2>2. CASE w.ok = TRUE /\ Tree(w, Also(named, i, p), removed, lost)
    <3>1. Tree(Fine(w), Also(named, i, p), removed, lost)
      BY <2>2, FineTree
    <3>. QED
      BY <1>2, <1>3, <2>2, <3>1
  <2>3. CASE w.ok = FALSE /\ Tree(w, named, removed, lost \cup {i})
    <3>1. Tree(Fine(w), named, removed, lost \cup {i})
      BY <2>3, FineTree
    <3>. QED
      BY <1>2, <1>3, <2>3, <3>1
  <2>. QED
    BY <2>1, <2>2, <2>3
<1>8. answer' \in {0, 1, -1} /\ stage' \in {"running", "wrecked"} /\ removed' \subseteq Paths
  BY <1>1, <1>2, <1>3
<1>. QED
  BY <1>4, <1>5, <1>6, <1>7, <1>8 DEF IInv

(* An entry that went to the wrong directory *)
LEMMA MisplacedTyped ==
  ASSUME IInv, stage = "running", NEW p \in Paths, NEW d \in Inums, inodes[d].size < NumDirect * PerBlock,
         FirstCleared(iused, super.num_inodes) # None
  PROVE  Typed(Misplaced(d, p))
<1> DEFINE w == Created(Volume, d, Name(p))
           i == FirstCleared(iused, super.num_inodes)
<1>1. /\ Typed(Volume) /\ Volume.ok /\ Volume.iused = iused /\ Volume.inodes = inodes
      /\ inodes \in [Inums -> Inode]
  BY VolumeParts DEF IInv, Typed
<1>2. i \in Inums /\ i = FirstCleared(Volume.iused, super.num_inodes)
  <2>1. FirstCleared(Volume.iused, super.num_inodes) # None
    BY <1>1
  <2>. QED
    BY <1>1, <2>1, InodeTaken
<1>3. Volume.inodes[d].size < Most /\ Name(p) \in Names
  BY <1>1, PathIs DEF Most
<1> HIDE DEF i, w
<1>4. Typed(w)
  BY <1>1, <1>2, <1>3, CreatedIs DEF w
<1>5. Misplaced(d, p) = [w EXCEPT !.inodes = [inodes EXCEPT ![i] = NewInode]]
  BY DEF Misplaced, w, i
<1>6. [inodes EXCEPT ![i] = NewInode] \in [Inums -> Inode]
  BY <1>1, NewInodeTyped
<1>. QED
  BY <1>4, <1>5, <1>6 DEF Typed, Fields

(* A call that cannot create *)
LEMMA CannotStep ==
  ASSUME IInv, stage = "running", NEW p \in Paths, NEW a \in {0, -1}, CannotCreate(p, a) \/ Refuses(p)
  PROVE  IInv'
<1>1. CASE NoParent(p, a)
  <2>1. Uses(p) /\ UNCHANGED <<named, lost, removed>>
    BY <1>1 DEF NoParent
  <2>2. CASE Becomes(Volume, -1) /\ UNCHANGED stage
    BY <2>1, <2>2, QuietStep
  <2>3. ASSUME FirstCleared(iused, super.num_inodes) # None, stage' = "wrecked", NEW d \in Inums,
               inodes[d].size < NumDirect * PerBlock, Becomes(Misplaced(d, p), a)
        PROVE  IInv'
    <3>1. Typed(Misplaced(d, p))
      BY <2>3, MisplacedTyped
    <3>. QED
      BY <2>1, <2>3, <3>1, WreckStep
  <2>. QED
    BY <1>1, <2>2, <2>3 DEF NoParent
<1>2. CASE Refuses(p)
  <2>1. Becomes(Volume, -1) /\ Uses(p) /\ stage' = stage /\ UNCHANGED <<named, lost, removed>>
    BY <1>2 DEF Refuses
  <2>. QED
    BY <2>1, QuietStep
<1>. QED
  BY <1>1, <1>2 DEF CannotCreate

(* sfs_creat *)
LEMMA CreatStep ==
  ASSUME IInv, NEW p \in Paths, Creat(p)
  PROVE  IInv'
<1>1. stage = "running" /\ InBounds(p)
  BY DEF Creat
<1>2. CASE ~Exists(p) /\ CanCreate(p) /\ Adds(File(p), 0, p)
  <2> DEFINE i == FirstCleared(iused, super.num_inodes)
  <2>1. /\ i \in Inums \ iused /\ Typed(File(p)) /\ InRange(File(p))
        /\ ~ghost /\ ~ThroughRemoved(p) =>
              \/ File(p).ok = TRUE /\ Tree(File(p), Also(named, i, p), removed, lost)
              \/ File(p).ok = FALSE /\ Tree(File(p), named, removed, lost \cup {i})
    BY <1>1, <1>2, FileIs
  <2>. QED
    BY <1>1, <1>2, <2>1, AddsStep
<1>3. CASE CannotCreate(p, 0) \/ Refuses(p)
  BY <1>1, <1>3, CannotStep
<1>. QED
  BY <1>2, <1>3 DEF Creat

(* sfs_open, to create *)
LEMMA OpenCreateStep ==
  ASSUME IInv, NEW p \in Paths, OpenCreate(p)
  PROVE  IInv'
<1>1. stage = "running" /\ InBounds(p)
  BY DEF OpenCreate
<1>2. CASE Exists(p) /\ Becomes(Volume, 0) /\ Uses(p) /\ UNCHANGED <<stage, named, lost, removed>>
  BY <1>1, <1>2, QuietStep
<1>3. CASE ~Exists(p) /\ CanCreate(p) /\ Adds(File(p), IF Lookup(File(p), p) = None THEN -1 ELSE 0, p)
  <2> DEFINE i == FirstCleared(iused, super.num_inodes)
             a == IF Lookup(File(p), p) = None THEN -1 ELSE 0
  <2>1. /\ i \in Inums \ iused /\ Typed(File(p)) /\ InRange(File(p))
        /\ ~ghost /\ ~ThroughRemoved(p) =>
              \/ File(p).ok = TRUE /\ Tree(File(p), Also(named, i, p), removed, lost)
              \/ File(p).ok = FALSE /\ Tree(File(p), named, removed, lost \cup {i})
    BY <1>1, <1>3, FileIs
  <2>2. a \in {0, 1, -1} /\ Adds(File(p), a, p)
    BY <1>3
  <2>. QED
    BY <1>1, <2>1, <2>2, AddsStep
<1>4. CASE CannotCreate(p, -1)
  BY <1>1, <1>4, CannotStep
<1>. QED
  BY <1>2, <1>3, <1>4 DEF OpenCreate

(* What was created is found, and nothing else. *)
LEMMA CreatedFound ==
  ASSUME IInv, stage = "running", NEW p \in Paths, InBounds(p), CanCreate(p), ~Exists(p), ~ghost, ~ThroughRemoved(p),
         NEW i, i = FirstCleared(iused, super.num_inodes)
  PROVE  \/ File(p).ok = TRUE /\ Lookup(File(p), p) = i /\ Lookup(File(p), p) # None
         \/ File(p).ok = FALSE /\ Lookup(File(p), p) = None /\ Full
<1> DEFINE w == File(p)
           l == Lookup(w, p)
           nn == Also(named, i, p)
<1>1. /\ i \in Inums \ iused /\ Typed(w)
      /\ \/ w.ok = TRUE /\ Tree(w, nn, removed, lost)
         \/ w.ok = FALSE /\ Full /\ Tree(w, named, removed, lost \cup {i})
  BY FileIs
<1>2. p # <<>> /\ Plain(p) /\ ~Through(removed, p) /\ removed \subseteq Seq(Names)
  BY PathIs, PathsAre DEF IInv, ThroughRemoved, Through
<1>3. \A j \in DOMAIN named : named[j] # p
  <2>1. Lookup(Volume, p) = None /\ Sound
    BY DEF Exists, Sound
  <2>. QED
    BY <2>1, PathFound
<1>4. DOMAIN nn = DOMAIN named \cup {i} /\ nn[i] = p /\ \A j \in DOMAIN named : j = i \/ nn[j] = named[j]
  BY DEF Also
<1> HIDE DEF w, nn
<1>5. CASE w.ok = TRUE /\ Tree(w, nn, removed, lost)
  <2>1. Leads(nn, p, l)
    BY <1>1, <1>2, <1>5, LookupTree
  <2>2. l = i
    BY <1>2, <1>3, <1>4, <2>1 DEF Leads
  <2>. QED
    BY <1>1, <1>5, <2>2, VolumeIs DEF w
<1>6. CASE w.ok = FALSE /\ Full /\ Tree(w, named, removed, lost \cup {i})
  <2>1. Leads(named, p, l)
    BY <1>1, <1>2, <1>6, LookupTree
  <2>2. l = None
    BY <1>2, <1>3, <2>1 DEF Leads
  <2>. QED
    BY <1>6, <2>2 DEF w
<1>. QED
  BY <1>1, <1>5, <1>6

(* sfs_mkdir *)
LEMMA MkdirStep ==
  ASSUME IInv, NEW p \in Paths, Mkdir(p)
  PROVE  IInv'
<1>1. stage = "running" /\ InBounds(p)
  BY DEF Mkdir
<1>2. CASE CannotCreate(p, -1) \/ Refuses(p)
  BY <1>1, <1>2, CannotStep
<1> DEFINE i == FirstCleared(iused, super.num_inodes)
           w == File(p)
           l == Lookup(w, p)
           x == AsDirectory(w, l, ParentOf(p))
<1>3. CASE /\ ~Exists(p) /\ CanCreate(p)
           /\ IF l = None THEN Adds(w, -1, p) ELSE Adds(x, 0, p)
  <2>1. /\ i \in Inums \ iused /\ ParentOf(p) \in Inums
        /\ Typed(w) /\ InRange(w) /\ (w.ok \/ Blocks \subseteq w.bused)
        /\ ~ghost /\ ~ThroughRemoved(p) =>
              /\ w.inodes[i] = NewInode
              /\ \/ w.ok = TRUE /\ Tree(w, Also(named, i, p), removed, lost)
                 \/ w.ok = FALSE /\ Full /\ Tree(w, named, removed, lost \cup {i})
    BY <1>1, <1>3, FileIs
  <2>2. l \in Inums \cup {None}
    BY <2>1, PathIs, LookupTyped
  <2>3. CASE l = None
    <3>1. Adds(w, -1, p)
      BY <1>3, <2>3
    <3>2. ~ghost /\ ~ThroughRemoved(p) =>
              \/ w.ok = TRUE /\ Tree(w, Also(named, i, p), removed, lost)
              \/ w.ok = FALSE /\ Tree(w, named, removed, lost \cup {i})
      BY <2>1
    <3> HIDE DEF w, l
    <3>. QED
      BY <1>1, <2>1, <3>1, <3>2, AddsStep
  <2>4. CASE l # None
    <3>1. Adds(x, 0, p) /\ l \in Inums
      BY <1>3, <2>2, <2>4
    <3>2. Typed(x) /\ InRange(x)
      <4> HIDE DEF w, l
      <4>. QED
        BY <2>1, <3>1, AsDirectoryRange
    <3>3. ASSUME ~ghost, ~ThroughRemoved(p)
          PROVE  x.ok = TRUE /\ Tree(x, Also(named, i, p), removed, lost)
      <4>1. w.ok = TRUE /\ l = i
        BY <1>1, <1>3, <2>4, <3>3, CreatedFound
      <4>2. Tree(w, Also(named, i, p), removed, lost) /\ w.inodes[i] = NewInode
        BY <2>1, <3>3, <4>1
      <4>3. i \in DOMAIN Also(named, i, p)
        BY DEF Also
      <4> DEFINE nn == Also(named, i, p)
                 d == ParentOf(p)
      <4> HIDE DEF w, l, i, nn, d
      <4>4. i \in DOMAIN nn /\ Tree(w, nn, removed, lost) /\ d \in Inums /\ Typed(w) /\ w.ok
        BY <2>1, <4>1, <4>2, <4>3 DEF nn, d
      <4>5. AsDirectory(w, i, d).ok = TRUE /\ Tree(AsDirectory(w, i, d), nn, removed, lost)
        BY <4>2, <4>4, AsDirectoryTree
      <4>6. x = AsDirectory(w, i, d)
        BY <4>1 DEF d
      <4> HIDE DEF x
      <4>. QED
        BY <4>5, <4>6 DEF nn
    <3> HIDE DEF x
    <3>. QED
      BY <1>1, <2>1, <3>1, <3>2, <3>3, AddsStep
  <2>. QED
    BY <2>3, <2>4
<1>. QED
  BY <1>2, <1>3 DEF Mkdir
-----------------------------------------------------------------------------
(* sfs_rmdir *)
LEMMA RmdirStep ==
  ASSUME IInv, NEW p \in Paths, Rmdir(p)
  PROVE  IInv'
<1> DEFINE i == Lookup(Volume, p)
           w == Freed(Volume, i)
<1>1. stage = "running" /\ p \in Seq(Names)
  BY PathIs DEF Rmdir
<1>2. CASE Refuses(p)
  BY <1>1, <1>2, CannotStep
<1>3. CASE /\ i # None /\ Empty(i) /\ Becomes(w, 0)
           /\ ghost' = (ghost \/ ThroughRemoved(p) \/ HadNames(p))
           /\ named' = Without(named, i) /\ removed' = removed \cup {p} /\ stage' = stage /\ lost' = lost
  <2>1. i \in Inums
    BY <1>1, <1>3, LookupInums
  <2>2. /\ Typed(Volume) /\ InRange(Volume) /\ ghost \in BOOLEAN /\ DOMAIN named \subseteq Inums /\ removed \subseteq Paths
    BY <1>1 DEF IInv
  <2>3. Empty(i) /\ Becomes(w, 0)
    BY <1>3
  <2> HIDE DEF i
  <2>4. Typed(w) /\ Released(Volume, w, i)
    BY <2>1, <2>2, FreedIs
  <2> HIDE DEF w
  <2>5. Volume' = Fine(w) /\ answer' = 0
    BY <2>3, BecomesFine
  <2>6. InRange(w)
    BY <2>1, <2>2, <2>4 DEF InRange, Released
  <2>7. Typed(Volume') /\ InRange(Volume')
    BY <2>4, <2>5, <2>6, FineIs
  <2>8. ghost' \in BOOLEAN /\ (~ghost' => ~ghost /\ ~ThroughRemoved(p) /\ ~HadNames(p))
    BY <1>3, <2>2 DEF ThroughRemoved, HadNames
  <2>9. ASSUME Sound' PROVE Tree(Volume', named', removed', lost')
    <3>1. ~ghost /\ ~ThroughRemoved(p) /\ ~HadNames(p) /\ Sound
      BY <1>1, <2>8, <2>9 DEF Sound
    <3>2. i \in DOMAIN named /\ named[i] = p
      BY <1>3, <3>1, PathFound DEF i
    <3>3. Tree(Volume, named, removed, lost) /\ removed \subseteq Seq(Names)
      BY <2>2, <3>1, PathsAre DEF IInv
    <3>4. Volume.inodes[i].size = 2
      BY <2>3, VolumeParts DEF Empty
    <3>5. /\ \A j \in DOMAIN named : ~IsStrictPrefix(named[i], named[j])
          /\ \A q \in removed : ~IsStrictPrefix(named[i], q)
      BY <3>1, <3>2 DEF HadNames
    <3>6. Tree(w, Without(named, i), removed \cup {named[i]}, lost)
      BY <2>2, <2>4, <3>2, <3>3, <3>4, <3>5, ReleasedTree
    <3>7. Tree(Fine(w), Without(named, i), removed \cup {p}, lost)
      BY <3>2, <3>6, FineTree
    <3>. QED
      BY <1>3, <2>5, <3>7
  <2>10. DOMAIN named' \subseteq Inums
    BY <1>3, <2>2 DEF Without
  <2>11. answer' \in {0, 1, -1} /\ stage' \in {"running", "wrecked"} /\ removed' \subseteq Paths
    BY <1>1, <1>3, <2>2, <2>5
  <2>. QED
    BY <2>7, <2>8, <2>9, <2>10, <2>11 DEF IInv
<1>4. \/ Refuses(p)
      \/ /\ i # None /\ Empty(i) /\ Becomes(w, 0)
         /\ ghost' = (ghost \/ ThroughRemoved(p) \/ HadNames(p))
         /\ named' = Without(named, i) /\ removed' = removed \cup {p} /\ stage' = stage /\ lost' = lost
  BY DEF Rmdir, Without
<1>. QED
  BY <1>2, <1>3, <1>4

(* sfs_rmdir through a descriptor that has no fs_private *)
LEMMA RmdirStraysStep ==
  ASSUME IInv, NEW p \in Paths, RmdirStrays(p)
  PROVE  IInv'
<1> DEFINE i == Lookup(Volume, p)
<1>1. stage = "running" /\ Typed(Volume) /\ answer \in {0, 1, -1}
  BY DEF IInv, RmdirStrays
<1>2. /\ i # None /\ (Becomes(Volume, answer) \/ Becomes(Freed(Volume, i), 0))
      /\ stage' = "wrecked" /\ Uses(p) /\ UNCHANGED <<named, lost, removed>>
  BY DEF RmdirStrays
<1>3. i \in Inums
  <2>1. p \in Seq(Names)
    BY PathIs
  <2>. QED
    BY <1>1, <1>2, <2>1, LookupInums
<1> HIDE DEF i
<1>4. Typed(Freed(Volume, i))
  BY <1>1, <1>3, FreedIs
<1>. QED
  BY <1>1, <1>2, <1>4, WreckStep

(* sfs_rmdir of the root directory *)
LEMMA RmdirRootStep ==
  ASSUME IInv, RmdirRoot
  PROVE  IInv'
<1>1. stage = "running" /\ Typed(Volume) /\ Uses(<<>>) /\ UNCHANGED <<named, lost, removed>>
  BY DEF IInv, RmdirRoot
<1>2. CASE Becomes(Freed(Volume, Root), 0) /\ stage' = "wrecked"
  <2>1. Root \in Inums
    BY VolumeIs
  <2>2. Typed(Freed(Volume, Root))
    BY <1>1, <2>1, FreedIs
  <2>. QED
    BY <1>1, <1>2, <2>2, WreckStep
<1>3. CASE Becomes(Volume, -1) /\ UNCHANGED stage
  BY <1>1, <1>3, QuietStep
<1>. QED
  BY <1>2, <1>3 DEF RmdirRoot

(* sfs_rename of what it does not find *)
LEMMA RenameOtherStep ==
  ASSUME IInv, NEW p \in Paths, RenameOther(p)
  PROVE  IInv'
<1>1. /\ stage = "running" /\ stage' = stage /\ Uses(p) /\ UNCHANGED <<named, lost, removed>>
      /\ \E a \in {0, 1, -1} : Becomes(Volume, a)
  BY DEF RenameOther
<1>. QED
  BY <1>1, QuietStep

(* The stray write of sfs_dir_lookup *)
LEMMA LookupStraysStep ==
  ASSUME IInv, NEW p \in Paths, LookupStrays(p)
  PROVE  IInv'
<1>1. Typed(Volume) /\ Becomes(Volume, -1) /\ Uses(p) /\ stage' = "wrecked" /\ UNCHANGED <<named, lost, removed>>
  BY DEF LookupStrays, IInv
<1>. QED
  BY <1>1, WreckStep

(* The first entry of a name in the root directory, when there is one *)
LEMMA FirstEntry ==
  ASSUME NEW v, Typed(v), NEW p \in Seq(Names), Len(p) = 1, Lookup(v, p) # None
  PROVE  \E j \in 0 .. v.inodes[Root].size - 1 :
           /\ EntryAt(v, Root, j).name = Name(p)
           /\ \A l \in 0 .. j - 1 : EntryAt(v, Root, l).name # Name(p)
<1> DEFINE n == Name(p)
           size == v.inodes[Root].size
           S == {e \in 0 .. size - 1 : EntryAt(v, Root, e).name = n}
<1>1. size \in Nat
  BY VolumeIs, SizeIsNat
<1>2. Lookup(v, p) = DirLookup(v, Root, n)
  <2>1. PICK f : Way(v, p, Len(p), f) /\ Lookup(v, p) = f[Len(p)]
    BY LookupIs
  <2>2. Way(v, p, 1, f) /\ Lookup(v, p) = f[1]
    BY <2>1
  <2>3. f[0] = Root /\ \A k \in 1 .. 1 : f[k] = LookupIn(v, f[k - 1], p[k])
    BY <2>2, WayIs
  <2>4. f[1] = LookupIn(v, Root, p[1])
    <3>1. 1 \in 1 .. 1 /\ 1 - 1 = 0
      OBVIOUS
    <3>2. f[1] = LookupIn(v, f[1 - 1], p[1])
      BY <2>3, <3>1
    <3>. QED
      BY <2>3, <3>1, <3>2
  <2>. QED
    BY <2>2, <2>4 DEF LookupIn, Root, None, Name
<1> HIDE DEF n
<1>3. \E e \in 0 .. size - 1 : EntryAt(v, Root, e).name = n
  <2>1. DirLookup(v, Root, n) # None
    BY <1>2
  <2>. QED
    BY <1>1, <2>1, DirLookupIs
<1>4. S \in SUBSET Nat /\ S # {}
  BY <1>1, <1>3
<1>5. PICK j \in S : \A c \in S : j <= c
  BY <1>4, LeastExists
<1>6. \A l \in 0 .. j - 1 : EntryAt(v, Root, l).name # n
  BY <1>1, <1>5
<1>. QED
  BY <1>5, <1>6 DEF n

(* sfs_rename of a file in the root directory *)
LEMMA RenameStep ==
  ASSUME IInv, NEW old \in Paths, NEW new \in Paths, Rename(old, new)
  PROVE  IInv'
<1> DEFINE i == Lookup(Volume, old)
           k == CHOOSE j \in 0 .. inodes[Root].size - 1 :
                  /\ EntryAt(Volume, Root, j).name = Name(old)
                  /\ \A l \in 0 .. j - 1 : EntryAt(Volume, Root, l).name # Name(old)
           at == Behind(Volume, k)
           size == inodes[Root].size
           m == IF k + 2 > size THEN k + 2 ELSE size
           e == Entry(IF Len(new) = 1 THEN Name(new) ELSE "/", i)
           v == [Volume EXCEPT !.disk[at.block][at.place] = e, !.inodes[Root].size = IF k + 2 > @ THEN k + 2 ELSE @]
           w == [v EXCEPT !.inodes[i] = v.inodes[Root]]
           a == IF Lookup(w, new) = None THEN -1 ELSE 1
<1>1. stage = "running" /\ Len(old) = 1 /\ FileAt(old) /\ stage' = "wrecked" /\ UNCHANGED <<named, lost, removed>>
  BY DEF Rename
<1>2. Becomes(w, a) /\ Uses(old) /\ a \in {0, 1, -1}
  BY DEF Rename
<1> HIDE DEF a
<1>3. Typed(Volume) /\ InRange(Volume) /\ DOMAIN Volume = Fields /\ Volume.inodes = inodes /\ Volume.disk = disk
  BY <1>1, VolumeParts DEF IInv, Typed
<1>4. i \in Inums /\ i # None
  <2>1. i # None
    BY <1>1 DEF FileAt
  <2>. QED
    BY <1>1, <2>1, PathIs, LookupInums
<1>5. k \in 0 .. size - 1
  <2>1. \E j \in 0 .. inodes[Root].size - 1 :
           /\ EntryAt(Volume, Root, j).name = Name(old)
           /\ \A l \in 0 .. j - 1 : EntryAt(Volume, Root, l).name # Name(old)
    BY <1>1, <1>3, <1>4, PathIs, FirstEntry
  <2>. QED
    BY <2>1
<1>6. e \in EntrySet
  <2>1. (IF Len(new) = 1 THEN Name(new) ELSE "/") \in Names
    BY PathIs DEF Names
  <2>. QED
    BY <1>4, <2>1 DEF Entry, EntrySet
<1> HIDE DEF i, k, at, e
<1>7. size \in Nat /\ size <= Most /\ m \in 0 .. Most + 1
  <2>1. size \in Nat /\ size <= Most
    BY <1>3, VolumeIs, SizeIsNat DEF InRange
  <2>. QED
    BY <1>5, <2>1, VolumeIs
<1> DEFINE root == [inodes[Root] EXCEPT !.size = m]
           block == [disk[at.block] EXCEPT ![at.place] = e]
<1> HIDE DEF m, size
<1>8. /\ DOMAIN v = Fields /\ v.disk = [disk EXCEPT ![at.block] = block] /\ v.inodes = [inodes EXCEPT ![Root] = root]
      /\ v.iused = iused /\ v.bused = bused /\ v.ok = TRUE
  BY <1>3, VolumeParts DEF Fields, m, size
<1>9. /\ inodes \in [Inums -> Inode] /\ disk \in [Blocks -> [1 .. PerBlock -> EntrySet]]
      /\ iused \subseteq Inums /\ bused \subseteq Blocks
  BY <1>3, VolumeParts DEF Typed
<1>10. root \in Inode
  <2>1. inodes[Root] \in Inode
    BY <1>9, VolumeIs
  <2>2. root = [type |-> inodes[Root].type, size |-> m, direct |-> inodes[Root].direct]
    BY <2>1, InodeExcept
  <2>. QED
    BY <1>7, <2>1, <2>2 DEF Inode, Most
<1>11. at.block \in Blocks => block \in [1 .. PerBlock -> EntrySet]
  BY <1>6, <1>9
<1> HIDE DEF root, block, v
<1>12. v.inodes \in [Inums -> Inode] /\ v.disk \in [Blocks -> [1 .. PerBlock -> EntrySet]]
  <2>1. v.inodes \in [Inums -> Inode]
    BY <1>8, <1>9, <1>10
  <2>2. [disk EXCEPT ![at.block] = block] \in [Blocks -> [1 .. PerBlock -> EntrySet]]
    <3> DEFINE B == [1 .. PerBlock -> EntrySet]
    <3>1. disk \in [Blocks -> B] /\ (at.block \in Blocks => block \in B)
      BY <1>9, <1>11
    <3> HIDE DEF B
    <3>2. [disk EXCEPT ![at.block] = block] \in [Blocks -> B]
      BY <3>1
    <3>. QED
      BY <3>2 DEF B
  <2>. QED
    BY <1>8, <2>1, <2>2
<1>13. /\ DOMAIN w = Fields /\ w.disk = v.disk /\ w.inodes = [v.inodes EXCEPT ![i] = v.inodes[Root]]
       /\ w.iused = v.iused /\ w.bused = v.bused /\ w.ok = v.ok
  BY <1>8 DEF Fields
<1> HIDE DEF w
<1>14. Typed(w)
  <2>1. w.inodes \in [Inums -> Inode]
    BY <1>4, <1>12, <1>13, VolumeIs
  <2>. QED
    BY <1>8, <1>9, <1>12, <1>13, <2>1 DEF Typed
<1>. QED
  BY <1>1, <1>2, <1>14, WreckStep
-----------------------------------------------------------------------------
(* The tree that the names describe is what the volume holds, all the      *)
(* while nobody has used the name of a removed directory and the volume is *)
(* not past saving.                                                        *)
THEOREM TreeInvariance == Spec => []IInv
<1>1. IInv /\ [Next]_vars => IInv'
  <2> SUFFICES ASSUME IInv, [Next]_vars PROVE IInv'
    OBVIOUS
  <2>1. ASSUME NEW p \in Paths, Creat(p) PROVE IInv'
    BY <2>1, CreatStep
  <2>2. ASSUME NEW p \in Paths, OpenCreate(p) PROVE IInv'
    BY <2>2, OpenCreateStep
  <2>3. ASSUME NEW p \in Paths, Mkdir(p) PROVE IInv'
    BY <2>3, MkdirStep
  <2>4. ASSUME NEW p \in Paths, Rmdir(p) PROVE IInv'
    BY <2>4, RmdirStep
  <2>5. ASSUME NEW p \in Paths, RenameOther(p) PROVE IInv'
    BY <2>5, RenameOtherStep
  <2>6. ASSUME NEW p \in Paths, LookupStrays(p) PROVE IInv'
    BY <2>6, LookupStraysStep
  <2>7. ASSUME NEW p \in Paths, NEW q \in Paths, Rename(p, q) PROVE IInv'
    BY <2>7, RenameStep
  <2>9. ASSUME NEW p \in Paths, RmdirStrays(p) PROVE IInv'
    BY <2>9, RmdirStraysStep
  <2>10. ASSUME RmdirRoot PROVE IInv'
    BY <2>10, RmdirRootStep
  <2>8. CASE UNCHANGED vars
    <3>1. /\ inodes' = inodes /\ iused' = iused /\ bused' = bused /\ disk' = disk /\ answer' = answer
          /\ stage' = stage /\ named' = named /\ lost' = lost /\ removed' = removed /\ ghost' = ghost
      BY <2>8 DEF vars
    <3>2. Volume' = Volume /\ Sound' = Sound
      BY <3>1 DEF Volume, Sound
    <3>. QED
      BY <3>1, <3>2 DEF IInv
  <2>. QED
    BY <2>1, <2>2, <2>3, <2>4, <2>5, <2>6, <2>7, <2>8, <2>9, <2>10 DEF Next
<1>. QED
  BY <1>1, InitOK, PTL DEF Spec

(* A path that was created leads to the inode made for it and to no other, *)
(* and a path that was not leads nowhere.                                  *)
THEOREM NamesStayRight == Spec => []NamesRight
<1>1. IInv => NamesRight
  <2> SUFFICES ASSUME IInv, Sound, NEW p \in Paths, ~ThroughRemoved(p)
               PROVE  IF Lookup(Volume, p) = None THEN \A j \in DOMAIN named : named[j] # p
                      ELSE Lookup(Volume, p) \in DOMAIN named /\ named[Lookup(Volume, p)] = p
    BY DEF NamesRight
  <2>. QED
    BY PathFound
<1>. QED
  BY <1>1, TreeInvariance, PTL

(* The bitmap of inodes has the root's, those that have a name, and those  *)
(* that got no entry when the volume was full.                             *)
THEOREM InodesStayExact == Spec => []InodesExact
<1>1. IInv => InodesExact
  <2> SUFFICES ASSUME IInv, Sound
               PROVE  /\ iused = {Root} \cup DOMAIN named \cup lost
                      /\ Root \notin DOMAIN named /\ lost \cap DOMAIN named = {}
    BY DEF InodesExact
  <2>1. BitsOK(Volume, named, lost) /\ Volume.iused = iused
    BY VolumeParts DEF IInv, Tree
  <2>. QED
    BY <2>1 DEF BitsOK
<1>. QED
  BY <1>1, TreeInvariance, PTL

(* The bitmap of blocks has the tables and the blocks of directories, a    *)
(* block has one owner, and every variable keeps its type.                 *)
THEOREM BlocksStayExact == Spec => []BlocksExact
<1>1. IInv => BlocksExact
  <2> SUFFICES ASSUME IInv PROVE BlocksExact
    OBVIOUS
  <2>1. /\ Typed(Volume) /\ Volume.iused = iused /\ Volume.bused = bused /\ Volume.inodes = inodes /\ Volume.disk = disk
    BY VolumeParts DEF IInv
  <2>2. TypeOK
    <3>1. \A b \in Blocks, k \in 1 .. PerBlock : disk[b][k].inode \in Inums
      <4>1. disk \in [Blocks -> [1 .. PerBlock -> EntrySet]]
        BY <2>1 DEF Typed
      <4>2. ASSUME NEW b \in Blocks, NEW k \in 1 .. PerBlock PROVE disk[b][k].inode \in Inums
        <5>1. disk[b][k] \in EntrySet
          BY <4>1
        <5>. QED
          BY <5>1 DEF EntrySet
      <4>. QED
        BY <4>2
    <3>2. inodes \in [Inums -> Inode] /\ iused \subseteq Inums /\ bused \subseteq Blocks /\ DOMAIN disk = Blocks
      BY <2>1 DEF Typed
    <3>. QED
      BY <3>1, <3>2 DEF IInv, TypeOK
  <2>3. ASSUME Sound
        PROVE  /\ bused = Tables \cup UNION {BlocksOf(i) : i \in iused}
               /\ OneOwner /\ \A i \in iused : BlocksOf(i) \cap Tables = {}
    <3>1. OwnersOK(Volume)
      BY <2>3 DEF IInv, Tree
    <3>2. /\ \A i, j \in iused : \A k, l \in Slots :
               inodes[i].direct[k] # 0 /\ inodes[i].direct[k] = inodes[j].direct[l] => i = j /\ k = l
          /\ \A i \in iused : \A k \in Slots : inodes[i].direct[k] # 0 => inodes[i].direct[k] \notin Tables
          /\ \A b \in Blocks : b \in bused <=> b \in Tables \/ \E i \in iused : \E k \in Slots : inodes[i].direct[k] = b
      BY <2>1, <3>1 DEF OwnersOK
    <3>3. \A i \in iused : \A b : b \in BlocksOf(i) <=> b # 0 /\ \E k \in Slots : inodes[i].direct[k] = b
      BY DEF BlocksOf, Slots
    <3>4. iused \subseteq Inums /\ bused \subseteq Blocks
      BY <2>1 DEF Typed
    <3>5. \A i \in iused : BlocksOf(i) \subseteq Blocks
      <4>1. ASSUME NEW i \in iused PROVE BlocksOf(i) \subseteq Blocks
        <5>1. inodes[i].direct \in [Slots -> Blocks]
          BY <2>1, <3>4, InodeTyped
        <5>. QED
          BY <3>3, <5>1
      <4>. QED
        BY <4>1
    <3>6. ASSUME NEW b
          PROVE  b \in bused <=> b \in Tables \/ \E i \in iused : b \in BlocksOf(i)
      <4>1. CASE b \in Blocks
        <5>1. (\E i \in iused : b \in BlocksOf(i)) <=> b # 0 /\ \E i \in iused : \E k \in Slots : inodes[i].direct[k] = b
          BY <3>3
        <5>. QED
          BY <3>2, <4>1, <5>1, VolumeIs
      <4>2. CASE b \notin Blocks
        BY <3>4, <3>5, <4>2, VolumeIs
      <4>. QED
        BY <4>1, <4>2
    <3>7. bused = Tables \cup UNION {BlocksOf(i) : i \in iused}
      BY <3>6
    <3>8. OneOwner
      <4>1. ASSUME NEW i \in iused, NEW j \in iused, i # j PROVE BlocksOf(i) \cap BlocksOf(j) = {}
        <5>1. SUFFICES ASSUME NEW b \in BlocksOf(i), b \in BlocksOf(j) PROVE FALSE
          OBVIOUS
        <5>. QED
          BY <3>2, <3>3, <4>1, <5>1
      <4>2. \A i \in iused, k, l \in Slots : k # l /\ inodes[i].direct[k] # 0 => inodes[i].direct[k] # inodes[i].direct[l]
        BY <3>2
      <4>. QED
        BY <4>1, <4>2 DEF OneOwner, Slots
    <3>9. \A i \in iused : BlocksOf(i) \cap Tables = {}
      BY <3>2, <3>3
    <3>. QED
      BY <3>7, <3>8, <3>9
  <2>. QED
    BY <2>2, <2>3 DEF BlocksExact
<1>. QED
  BY <1>1, TreeInvariance, PTL

(* What only reads leaves the volume as it is. *)
Kept == UNCHANGED <<inodes, iused, bused, disk>>

(* A call after which the volume is as it was *)
LEMMA BecomesKept ==
  ASSUME NEW a, Becomes(Volume, a)
  PROVE  Kept
<1>1. inodes' = Volume.inodes /\ iused' = Volume.iused /\ bused' = Volume.bused /\ disk' = Volume.disk
  BY DEF Becomes
<1>. QED
  BY <1>1, VolumeParts DEF Kept

(* A call that cannot create leaves the volume as it is, or wrecks it. *)
LEMMA CannotKept ==
  ASSUME NEW p, NEW a, CannotCreate(p, a) \/ Refuses(p), stage' = "running"
  PROVE  Kept
<1>1. Becomes(Volume, -1)
  BY DEF CannotCreate, Refuses, NoParent
<1>. QED
  BY <1>1, BecomesKept

(* A call that is refused leaves the volume as it is, unless it meets a    *)
(* full volume, goes through the name of a removed directory or wrecks the *)
(* volume.                                                                 *)
THEOREM RefusalsChangeNothing == Spec => RefusedChangesNothing
<1>1. ASSUME IInv, Next, answer' = -1, ~ghost', stage' = "running" PROVE Full \/ Kept
  <2>1. ASSUME NEW p \in Paths, Creat(p) PROVE Kept
    <3>1. CASE Adds(File(p), 0, p)
      BY <1>1, <3>1 DEF Adds, Becomes
    <3>. QED
      BY <1>1, <2>1, <3>1, CannotKept DEF Creat
  <2>2. ASSUME NEW p \in Paths, stage = "running", InBounds(p), ~Exists(p), CanCreate(p), Uses(p), Lookup(File(p), p) = None
        PROVE  Full
    <3>1. ghost \in BOOLEAN
      BY <1>1 DEF IInv
    <3>2. ~ghost /\ ~ThroughRemoved(p)
      BY <1>1, <2>2, <3>1 DEF Uses, ThroughRemoved
    <3>. QED
      BY <1>1, <2>2, <3>2, CreatedFound
  <2>3. ASSUME NEW p \in Paths, OpenCreate(p) PROVE Full \/ Kept
    <3>1. CASE ~Exists(p) /\ CanCreate(p) /\ Adds(File(p), IF Lookup(File(p), p) = None THEN -1 ELSE 0, p)
      <4>1. Lookup(File(p), p) = None /\ Uses(p)
        BY <1>1, <3>1 DEF Adds, Becomes
      <4>. QED
        BY <2>2, <2>3, <3>1, <4>1 DEF OpenCreate
    <3>2. CASE Becomes(Volume, 0)
      BY <3>2, BecomesKept
    <3>. QED
      BY <1>1, <2>3, <3>1, <3>2, CannotKept DEF OpenCreate
  <2>4. ASSUME NEW p \in Paths, Mkdir(p) PROVE Full \/ Kept
    <3> DEFINE i == Lookup(File(p), p)
    <3>1. CASE /\ ~Exists(p) /\ CanCreate(p)
               /\ IF i = None THEN Adds(File(p), -1, p) ELSE Adds(AsDirectory(File(p), i, ParentOf(p)), 0, p)
      <4>1. i = None /\ Uses(p)
        BY <1>1, <3>1 DEF Adds, Becomes
      <4>. QED
        BY <2>2, <2>4, <3>1, <4>1 DEF Mkdir
    <3>. QED
      BY <1>1, <2>4, <3>1, CannotKept DEF Mkdir
  <2>5. ASSUME NEW p \in Paths, Rmdir(p) PROVE Kept
    <3>1. CASE Becomes(Freed(Volume, Lookup(Volume, p)), 0)
      BY <1>1, <3>1 DEF Becomes
    <3>. QED
      BY <1>1, <2>5, <3>1, CannotKept DEF Rmdir
  <2>6. ASSUME NEW p \in Paths, RenameOther(p) PROVE Kept
    <3>1. \E a : Becomes(Volume, a)
      BY <2>6 DEF RenameOther
    <3>. QED
      BY <3>1, BecomesKept
  <2>7. ASSUME NEW p \in Paths, LookupStrays(p) PROVE Kept
    BY <1>1, <2>7 DEF LookupStrays
  <2>8. ASSUME NEW p \in Paths, NEW q \in Paths, Rename(p, q) PROVE Kept
    BY <1>1, <2>8 DEF Rename
  <2>9. ASSUME NEW p \in Paths, RmdirStrays(p) PROVE Kept
    BY <1>1, <2>9 DEF RmdirStrays
  <2>10. ASSUME RmdirRoot PROVE Kept
    <3>1. Becomes(Volume, -1)
      BY <1>1, <2>10 DEF RmdirRoot
    <3>. QED
      BY <3>1, BecomesKept
  <2>. QED
    BY <1>1, <2>1, <2>3, <2>4, <2>5, <2>6, <2>7, <2>8, <2>9, <2>10 DEF Next
<1>2. IInv /\ [Next]_vars => [answer' = -1 /\ Sound' => Full \/ UNCHANGED <<inodes, iused, bused, disk>>]_vars
  BY <1>1 DEF Kept, Sound
<1>. QED
  BY <1>2, TreeInvariance, PTL DEF Spec, RefusedChangesNothing
-----------------------------------------------------------------------------
USE MkfsAssumption, BitmapAssumption

(* The quotient and the remainder. *)
LEMMA Division ==
  ASSUME NEW n \in Nat, NEW per \in Nat \ {0}
  PROVE  /\ n \div per \in Nat /\ n % per \in 0 .. per - 1
         /\ n = ((n \div per) * per) + (n % per)
  OBVIOUS

(* As many blocks as are needed, and not one more. *)
LEMMA BlocksForFits ==
  ASSUME NEW n \in Nat, NEW per \in Nat \ {0}
  PROVE  /\ BlocksFor(n, per) \in Nat
         /\ n <= BlocksFor(n, per) * per
         /\ BlocksFor(n, per) * per < n + per
<1> DEFINE q == n \div per
           r == n % per
<1>1. q \in Nat /\ r \in 0 .. per - 1 /\ n = q * per + r
  BY Division
<1>2. BlocksFor(n, per) = IF q * per < n THEN q + 1 ELSE q
  BY DEF BlocksFor
<1> HIDE DEF q, r
<1>3. (q + 1) * per = q * per + per
  BY <1>1
<1>. QED
  BY <1>1, <1>2, <1>3

(* A part of that many blocks holds what it is for. *)
LEMMA PartHolds ==
  ASSUME NEW n \in Nat, NEW per \in Nat \ {0}, NEW first \in Nat
  PROVE  Holds(first, first + BlocksFor(n, per), n, per)
<1> DEFINE b == BlocksFor(n, per)
<1>1. b \in Nat /\ n <= b * per /\ b * per < n + per
  BY BlocksForFits
<1> HIDE DEF b
<1>2. (first + b) - first = b
  BY <1>1
<1>. QED
  BY <1>1, <1>2 DEF Holds, b

(* Inodes are not larger than blocks: some fit in each. *)
LEMMA InodesFit == /\ BlockSize * 8 \in Nat \ {0}
                  /\ BlockSize \div InodeSize \in Nat \ {0}
<1>1. BlockSize = (BlockSize \div InodeSize) * InodeSize /\ BlockSize \div InodeSize \in Nat
  <2>1. BlockSize \in Nat /\ InodeSize \in Nat \ {0} /\ BlockSize % InodeSize = 0
    BY DEF MkfsAssumption
  <2>2. BlockSize = ((BlockSize \div InodeSize) * InodeSize) + (BlockSize % InodeSize)
    BY <2>1, Division
  <2>3. BlockSize \div InodeSize \in Nat
    BY <2>1, Division
  <2>. QED
    BY <2>1, <2>2, <2>3
<1>2. BlockSize \div InodeSize # 0
  BY <1>1 DEF MkfsAssumption
<1>3. BlockSize * 8 \in Nat \ {0}
  BY DEF MkfsAssumption
<1>. QED
  BY <1>1, <1>2, <1>3

(* There are not more inodes than blocks. *)
LEMMA NumInodesType == ASSUME NEW blocks \in Nat PROVE NumInodes(blocks) \in Nat /\ NumInodes(blocks) <= blocks
<1> DEFINE n == (blocks * BlockSize) \div BytesPerInode
<1>1. n \in Nat
  <2>1. blocks * BlockSize \in Nat
    BY DEF MkfsAssumption
  <2>. QED
    BY <2>1, Division DEF MkfsAssumption
<1> HIDE DEF n
<1>2. NumInodes(blocks) = IF n > blocks THEN blocks ELSE n
  BY DEF NumInodes, n
<1>. QED
  BY <1>1, <1>2

(* Whatever the size of a volume, mkfs_sfs gives every part the room its   *)
(* contents need, no two parts overlap, and what the bitmap marks as used  *)
(* ends with the root directory's block.                                   *)
THEOREM LayoutSound == \A blocks \in Nat : WellLaid(Superblock(blocks))
<1> SUFFICES ASSUME NEW blocks \in Nat PROVE WellLaid(Superblock(blocks))
  OBVIOUS
<1> DEFINE count == NumInodes(blocks)
           bits == BlockSize * 8
           per == BlockSize \div InodeSize
           bitmap == BlocksFor(blocks, bits)
           ibitmap == BlocksFor(count, bits)
           table == BlocksFor(count, per)
           sb == Superblock(blocks)
<1>1. count \in Nat /\ bits \in Nat \ {0} /\ per \in Nat \ {0}
  BY NumInodesType, InodesFit
<1>2. /\ sb.num_blocks = blocks /\ sb.num_inodes = count
      /\ sb.superblock = 1 /\ sb.free_block_bitmap = 2
      /\ sb.free_inode_bitmap = 2 + bitmap
      /\ sb.inodes = 2 + bitmap + ibitmap
      /\ sb.rootdir = 2 + bitmap + ibitmap + table
      /\ sb.totalblocks = 3 + bitmap + ibitmap + table
  BY DEF Superblock
<1>3. WellLaid(sb) <=>
        /\ sb.superblock < sb.free_block_bitmap
        /\ Holds(sb.free_block_bitmap, sb.free_inode_bitmap, sb.num_blocks, bits)
        /\ Holds(sb.free_inode_bitmap, sb.inodes, sb.num_inodes, bits)
        /\ Holds(sb.inodes, sb.rootdir, sb.num_inodes, per)
        /\ Marked(sb) = 0 .. sb.rootdir
  BY DEF WellLaid
<1> HIDE DEF count, bits, per, sb
<1>4. bitmap \in Nat /\ ibitmap \in Nat /\ table \in Nat
  BY <1>1, BlocksForFits
<1>5. /\ Holds(2, 2 + bitmap, blocks, bits)
      /\ Holds(2 + bitmap, 2 + bitmap + ibitmap, count, bits)
      /\ Holds(2 + bitmap + ibitmap, 2 + bitmap + ibitmap + table, count, per)
  BY <1>1, <1>4, PartHolds
<1> HIDE DEF bitmap, ibitmap, table
<1>6. Marked(sb) = 0 .. sb.rootdir
  <2>1. sb.totalblocks - 1 = sb.rootdir
    BY <1>2, <1>4
  <2>. QED
    BY <2>1 DEF Marked
<1>7. sb.superblock < sb.free_block_bitmap
  BY <1>2
<1>8. WellLaid(sb)
  BY <1>2, <1>3, <1>5, <1>6, <1>7
<1>. QED
  BY <1>8 DEF sb
-----------------------------------------------------------------------------
(* Every bit has a place in a word of the bitmap, which is its alone. *)
LEMMA WordInBitmap ==
  ASSUME NEW bit \in BitNumbers
  PROVE  WordOf(bit) \in 0 .. Words - 1 /\ PlaceOf(bit) \in Places
<1> DEFINE w == bit \div BITMAP_BITS
           p == bit % BITMAP_BITS
<1>1. bit \in Nat /\ bit < Words * BITMAP_BITS /\ BITMAP_BITS \in Nat \ {0} /\ Words \in Nat
  BY DEF BitmapAssumption, BitNumbers
<1>2. w \in Nat /\ p \in 0 .. BITMAP_BITS - 1 /\ bit = (w * BITMAP_BITS) + p
  BY <1>1, Division
<1>3. w < Words
  <2> HIDE DEF w, p
  <2>1. SUFFICES ASSUME w >= Words PROVE FALSE
    BY <1>1, <1>2
  <2>2. w * BITMAP_BITS >= Words * BITMAP_BITS
    BY <1>1, <1>2, <2>1
  <2>. QED
    BY <1>1, <1>2, <2>2
<1>. QED
  BY <1>1, <1>2, <1>3 DEF WordOf, PlaceOf, Places

(* Two bits in one place of one word are one. *)
LEMMA PlaceIsUnique ==
  ASSUME NEW b \in BitNumbers, NEW c \in BitNumbers, WordOf(b) = WordOf(c), PlaceOf(b) = PlaceOf(c)
  PROVE  b = c
<1>1. b \in Nat /\ c \in Nat /\ BITMAP_BITS \in Nat \ {0}
  BY DEF BitmapAssumption, BitNumbers
<1>2. /\ b = ((b \div BITMAP_BITS) * BITMAP_BITS) + (b % BITMAP_BITS)
      /\ c = ((c \div BITMAP_BITS) * BITMAP_BITS) + (c % BITMAP_BITS)
  BY <1>1, Division
<1>. QED
  BY <1>2 DEF WordOf, PlaceOf

(* set_bit, clear_bit and get_bit are those of the set BitsOf(bitmap). *)
THEOREM BitmapIsSet ==
  \A bitmap \in Bitmaps, bit \in BitNumbers : ActsAsSet(bitmap, bit)
<1> SUFFICES ASSUME NEW bitmap \in Bitmaps, NEW bit \in BitNumbers PROVE ActsAsSet(bitmap, bit)
  OBVIOUS
<1> DEFINE w == WordOf(bit)
           p == PlaceOf(bit)
<1>1. w \in 0 .. Words - 1 /\ p \in Places
  BY WordInBitmap
<1>2. \A c \in BitNumbers : WordOf(c) \in 0 .. Words - 1 /\ PlaceOf(c) \in Places
  BY WordInBitmap
<1>3. \A c \in BitNumbers : WordOf(c) = w /\ PlaceOf(c) = p => c = bit
  BY PlaceIsUnique
<1>4. set_bit(bitmap, bit) = [bitmap EXCEPT ![w] = @ \cup {p}]
  BY DEF set_bit, Mask
<1>5. clear_bit(bitmap, bit) = [bitmap EXCEPT ![w] = @ \ {p}]
  BY DEF clear_bit, Mask
<1>6. get_bit(bitmap, bit) <=> bit \in BitsOf(bitmap)
  BY DEF get_bit, Mask, BitsOf
<1> HIDE DEF w, p
<1>7. BitsOf(set_bit(bitmap, bit)) = BitsOf(bitmap) \cup {bit}
  BY <1>1, <1>2, <1>3, <1>4 DEF BitsOf, Bitmaps, w, p
<1>8. BitsOf(clear_bit(bitmap, bit)) = BitsOf(bitmap) \ {bit}
  BY <1>1, <1>2, <1>3, <1>5 DEF BitsOf, Bitmaps, w, p
<1>. QED
  BY <1>6, <1>7, <1>8 DEF ActsAsSet
-----------------------------------------------------------------------------
(* The loop of first_cleared ends at the first clear bit, or behind the    *)
(* last; it never takes a bit for clear that is set, and passes none.      *)
THEOREM FirstIsFirst ==
  \A bitmap \in Bitmaps, size \in 0 .. Words * BITMAP_BITS : FindsFirst(bitmap, size)
<1> SUFFICES ASSUME NEW bitmap \in Bitmaps, NEW size \in 0 .. Words * BITMAP_BITS
             PROVE  FindsFirst(bitmap, size)
  OBVIOUS
<1> DEFINE clear == (0 .. size - 1) \ BitsOf(bitmap)
           i == CHOOSE i \in 0 .. size : StopsAt(bitmap, size, i)
<1>1. size \in Nat /\ Words * BITMAP_BITS \in Nat
  BY DEF BitmapAssumption
<1>2. \A k \in 0 .. size - 1 : k \in BitNumbers
  BY <1>1 DEF BitNumbers
<1>3. \A k \in 0 .. size - 1 : get_bit(bitmap, k) <=> k \in BitsOf(bitmap)
  BY <1>2, BitmapIsSet DEF ActsAsSet
<1>4. \A k \in 0 .. size - 1 : get_bit(bitmap, k) <=> k \notin clear
  BY <1>3
<1>5. \E m \in 0 .. size : StopsAt(bitmap, size, m)
  <2> HIDE DEF clear
  <2>1. CASE clear = {}
    BY <1>1, <1>4, <2>1 DEF StopsAt
  <2>2. CASE clear # {}
    <3>1. clear \subseteq 0 .. size - 1 /\ clear \subseteq Nat
      BY <1>1 DEF clear
    <3>2. PICK m \in clear : \A k \in clear : m <= k
      BY <2>2, <3>1, LeastExists
    <3>3. m \in 0 .. size /\ \A k \in 0 .. m - 1 : k \in 0 .. size - 1 /\ k \notin clear
      BY <1>1, <3>1, <3>2
    <3>. QED
      BY <1>4, <3>1, <3>2, <3>3 DEF StopsAt
  <2>. QED
    BY <2>1, <2>2
<1>6. i \in 0 .. size /\ StopsAt(bitmap, size, i)
  BY <1>5
<1>7. first_cleared(bitmap, size) = IF i >= size THEN -1 ELSE i
  BY DEF first_cleared
<1> HIDE DEF clear, i
<1>8. CASE i = size
  <2>1. \A k \in 0 .. size - 1 : k \notin clear
    BY <1>4, <1>6, <1>8 DEF StopsAt
  <2>2. clear = {}
    BY <2>1 DEF clear
  <2>3. first_cleared(bitmap, size) = -1
    BY <1>1, <1>7, <1>8
  <2>. QED
    BY <2>2, <2>3 DEF FindsFirst, clear
<1>9. CASE i < size
  <2>1. i \in 0 .. size - 1 /\ first_cleared(bitmap, size) = i
    BY <1>1, <1>6, <1>7, <1>9
  <2>2. i \in clear
    <3>1. ~get_bit(bitmap, i)
      BY <1>6, <1>9, <1>1 DEF StopsAt
    <3>. QED
      BY <1>4, <2>1, <3>1
  <2>3. \A k \in clear : i <= k
    <3>1. SUFFICES ASSUME NEW k \in clear, k < i PROVE FALSE
      BY <1>1, <2>1 DEF clear
    <3>2. k \in 0 .. size - 1 /\ k \in 0 .. i - 1
      BY <1>1, <2>1, <3>1 DEF clear
    <3>3. get_bit(bitmap, k)
      BY <1>6, <3>2 DEF StopsAt
    <3>. QED
      BY <1>4, <3>1, <3>2, <3>3
  <2>. QED
    BY <2>1, <2>2, <2>3 DEF FindsFirst, clear
<1>. QED
  BY <1>1, <1>6, <1>8, <1>9
=============================================================================
