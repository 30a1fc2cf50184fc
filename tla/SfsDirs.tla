------------------------------ MODULE SfsDirs ------------------------------
(***************************************************************************)
(* filesystem/sfs: names.  sfs_lookup, the half of sfs_open that creates a *)
(* file, sfs_creat, sfs_mkdir, sfs_rmdir and sfs_rename, on one volume as  *)
(* mkfs_sfs makes it.  A directory is a file of entries; an entry added to *)
(* it goes through sfs_write in append mode and may need a block.  What    *)
(* other files hold is SfsFile's concern, and the table of descriptors     *)
(* Vfs's.  A path is the sequence of its names, none of them "." or "..",  *)
(* and begins in the root directory, inode 0; "/" stands for the name of   *)
(* an entry that has a slash in it, which no path leads to.                *)
(***************************************************************************)
EXTENDS Mkfs, Sequences, FiniteSets, SequencesExt

CONSTANTS
  Sectors,     \* blocks of the volume
  PerBlock,    \* entries in a block: BlockSize / 32
  NumDirect,   \* NUM_DIRECT
  Paths        \* the paths that callers use

ASSUME SfsDirsAssumption == /\ Sectors \in Nat /\ PerBlock \in Nat \ {0, 1} /\ NumDirect \in Nat \ {0}
                            /\ \A p \in Paths : /\ p \in Seq(STRING) /\ p # <<>>
                                                /\ \A k \in DOMAIN p : p[k] \notin {"", ".", "..", "/"}
                            /\ Superblock(Sectors).totalblocks <= Sectors /\ NumInodes(Sectors) > 0

VARIABLES
  inodes,    \* the inodes on the volume
  iused,     \* free_inode_bitmap: the inodes in use
  bused,     \* free_block_bitmap: the blocks in use
  disk,      \* the blocks, as entries
  answer,    \* what the last call returned, any descriptor as 0
  stage,     \* "running", or "wrecked" when the volume is past saving
  named,     \* history: the path by which each inode in use was created
  lost,      \* history: the inodes in use that got no entry
  removed,   \* history: the paths of removed directories
  ghost      \* history: a call went through the name of a removed directory,
             \* or removed one that had names in it

vars == <<inodes, iused, bused, disk, answer, stage, named, lost, removed, ghost>>

super == Superblock(Sectors)
Inums == 0 .. super.num_inodes - 1
Blocks == 0 .. super.num_blocks - 1
Root == 0
None == -1

Entry(name, inode) == [name |-> name, inode |-> inode]
Zeros == [k \in 1 .. PerBlock |-> Entry("", 0)]
NoBlocks == [k \in 0 .. NumDirect - 1 |-> 0]
NewInode == [type |-> "FT_NORMAL", size |-> 0, direct |-> NoBlocks]

Init ==
  /\ inodes = [i \in Inums |-> IF i = Root THEN [type |-> "FT_DIR", size |-> 2, direct |-> [NoBlocks EXCEPT ![0] = super.rootdir]]
                               ELSE NewInode]
  /\ iused = {Root}
  /\ bused = Marked(super)
  /\ disk = [b \in Blocks |-> CASE b = super.rootdir -> [Zeros EXCEPT ![1] = Entry(".", Root), ![2] = Entry("..", Root)]
                                [] b = 0 -> [Zeros EXCEPT ![1] = Entry("Master Boot Record", 0)]
                                [] OTHER -> Zeros]
  /\ answer = 0
  /\ stage = "running"
  /\ named = [i \in {} |-> <<>>]
  /\ lost = {}
  /\ removed = {}
  /\ ghost = FALSE
-----------------------------------------------------------------------------
(* A volume as a call changes it; ok is whether its last write went well.  *)
Volume == [inodes |-> inodes, iused |-> iused, bused |-> bused, disk |-> disk, ok |-> TRUE]

FirstCleared(bitmap, size) ==
  LET clear == (0 .. size - 1) \ bitmap
  IN IF clear = {} THEN None ELSE CHOOSE b \in clear : \A c \in clear : b <= c

(* The k-th entry of directory d, from 0: a block that was taken away from *)
(* the directory reads as block 0.                                         *)
EntryAt(v, d, k) == v.disk[v.inodes[d].direct[k \div PerBlock]][(k % PerBlock) + 1]

(* sfs_dir_lookup: the first entry with that name.  Files are searched     *)
(* too, but those of this volume are empty.                                *)
DirLookup(v, d, name) ==
  LET at == {k \in 0 .. v.inodes[d].size - 1 : EntryAt(v, d, k).name = name}
  IN IF at = {} THEN None ELSE EntryAt(v, d, CHOOSE k \in at : \A j \in at : k <= j).inode

(* sfs_lookup: from directory to directory, as long as there is one *)
LookupIn(v, d, name) == IF d = None THEN None ELSE DirLookup(v, d, name)
Lookup(v, path) ==
  LET at[k \in 0 .. Len(path)] == IF k = 0 THEN Root ELSE LookupIn(v, at[k - 1], path[k])
  IN at[Len(path)]

(* A mistake: the bitmap is not updated. *)
Allocated_unmarked(v, i, log) ==
  LET b == FirstCleared(v.bused, super.num_blocks)
  IN IF b = None THEN [v EXCEPT !.ok = FALSE] ELSE [v EXCEPT !.inodes[i].direct[log] = b]

(* A block for block log of file i, if it has none. *)
Allocated(v, i, log) ==
  LET b == FirstCleared(v.bused, super.num_blocks)
  IN IF b = None THEN [v EXCEPT !.ok = FALSE]
     ELSE [v EXCEPT !.bused = @ \cup {b}, !.inodes[i].direct[log] = b]

(* A mistake: the directory is not opened to append. *)
WithEntry_atStart(v, d, e) ==
  LET w == IF v.inodes[d].size = 0 THEN Allocated(v, d, 0) ELSE v
  IN IF ~w.ok THEN w
     ELSE [w EXCEPT !.disk[w.inodes[d].direct[0]][1] = e, !.inodes[d].size = IF @ = 0 THEN 1 ELSE @]

(* sfs_write of one entry to directory d, opened to append, and sfs_close. *)
WithEntry(v, d, e) ==
  LET size == v.inodes[d].size
      log == size \div PerBlock
      w == IF size = 0 \/ v.inodes[d].direct[log] = 0 THEN Allocated(v, d, log) ELSE v
  IN IF ~w.ok THEN w
     ELSE [w EXCEPT !.disk[w.inodes[d].direct[log]][(size % PerBlock) + 1] = e, !.inodes[d].size = @ + 1]

Parent(path) == SubSeq(path, 1, Len(path) - 1)
Name(path) == path[Len(path)]

(* A mistake: the bit of the inode is not set. *)
Created_unmarked(v, d, name) ==
  LET i == FirstCleared(v.iused, super.num_inodes)
      w == WithEntry(v, d, Entry(name, i))
  IN [w EXCEPT !.inodes[i] = NewInode]

(* The inode is taken before the entry is written, and kept when the entry *)
(* cannot be.                                                              *)
Created(v, d, name) ==
  LET i == FirstCleared(v.iused, super.num_inodes)
      w == WithEntry([v EXCEPT !.iused = @ \cup {i}], d, Entry(name, i))
  IN [w EXCEPT !.inodes[i] = NewInode]

ThroughRemoved(path) == \E p \in removed : IsPrefix(p, path)

Becomes(v, a) == inodes' = v.inodes /\ iused' = v.iused /\ bused' = v.bused /\ disk' = v.disk /\ answer' = a
Uses(path) == ghost' = (ghost \/ ThroughRemoved(path))
Refuses(path) == Becomes(Volume, -1) /\ Uses(path) /\ UNCHANGED <<stage, named, lost, removed>>

Exists(path) == Lookup(Volume, path) # None
ParentOf(path) == Lookup(Volume, Parent(path))

(* A mistake: any file will do as a parent. *)
CanCreate_late(path) == ParentOf(path) # None

(* The parent is a directory and an inode is free.  (Bound: a directory    *)
(* has no more entries than its direct blocks hold.)                       *)
CanCreate(path) ==
  LET d == ParentOf(path)
  IN d # None /\ inodes[d].type = "FT_DIR" /\ FirstCleared(iused, super.num_inodes) # None
InBounds(path) == LET d == ParentOf(path) IN d # None => inodes[d].size < NumDirect * PerBlock

(* A new file, or what w makes of it, and who has a name now. *)
Adds(w, a, path) ==
  LET new == FirstCleared(iused, super.num_inodes)
  IN /\ Becomes(w, a)
     /\ Uses(path)
     /\ named' = IF w.ok THEN [i \in DOMAIN named \cup {new} |-> IF i = new THEN path ELSE named[i]] ELSE named
     /\ lost' = IF w.ok THEN lost ELSE lost \cup {new}
     /\ UNCHANGED <<stage, removed>>

(* Without a parent, its type is read from memory that nobody has set.     *)
(* When that held the inode of directory d before, an inode is taken, and  *)
(* the entry goes to d's blocks, but d's own inode does not come to know:  *)
(* it is put as number -1, before the start of a buffer.  The path leads   *)
(* nowhere afterwards either, which all but sfs_creat find out (a is what  *)
(* the call answers).                                                      *)
Misplaced(d, path) ==
  LET w == Created(Volume, d, Name(path))
      new == FirstCleared(iused, super.num_inodes)
  IN [w EXCEPT !.inodes = [inodes EXCEPT ![new] = NewInode]]
NoParent(path, a) ==
  /\ ParentOf(path) = None /\ Uses(path) /\ UNCHANGED <<named, lost, removed>>
  /\ \/ Becomes(Volume, -1) /\ UNCHANGED stage
     \/ /\ FirstCleared(iused, super.num_inodes) # None
        /\ \E d \in Inums : /\ inodes[d].type = "FT_DIR" /\ inodes[d].size < NumDirect * PerBlock
                            /\ Becomes(Misplaced(d, path), a)
        /\ stage' = "wrecked"
CannotCreate(path, a) == NoParent(path, a) \/ (ParentOf(path) # None /\ Refuses(path))

(* The file as sfs_creat makes it *)
File(path) == Created(Volume, ParentOf(path), Name(path))

(* vfs_creat: a file that gets no entry is a success too. *)
Creat(path) ==
  /\ stage = "running" /\ InBounds(path)
  /\ \/ Exists(path) /\ Refuses(path)
     \/ ~Exists(path) /\ CanCreate(path) /\ Adds(File(path), 0, path)
     \/ ~Exists(path) /\ ~CanCreate(path) /\ CannotCreate(path, 0)

(* vfs_open to write, with O_CREAT, and vfs_close: what was created has to *)
(* be found by another lookup.                                             *)
OpenCreate(path) ==
  /\ stage = "running" /\ InBounds(path)
  /\ \/ Exists(path) /\ Becomes(Volume, 0) /\ Uses(path) /\ UNCHANGED <<stage, named, lost, removed>>
     \/ /\ ~Exists(path) /\ CanCreate(path)
        /\ Adds(File(path), IF Lookup(File(path), path) = None THEN -1 ELSE 0, path)
     \/ ~Exists(path) /\ ~CanCreate(path) /\ CannotCreate(path, -1)

(* sfs_mkdir, when the file i is there: "." is written to the buffer only, *)
(* and the append of ".." reads the block from the disk over it.           *)
AsDirectory(v, i, parent) ==
  LET w == Allocated([v EXCEPT !.inodes[i].type = "FT_DIR"], i, 0)
  IN IF ~w.ok THEN [w EXCEPT !.ok = TRUE]
     ELSE [w EXCEPT !.inodes[i].size = 2, !.disk[w.inodes[i].direct[0]][2] = Entry("..", parent)]

Mkdir(path) ==
  /\ stage = "running" /\ InBounds(path)
  /\ \/ Exists(path) /\ Refuses(path)
     \/ /\ ~Exists(path) /\ CanCreate(path)
        /\ LET i == Lookup(File(path), path)
           IN IF i = None THEN Adds(File(path), -1, path)
              ELSE Adds(AsDirectory(File(path), i, ParentOf(path)), 0, path)
     \/ ~Exists(path) /\ ~CanCreate(path) /\ CannotCreate(path, -1)

(* sfs_rmdir: the block (sfs_del_phys) and the inode of a directory of two *)
(* entries are given up; the inode itself and the entry in the parent      *)
(* stay.  The two entries may be names: a directory that mkdir could not   *)
(* give a block has no "..".                                               *)
Empty(i) == inodes[i].type = "FT_DIR" /\ inodes[i].size = 2 /\ inodes[i].direct[0] # 0
Freed(v, i) == [v EXCEPT !.bused = @ \ {v.inodes[i].direct[0]}, !.inodes[i].direct[0] = 0, !.iused = @ \ {i}]
HadNames(path) == \E p \in removed \cup {named[i] : i \in DOMAIN named} : IsStrictPrefix(path, p)

Rmdir(path) ==
  /\ stage = "running"
  /\ LET i == Lookup(Volume, path)
     IN IF i = None \/ ~Empty(i) THEN Refuses(path)
        ELSE /\ Becomes(Freed(Volume, i), 0)
             /\ ghost' = (ghost \/ ThroughRemoved(path) \/ HadNames(path))
             /\ named' = [j \in DOMAIN named \ {i} |-> named[j]]
             /\ removed' = removed \cup {path}
             /\ UNCHANGED <<stage, lost>>

(* The directory is opened through the fs_private that the descriptor's    *)
(* last user left in it.  A descriptor that nobody has used has none: what *)
(* is at address 0 is written over, and the machine stops, or goes on.     *)
RmdirStrays(path) ==
  /\ stage = "running"
  /\ LET i == Lookup(Volume, path)
     IN i # None /\ Empty(i) /\ (Becomes(Volume, answer) \/ Becomes(Freed(Volume, i), 0))
  /\ stage' = "wrecked"
  /\ Uses(path) /\ UNCHANGED <<named, lost, removed>>

(* Nor is the root directory itself refused, while nothing is in it.       *)
RmdirRoot ==
  /\ stage = "running"
  /\ IF Empty(Root) THEN Becomes(Freed(Volume, Root), 0) /\ stage' = "wrecked"
     ELSE Becomes(Volume, -1) /\ UNCHANGED stage
  /\ Uses(<<>>) /\ UNCHANGED <<named, lost, removed>>

FileAt(path) == LET i == Lookup(Volume, path) IN i # None /\ inodes[i].type = "FT_NORMAL"

(* sfs_rename of anything but a file in the root directory.  A file in     *)
(* another is not found there, and the answer is what the new path leads   *)
(* to, from which its mount point has not been taken off.                  *)
RenameOther(old) ==
  /\ stage = "running"
  /\ FileAt(old) => Len(old) > 1
  /\ Uses(old) /\ \E a \in IF FileAt(old) THEN {-1, 1} ELSE {-1} : Becomes(Volume, a)
  /\ UNCHANGED <<stage, named, lost, removed>>

(* sfs_rename, of a file in the root directory: the new entry, with all of *)
(* the new path for a name, goes behind the one that was found, over the   *)
(* next or at the end, and the root's inode, in memory already freed, is   *)
(* put in the place of the file's.  Only then is the new path looked up;   *)
(* one of several names may lead nowhere, and -1 is the answer.            *)
Behind(v, k) ==   \* where the new entry goes
  IF (k + 1) % PerBlock = 0 /\ k + 1 = v.inodes[Root].size
  THEN [block |-> v.inodes[Root].direct[k \div PerBlock], place |-> 1]
  ELSE [block |-> v.inodes[Root].direct[(k + 1) \div PerBlock], place |-> ((k + 1) % PerBlock) + 1]
Rename(old, new) ==
  /\ stage = "running" /\ InBounds(old)
  /\ Len(old) = 1
  /\ LET i == Lookup(Volume, old)
     IN /\ FileAt(old)
        /\ LET k == CHOOSE j \in 0 .. inodes[Root].size - 1 :
                       /\ EntryAt(Volume, Root, j).name = Name(old)
                       /\ \A l \in 0 .. j - 1 : EntryAt(Volume, Root, l).name # Name(old)
               at == Behind(Volume, k)
               v == [Volume EXCEPT !.disk[at.block][at.place] = Entry(IF Len(new) = 1 THEN Name(new) ELSE "/", i),
                                   !.inodes[Root].size = IF k + 2 > @ THEN k + 2 ELSE @]
               w == [v EXCEPT !.inodes[i] = v.inodes[Root]]
           IN Becomes(w, IF Lookup(w, new) = None THEN -1 ELSE 1) /\ Uses(old)
  /\ stage' = "wrecked"
  /\ UNCHANGED <<named, lost, removed>>

(* Any call: sfs_dir_lookup reads through a descriptor of its own that is  *)
(* not cleared.  If its dirty happens to be set, sfs_close writes back the *)
(* block that was read last, which changes nothing, except in an empty     *)
(* file: there it is block -1, and lies before the volume.                 *)
LookupStrays(path) ==
  /\ stage = "running"
  /\ \E n \in 1 .. Len(path) - 1 :
       LET i == Lookup(Volume, SubSeq(path, 1, n)) IN i # None /\ inodes[i].size = 0
  /\ Becomes(Volume, -1) /\ Uses(path)
  /\ stage' = "wrecked"
  /\ UNCHANGED <<named, lost, removed>>

Next == \/ \E p \in Paths : \/ Creat(p) \/ OpenCreate(p) \/ Mkdir(p) \/ Rmdir(p) \/ RmdirStrays(p)
                            \/ RenameOther(p) \/ LookupStrays(p)
                            \/ \E q \in Paths : Rename(p, q)
        \/ RmdirRoot

Spec == Init /\ [][Next]_vars
-----------------------------------------------------------------------------
Inode == [type : {"FT_NORMAL", "FT_DIR"}, size : 0 .. NumDirect * PerBlock + 1, direct : [0 .. NumDirect - 1 -> Blocks]]

TypeOK ==
  /\ inodes \in [Inums -> Inode]
  /\ iused \subseteq Inums
  /\ bused \subseteq Blocks
  /\ \A b \in Blocks, k \in 1 .. PerBlock : disk[b][k].inode \in Inums
  /\ DOMAIN disk = Blocks
  /\ answer \in {0, 1, -1}
  /\ stage \in {"running", "wrecked"}
  /\ DOMAIN named \subseteq Inums

(* The properties are of the volume as long as it is not past saving and   *)
(* nobody has used the name of a removed directory.                        *)
Sound == stage = "running" /\ ~ghost

(* A path that was created leads to the inode made for it and to no other; *)
(* a path that was not leads nowhere: no entry is lost or damaged by the   *)
(* ones that follow it, wherever the ends of blocks fall.                  *)
NamesRight ==
  Sound => \A p \in Paths :
    ~ThroughRemoved(p) =>
      LET i == Lookup(Volume, p)
      IN IF i = None THEN \A j \in DOMAIN named : named[j] # p
         ELSE i \in DOMAIN named /\ named[i] = p

(* The bitmap of inodes has the root's, those that have a name, and those  *)
(* that lost theirs when the volume was full; nothing else is ever lost.   *)
InodesExact ==
  Sound => /\ iused = {Root} \cup DOMAIN named \cup lost
           /\ Root \notin DOMAIN named /\ lost \cap DOMAIN named = {}

(* The bitmap of blocks has the tables that mkfs_sfs laid out and the      *)
(* blocks of directories; a block has one owner, and none is in the        *)
(* tables.                                                                 *)
BlocksOf(i) == {inodes[i].direct[k] : k \in 0 .. NumDirect - 1} \ {0}
Tables == 0 .. super.rootdir - 1
OneOwner == /\ \A i, j \in iused : i # j => BlocksOf(i) \cap BlocksOf(j) = {}
            /\ \A i \in iused, k, l \in 0 .. NumDirect - 1 :
                 k # l /\ inodes[i].direct[k] # 0 => inodes[i].direct[k] # inodes[i].direct[l]
BlocksExact ==
  /\ TypeOK
  /\ Sound => bused = Tables \cup UNION {BlocksOf(i) : i \in iused}
  /\ Sound => OneOwner /\ \A i \in iused : BlocksOf(i) \cap Tables = {}

(* A call that is refused has changed nothing, unless it met a full volume *)
(* or went through the name of a removed directory.  The calls that wreck  *)
(* the volume are excepted too, and some of them are refused when they     *)
(* have done so: Rename to a path of several names, NoParent, LookupStrays.*)
Full == FirstCleared(bused, super.num_blocks) = None
RefusedChangesNothing ==
  [][answer' = -1 /\ Sound' => Full \/ UNCHANGED <<inodes, iused, bused, disk>>]_vars
=============================================================================
