------------------------------ MODULE SfsFile ------------------------------
(***************************************************************************)
(* filesystem/sfs: reading and writing files.  A descriptor has a copy of  *)
(* the file's inode, taken when it was opened, and a buffer that holds one *)
(* block; sfs_read and sfs_write move bytes to and from the buffer and     *)
(* exchange it with the disk when its end is reached; sfs_close saves both *)
(* the buffer and the inode.  Each call is one step: the kernel uses files *)
(* before it starts the timer (main, elf_load), and the one system call of *)
(* today writes to the console.  The calls of several descriptors mix.     *)
(*                                                                         *)
(* The byte that a program writes at position p of file f is <<f, p>>: it  *)
(* tells where a byte found on the disk was meant to be.                   *)
(* The superblock, the bitmap and the inode table stand outside disk;      *)
(* block 0 stands for every block that mkfs_sfs reserves.  A volume has    *)
(* one sector per block and no block is ever freed while files are open:   *)
(* nothing in sfs but sfs_rmdir frees one.                                 *)
(***************************************************************************)
EXTENDS SfsBlocks

CONSTANTS
  Files,      \* inodes, created empty
  NoFile,     \* the owner of bytes nobody wrote
  Desc,       \* descriptors
  Bytes,      \* block_size
  WriteCounts, ReadCounts,   \* the numbers of bytes asked for in one call
  MaxSize,    \* bound: no write goes past this position, nor past the last block of the map,
              \* for which sfs_set_phys answers 0 as for any, and keeps nothing
  MaxAfter    \* bound: opens, reads and writes of files already spoilt

ASSUME SfsFileAssumption == /\ NoFile \notin Files
                            /\ Bytes \in Nat \ {0}
                            /\ WriteCounts \cup ReadCounts \subseteq Nat \ {0}
                            /\ MaxSize \in Nat /\ MaxSize <= Bytes * Starts[4]
                            /\ MaxAfter \in Nat

VARIABLES
  used,      \* free_block_bitmap: the bits that are set
  disk,      \* the blocks: data, or pointers
  inodes,    \* the inode table on the disk
  fdesc,     \* the descriptors
  length,    \* history: how far each file has been written
  spoilt,    \* history: files used in a way the code does not cater for (see Misused)
  after      \* history: the calls made on spoilt files

vars == <<used, disk, inodes, fdesc, length, spoilt, after>>

Blank == [k \in 0 .. Bytes - 1 |-> <<NoFile, 0>>]
Closed == [open |-> FALSE]
OpenOn(f) == {d \in Desc : fdesc[d].open /\ fdesc[d].file = f}

Init == /\ used = {0}
        /\ disk = [b \in Blocks |-> Blank]
        /\ inodes = [f \in Files |-> EmptyInode]
        /\ fdesc = [d \in Desc |-> Closed]
        /\ length = [f \in Files |-> 0]
        /\ spoilt = {}
        /\ after = 0
-----------------------------------------------------------------------------
(* What one call works on: the volume and one descriptor.  ok is dropped   *)
(* when the call gives up and returns -1.                                  *)
State(d) == [used |-> used, disk |-> disk, inodes |-> inodes, fd |-> fdesc[d], ok |-> TRUE]

(* Some inode of f holds an error code for a block number.  What reading   *)
(* through it gives depends on memory nobody initialised, so the file is   *)
(* only closed from then on.                                               *)
Wrecked(f) == \E i \in {inodes[f]} \cup {fdesc[d].inode : d \in OpenOn(f)} :
                 \E b \in Named(disk, i) : b < 0

(* read_fn into, and write_fn out of, the buffer *)
Fetch(s) == IF s.fd.curr_blk \in Blocks THEN [s EXCEPT !.fd.buffer = s.disk[s.fd.curr_blk]] ELSE s
Store(s) == IF s.fd.curr_blk \in Blocks THEN [s EXCEPT !.disk[s.fd.curr_blk] = s.fd.buffer] ELSE s

(* sfs_put_inode; the bytes of other inodes in the block are kept. *)
PutInode(s) == [s EXCEPT !.inodes[s.fd.file] = s.fd.inode]

(* write_fn, sfs_put_inode, dirty = 0 *)
Flush(s) == [PutInode(Store(s)) EXCEPT !.fd.dirty = FALSE]

(* curr_log = filepos / bufsize; curr_blk = sfs_log2phys(f, curr_log) *)
Seek(s) ==
  LET log == s.fd.filepos \div Bytes
  IN [s EXCEPT !.fd.curr_log = log, !.fd.curr_blk = Log2Phys(s.disk, s.fd.inode, log)]

(* A file block log added as block b, with sfs_set_phys's result r. *)
Extended(s, log, b, r) ==
  [s EXCEPT !.used = r.vol.used, !.disk = r.vol.disk, !.fd.inode = r.inode, !.fd.curr_log = log,
            !.inodes[s.fd.file] = IF r.put THEN r.inode ELSE @,
            !.fd.curr_blk = IF r.ret = 0 THEN b ELSE @,
            !.ok = (r.ret = 0)]

(* A mistake: the bit of a block that the inode names itself is not set. *)
Extend_directFree(s, log) ==
  IF s.used = Blocks THEN [s EXCEPT !.ok = FALSE]
  ELSE LET b == FirstCleared(s.used)
           marked == IF log < NumDirect THEN s.used ELSE s.used \cup {b}
       IN Extended(s, log, b, SetPhys([used |-> marked, disk |-> s.disk], s.fd.inode, log, b))

(* first_cleared, set_bit and sfs_set_phys: a new block for file block log *)
Extend(s, log) ==
  IF s.used = Blocks THEN [s EXCEPT !.ok = FALSE]
  ELSE LET b == FirstCleared(s.used)
       IN Extended(s, log, b, SetPhys([used |-> s.used \cup {b}, disk |-> s.disk], s.fd.inode, log, b))
-----------------------------------------------------------------------------
(* The ways in which two calls get in each other's way: two descriptors on *)
(* a file that one of them changes; an append that reads the last block    *)
(* over bytes still in the buffer; turning from reading to writing at the  *)
(* end of the file, just where a block ends (the buffer then holds the     *)
(* block before), or from writing to reading where a block inside the file *)
(* has just been filled (see Read), with no lseek between; and a write     *)
(* that goes past the last block with a curr_log that lseek has left       *)
(* behind.  fcntl.h:16 promises that appends come at the end, one after    *)
(* the other: the second of two is misuse here because it loses the bytes  *)
(* of the first that are still in the buffer (sfs_write.c:104-131).        *)
Shared(d) == OpenOn(fdesc[d].file) # {d}
Overwritten(d) == fdesc[d].append /\ fdesc[d].dirty
Turned(d) == LET fd == fdesc[d]
             IN fd.bufpos = 0 /\ fd.filepos = fd.inode.size /\ fd.inode.size > 0 /\ ~fd.append
Behind(d, n) == LET fd == fdesc[d]
                    next == fd.filepos - fd.bufpos + Bytes
                IN /\ ~fd.append
                   /\ fd.curr_log * Bytes + fd.bufpos # fd.filepos
                   /\ fd.inode.size <= next /\ next < fd.filepos + n
Misused(d, n) == Shared(d) \/ Overwritten(d) \/ Turned(d) \/ Behind(d, n)

(* What a call on f leaves in the history. *)
Noted(f, misused) ==
  /\ spoilt' = IF misused THEN spoilt \cup {f} ELSE spoilt
  /\ after' = IF f \in spoilt THEN after + 1 ELSE after
  /\ after' <= MaxAfter

(* sfs_openinode, with the inode sfs_get_inode found on the disk: the      *)
(* first block is read.  dirty is what the last close left it at.          *)
GetInode(f) == inodes[f]
OpenInode(f, append) ==
  LET ino == GetInode(f)
      fd == [open |-> TRUE, file |-> f, append |-> append, inode |-> ino, buffer |-> Blank,
             bufpos |-> 0, filepos |-> 0, dirty |-> FALSE, refused |-> FALSE,
             curr_blk |-> IF ino.size # 0 THEN ino.direct[0] ELSE -1,
             curr_log |-> IF ino.size # 0 THEN 0 ELSE -1]
  IN Fetch([disk |-> disk, fd |-> fd]).fd

(* sfs_open of a file that exists *)
Open(d, f, append) ==
  /\ ~fdesc[d].open
  /\ ~Wrecked(f)
  /\ fdesc' = [fdesc EXCEPT ![d] = OpenInode(f, append)]
  /\ Noted(f, \E e \in OpenOn(f) : fdesc[e].dirty \/ fdesc[e].inode # inodes[f])
  /\ UNCHANGED <<used, disk, inodes, length>>

(* A mistake: a block is made though there is one. *)
FoundOrNew_alwaysNew(s) == Extend(s, s.fd.curr_log)

(* bufpos >= bufsize: bufpos has no sign in the code, and sfs_lseek may    *)
(* leave it below 0, which is beyond every buffer.                         *)
Full(fd) == fd.bufpos \notin 0 .. Bytes - 1

(* sfs_write, before the loop: the first block of an empty file; for an    *)
(* append, the block at the end, which may have to be made, is read.       *)
FoundOrNew(s) == IF s.fd.curr_blk = 0 THEN Extend(s, s.fd.curr_log) ELSE s
Loaded(s) == IF s.ok THEN Fetch(s) ELSE s
AtEnd(s) == [s EXCEPT !.fd.filepos = s.fd.inode.size, !.fd.bufpos = s.fd.inode.size % Bytes]
Positioned(s) == IF s.fd.inode.size = 0 THEN Extend(s, 0)
                 ELSE IF s.fd.append THEN Loaded(FoundOrNew(Seek(AtEnd(s))))
                 ELSE s

(* A mistake: curr_log is not incremented. *)
Refilled_sameLog(s) ==
  IF s.fd.filepos < s.fd.inode.size THEN Fetch(Seek(s)) ELSE Extend(s, s.fd.curr_log)

(* The buffer is full: it is written out and the next block read or made. *)
Refilled(s) ==
  IF s.fd.filepos < s.fd.inode.size THEN Fetch(Seek(s)) ELSE Extend(s, s.fd.curr_log + 1)
NextBlock(s) == Refilled(Flush([s EXCEPT !.fd.bufpos = 0]))

Taken(s) ==
  IF ~s.ok THEN s
  ELSE [s EXCEPT !.fd.buffer[s.fd.bufpos] = <<s.fd.file, s.fd.filepos>>,
                 !.fd.bufpos = @ + 1,
                 !.fd.dirty = TRUE,
                 !.fd.filepos = @ + 1,
                 !.fd.inode.size = IF s.fd.filepos + 1 > @ THEN s.fd.filepos + 1 ELSE @]
PutByte(s) == Taken(IF s.ok /\ Full(s.fd) THEN NextBlock(s) ELSE s)

(* The call's n bytes, one after the other *)
Put(s, n) == LET at[k \in 0 .. n] == IF k = 0 THEN Positioned(s) ELSE PutByte(at[k - 1]) IN at[n]

(* The variables after a write that left the call's state at s. *)
Written(d, s) ==
  LET f == fdesc[d].file
  IN /\ used' = s.used
     /\ disk' = s.disk
     /\ inodes' = s.inodes
     /\ fdesc' = [fdesc EXCEPT ![d] = [s.fd EXCEPT !.refused = ~s.ok]]
     /\ length' = [length EXCEPT ![f] = IF s.fd.filepos > @ THEN s.fd.filepos ELSE @]

Write(d, n) ==
  /\ fdesc[d].open
  /\ ~fdesc[d].refused
  /\ ~Wrecked(fdesc[d].file)
  /\ (IF fdesc[d].append /\ fdesc[d].inode.size > 0 THEN fdesc[d].inode.size ELSE fdesc[d].filepos) + n <= MaxSize
  /\ Written(d, Put(State(d), n))
  /\ Noted(fdesc[d].file, Misused(d, n))

(* A mistake: bufpos runs on. *)
AtBufferEnd_noReset(s) == IF s.fd.dirty THEN Flush(s) ELSE s

(* sfs_read: at the end of the buffer it is saved if it must be, and the   *)
(* next block read if there is one.                                        *)
AtBufferEnd(s) == IF s.fd.dirty THEN Flush([s EXCEPT !.fd.bufpos = 0]) ELSE [s EXCEPT !.fd.bufpos = 0]
Onward(s) == IF s.fd.filepos < s.fd.inode.size THEN [Fetch(Seek(s)) EXCEPT !.fd.dirty = FALSE] ELSE s
Given(s) == IF Full(s.fd) THEN Onward(AtBufferEnd(s)) ELSE s
GetByte(s) == IF s.fd.filepos >= s.fd.inode.size THEN s
              ELSE Given([s EXCEPT !.fd.bufpos = @ + 1, !.fd.filepos = @ + 1])

(* The n bytes that the call asks for *)
Get(s, n) == LET at[k \in 0 .. n] == IF k = 0 THEN s ELSE GetByte(at[k - 1]) IN at[n]

WasRead(d, s) == /\ disk' = s.disk
                 /\ inodes' = s.inodes
                 /\ fdesc' = [fdesc EXCEPT ![d] = s.fd]

(* A write that ended where its block ends leaves bufpos at the end of the *)
(* buffer, which is not saved yet; inside the file sfs_read then takes the *)
(* next byte from past the buffer (sfs_read.c:25).                         *)
JustFilled(fd) == fd.bufpos = Bytes

(* The guards on refused and Wrecked here, in Write and in Lseek are not   *)
(* in the code: they bound what callers do.                                *)
(* A read where a write has just filled the buffer inside the file takes a *)
(* byte past the buffer and one byte of the next block too few.            *)
Read(d, n) ==
  /\ fdesc[d].open
  /\ ~fdesc[d].refused
  /\ ~Wrecked(fdesc[d].file)
  /\ WasRead(d, Get(State(d), n))
  /\ Noted(fdesc[d].file, JustFilled(fdesc[d]) /\ fdesc[d].filepos < fdesc[d].inode.size)
  /\ UNCHANGED <<used, length>>

(* sfs_close: the inode is put back whether it was changed or not. *)
Close(d) ==
  /\ fdesc[d].open
  /\ disk' = IF fdesc[d].dirty THEN Store(State(d)).disk ELSE disk
  /\ inodes' = PutInode(State(d)).inodes
  /\ fdesc' = [fdesc EXCEPT ![d] = Closed]
  /\ UNCHANGED <<used, length, spoilt, after>>

Next == \E d \in Desc : \/ \E f \in Files, append \in BOOLEAN : Open(d, f, append)
                        \/ \E n \in WriteCounts : Write(d, n)
                        \/ \E n \in ReadCounts : Read(d, n)
                        \/ Close(d)

Spec == Init /\ [][Next]_vars
-----------------------------------------------------------------------------
Numbers == Blocks \cup {-1, -2}
Inode == [size : 0 .. MaxSize, direct : [0 .. NumDirect - 1 -> Numbers], root : [1 .. 3 -> Numbers]]
(* A place above the last level of its tree names a block of pointers. *)
Points(e) == Len(e[1]) <= e[1][1]

Byte == (Files \cup {NoFile}) \X (0 .. MaxSize)
Descriptor == [open : {TRUE}, file : Files, append : BOOLEAN, inode : Inode,
               buffer : [0 .. Bytes - 1 -> Byte], bufpos : Int, filepos : 0 .. MaxSize,
               dirty : BOOLEAN, refused : BOOLEAN, curr_blk : Numbers, curr_log : Nat \cup {-1}]

(* The inodes of a file that are about: on the disk and in descriptors. *)
InodesOf(f) == {inodes[f]} \cup {fdesc[d].inode : d \in OpenOn(f)}

(* Types.  A block that a map names as pointers holds pointers and one it  *)
(* names as data holds data; bufpos stays inside the buffer, whatever      *)
(* mixture of reads, writes and right seeks comes; curr_blk is a block or  *)
(* an error code.                                                          *)
TypeOK ==
  /\ used \subseteq Blocks
  /\ \A f \in Files : \A i \in InodesOf(f) : \A e \in Places(disk, i) :
       e[2] \in Blocks => IF Points(e) THEN disk[e[2]] \in [0 .. Ptrs - 1 -> Numbers]
                         ELSE disk[e[2]] \in [0 .. Bytes - 1 -> Byte]
  /\ inodes \in [Files -> Inode]
  /\ \A d \in Desc : \/ fdesc[d] = Closed
                     \/ fdesc[d] \in Descriptor /\ (fdesc[d].bufpos \in 0 .. Bytes \/ fdesc[d].file \in spoilt)
  /\ length \in [Files -> 0 .. MaxSize]
  /\ spoilt \subseteq Files
  /\ after \in 0 .. MaxAfter

BlocksOf(f) == (UNION {Named(disk, i) : i \in InodesOf(f)}) \cap Blocks

(* The bitmap and the maps agree, and no block serves twice.  Every block  *)
(* that some inode of some file names, on disk or in memory, has its bit   *)
(* set, also after a failed write and with several stale copies about:     *)
(* set_bit comes before anything else can look for a block                 *)
(* (sfs_fileblock.c:190-196).  None belongs to two files, whatever their   *)
(* users do to each other's descriptors, nor to two places of one map.     *)
NamedIsUsed == \A f \in Files : BlocksOf(f) \subseteq used \ {0}
NoSharing ==
  /\ NamedIsUsed
  /\ \A f, g \in Files : f # g => BlocksOf(f) \cap BlocksOf(g) = {}
  /\ \A f \in Files \ spoilt : \A i \in InodesOf(f) :
       \A p, q \in Places(disk, i) : p[2] = q[2] /\ p[2] > 0 => p = q

(* Nothing is lost: as long as the disk has not been full and no file has  *)
(* been misused, every block that is taken is named by a file.             *)
NoLeak == used = Blocks \/ spoilt # {} \/ used = {0} \cup UNION {BlocksOf(f) : f \in Files}

(* The descriptor that knows most about f, if one knows more than the disk *)
(* does; the inode and the bytes of f as a read through it would find them.*)
Ahead(f) == {d \in OpenOn(f) : fdesc[d].dirty \/ fdesc[d].inode # inodes[f]}
NewestInode(f) == IF Ahead(f) = {} THEN inodes[f] ELSE fdesc[CHOOSE d \in Ahead(f) : TRUE].inode
Found(f, p) ==
  LET b == Log2Phys(disk, NewestInode(f), p \div Bytes)
      held == {d \in Ahead(f) : fdesc[d].dirty /\ fdesc[d].curr_blk = b}
  IN IF held # {} THEN fdesc[CHOOSE d \in held : TRUE].buffer[p % Bytes]
     ELSE IF b \in Blocks \ {0} THEN disk[b][p % Bytes]
     ELSE <<NoFile, b>>

(* What was written is there.  In a file that was not misused every byte   *)
(* written is found at its position, through the newest inode, the three   *)
(* levels of its map and the unsaved buffer, whatever happens to the other *)
(* files; only a block whose number is an error code is excepted.          *)
ReadBack ==
  \A f \in Files \ spoilt :
     /\ NewestInode(f).size = length[f]
     /\ \A p \in 0 .. length[f] - 1 :
          Found(f, p) = <<f, p>> \/ Log2Phys(disk, NewestInode(f), p \div Bytes) < 0

(* The next byte that sfs_read will hand out is the one at filepos: the    *)
(* buffer, bufpos and filepos agree, after whatever mixture of reads,      *)
(* writes and right seeks, also where a read has just ended with a block.  *)
(* Where a write has just filled the buffer the next byte is wrong and     *)
(* is excepted, by name.                                                   *)
NextByteRight ==
  \A d \in Desc : LET fd == fdesc[d] IN
     fd.open /\ ~fd.refused /\ fd.filepos < fd.inode.size
       => \/ fd.file \in spoilt
          \/ Wrecked(fd.file)
          \/ JustFilled(fd)
          \/ fd.buffer[fd.bufpos] = <<fd.file, fd.filepos>>

(* A write is refused only when every block is taken. *)
RefusedMeansFull ==
  \A d \in Desc : fdesc[d].open /\ fdesc[d].refused => used = Blocks \/ fdesc[d].file \in spoilt
=============================================================================
