----------------------------- MODULE SfsLseek -----------------------------
(***************************************************************************)
(* filesystem/sfs/sfs_lseek.c, called from vfs_lseek: moving a descriptor  *)
(* of SfsFile to another position.  The call divides the offset by 128,    *)
(* whatever the block size of the volume is (256 on the RAM disk of        *)
(* usr/programs/Makefile); what it does then, now with blocks of 128 bytes *)
(* and now with those of the volume, depends on whence and on how offset   *)
(* compares with 128 and with the file.  Most seeks are wrong on a volume  *)
(* whose blocks are longer: Catered names the others.                      *)
(* Offsets are not negative.  bufpos, 32 bits without a sign in the code,  *)
(* may fall below 0 here: it stands for a number beyond every buffer.      *)
(***************************************************************************)
EXTENDS SfsFile

CONSTANTS
  SeekSize,   \* the 128 of sfs_lseek.c
  Offsets,    \* the offsets asked for
  MaxSeeks    \* bound: calls of lseek

ASSUME SfsLseekAssumption == /\ SeekSize \in Nat \ {0}
                             /\ Offsets \subseteq Nat
                             /\ MaxSeeks \in Nat

Whences == {"SEEK_SET", "SEEK_CUR", "SEEK_END"}

VARIABLES
  temp,     \* the static temp_filepos and temp_bufpos: one pair for all files
  seeks     \* history: the calls of lseek

seekVars == <<vars, temp, seeks>>

SeekInit == /\ Init
            /\ temp = [filepos |-> 0, bufpos |-> 0]
            /\ seeks = 0

(* offset_case 0, 1 and 2: the tests in their order, the last one wins. *)
Small(fd, offset) == offset < SeekSize /\ offset <= fd.inode.size

(* computed_block_number: a block of the file only if its blocks have 128  *)
(* bytes.                                                                  *)
Block(offset) == offset \div SeekSize

(* curr_blk = sfs_log2phys(f, log); read_fn; dirty = 0 *)
ReadBlock(s, log) == [Fetch([s EXCEPT !.fd.curr_blk = Log2Phys(s.disk, s.fd.inode, log)]) EXCEPT !.fd.dirty = FALSE]

(* The block asked for (a number in the file) is the current one (a number *)
(* on the disk): only the two positions change, whatever whence is.        *)
SameBlock(s, offset) == [s EXCEPT !.fd.filepos = offset, !.fd.bufpos = offset]

(* A mistake: the buffer is given up. *)
Saved_never(s) == s

(* The current block is written out before it is left. *)
Saved(s) == IF s.fd.dirty THEN Flush(s) ELSE s

(* A mistake: the position in the buffer stays at its beginning. *)
SeekSet_fromZero(s, offset) ==
  [ReadBlock(s, Block(offset)) EXCEPT !.fd.filepos = offset, !.fd.bufpos = 0]

(* SEEK_SET: curr_log is left as it was. *)
SeekSet(s, offset) ==
  [ReadBlock(s, Block(offset)) EXCEPT !.fd.filepos = offset,
                                      !.fd.bufpos = offset - (Block(offset) * SeekSize)]

(* SEEK_CUR: from where the last SEEK_SET of any file has landed. *)
SeekCur(s, offset) ==
  LET over == temp.bufpos + offset > Bytes
      on == IF Small(s.fd, offset) THEN 1 ELSE Block(offset)
      back == IF Small(s.fd, offset) THEN (IF over THEN Bytes ELSE 0) ELSE Block(offset) * Bytes
      log == (temp.filepos \div Bytes) + (IF over THEN on ELSE 0)
  IN [ReadBlock(s, log) EXCEPT !.fd.curr_log = log,
                               !.fd.filepos = temp.filepos + offset,
                               !.fd.bufpos = temp.bufpos + offset - back]

(* SEEK_END: the block of the end is read; where the end is inside it does *)
(* not count.                                                              *)
SeekEnd(s, offset) ==
  LET log == s.fd.inode.size \div Bytes
  IN [ReadBlock(s, log) EXCEPT !.fd.curr_log = log,
                               !.fd.filepos = s.fd.inode.size + offset,
                               !.fd.bufpos = offset - (Block(offset) * Bytes)]

Moved(s, offset, whence) ==
  CASE s.fd.curr_blk = Block(offset) -> SameBlock(s, offset)
    [] s.fd.curr_blk # Block(offset) /\ whence = "SEEK_SET" -> SeekSet(Saved(s), offset)
    [] s.fd.curr_blk # Block(offset) /\ whence = "SEEK_CUR" -> SeekCur(Saved(s), offset)
    [] s.fd.curr_blk # Block(offset) /\ whence = "SEEK_END" -> SeekEnd(Saved(s), offset)

(* The seeks that are right, by what the call can see: to a place in the   *)
(* file, which is in another block than the one whose number on the disk   *)
(* the current block happens to have, and in the first 128 bytes unless    *)
(* the blocks have 128; and, for SEEK_CUR, straight after a SEEK_SET of    *)
(* the same descriptor, less than 128 bytes on.                            *)
Catered(fd, offset, whence) ==
  /\ fd.curr_blk # Block(offset)
  /\ \/ /\ whence = "SEEK_SET"
        /\ offset < fd.inode.size
        /\ SeekSize = Bytes \/ (offset < SeekSize /\ offset < Bytes)
     \/ /\ whence = "SEEK_CUR"
        /\ temp = [filepos |-> fd.filepos, bufpos |-> fd.bufpos]
        /\ fd.filepos + offset < fd.inode.size
        /\ Small(fd, offset)
        /\ fd.bufpos < Bytes
        /\ fd.bufpos + offset < 2 * Bytes
        /\ fd.bufpos + offset # Bytes

Lseek(d, offset, whence) ==
  /\ fdesc[d].open
  /\ ~fdesc[d].refused
  /\ ~Wrecked(fdesc[d].file)
  /\ seeks < MaxSeeks
  /\ LET fd == fdesc[d]
         s == Moved(State(d), offset, whence)
     IN /\ s.fd.filepos <= MaxSize
        /\ WasRead(d, s)
        /\ temp' = IF whence = "SEEK_SET" /\ fd.curr_blk # Block(offset)
                   THEN [filepos |-> s.fd.filepos, bufpos |-> s.fd.bufpos] ELSE temp
        /\ Noted(fd.file, ~Catered(fd, offset, whence))
  /\ seeks' = seeks + 1
  /\ UNCHANGED <<used, length>>

SeekNext == \/ Next /\ UNCHANGED <<temp, seeks>>
            \/ \E d \in Desc, offset \in Offsets, whence \in Whences : Lseek(d, offset, whence)

SeekSpec == SeekInit /\ [][SeekNext]_seekVars
=============================================================================
