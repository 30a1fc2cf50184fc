-------------------------------- MODULE Vfs --------------------------------
(***************************************************************************)
(* filesystem/vfs and those who use it: main (p09_main.c), which mounts    *)
(* the root file system and opens the console, elf_load, the write system  *)
(* call, and kernel code that opens, creates and closes files, makes and   *)
(* removes directories, and mounts and unmounts volumes.                   *)
(*                                                                         *)
(* The table of descriptors, the list of mount points and the inode tables *)
(* of the volumes are followed; of an open file, which file it is and      *)
(* whether its memory (inode and buffer) is still allocated.  What is in   *)
(* files is SfsFile's concern, directories and bitmaps are SfsDirs'.  A    *)
(* path and a target are sequences of characters; a target ends in '/'     *)
(* (vfs_mp.h:14).  "halted" is panic, a NULL or dangling pointer followed, *)
(* or memory freed twice.                                                  *)
(***************************************************************************)
EXTENDS Integers, Sequences, FiniteSets, SequencesExt

CONSTANTS
  NumFd,       \* NUM_FD
  ProcFd,      \* num_fd of a process
  Volumes,     \* RAM disks, by minor number
  RootVolume,  \* initrd_minor
  Root,        \* the path "/"
  Targets,     \* where volumes are mounted
  Paths,       \* the paths of files
  DirPaths,    \* the paths of directories that are removed
  Inum,        \* Inum[v][rest]: the inode that the file at rest in volume v has, or will get
  Files,       \* Files[v]: the files that there are at first
  MaxMounts,   \* bound: mounts
  MaxOpens     \* bound: opens that succeed

Fds == 0 .. NumFd - 1
None == 0
InodeNumbers == UNION {{Inum[v][r] : r \in DOMAIN Inum[v]} : v \in Volumes}
MountIds == 1 .. MaxMounts

ASSUME VfsAssumption == /\ NumFd \in Nat /\ NumFd >= 3
                        /\ ProcFd \in Nat /\ ProcFd <= NumFd
                        /\ RootVolume \in Volumes
                        /\ Root \in Targets
                        /\ InodeNumbers \subseteq Nat \ {0}
                        /\ DOMAIN Files = Volumes /\ \A v \in Volumes : Files[v] \subseteq DOMAIN Inum[v]
                        /\ MaxMounts \in Nat /\ MaxOpens \in Nat

VARIABLES
  stage,     \* how far main is: "start", "mounted", "running"; or "halted"
  fdesc,     \* the table of descriptors
  mounts,    \* the list of mount points, the newest first
  mp,        \* the mount points themselves
  table,     \* the inode tables on the volumes: whose inode is in each place
  files,     \* the files on the volumes
  live,      \* the opened files whose memory is allocated
  opens,     \* history: opens that succeeded
  made,      \* history: mount points made
  gone,      \* history: of a mount point freed, how many had been made by then; 0 before
  stdio,     \* init's fd[0], fd[1], fd[2]
  users,     \* history: how many callers have each descriptor
  loose,     \* history: those of these descriptors whose in_use was cleared under the caller
  lost,      \* history: the descriptors in use that no caller knows of
  clashed,   \* history: a loose descriptor was taken for something else
  strayed,   \* history: dup or fstat gave a file another mount point than its own
  dangled,   \* history: a file was used after its mount point was freed
  misrouted  \* history: a program's write reached the console by another number than 0, 1
             \* and 2, or a file by one of these

handles == <<users, loose, lost, clashed>>
vars == <<stage, fdesc, mounts, mp, table, files, live, opens, made, gone, stdio, handles, strayed, dangled, misrouted>>

NoObj == [id |-> 0, home |-> None, vol |-> RootVolume, inum |-> 0]
FreeFd == [in_use |-> 0, type |-> "normal", mp |-> None, private |-> FALSE, obj |-> NoObj]
Unmade == [target |-> <<>>, vol |-> RootVolume, open_count |-> 0, private |-> FALSE]

(* vfs_init: the table is cleared (vfs_init_filedesc), mounts is NULL. *)
Init == /\ stage = "start"
        /\ fdesc = [d \in Fds |-> FreeFd]
        /\ mounts = <<>>
        /\ mp = [m \in MountIds |-> Unmade]
        /\ table = [v \in Volumes |-> [i \in InodeNumbers |-> <<v, i>>]]
        /\ files = Files
        /\ live = {} /\ opens = 0 /\ made = 0
        /\ gone = [m \in MountIds |-> 0]
        /\ stdio = <<>>
        /\ users = [d \in Fds |-> 0] /\ loose = {} /\ lost = {}
        /\ clashed = FALSE /\ strayed = FALSE /\ dangled = FALSE /\ misrouted = FALSE
-----------------------------------------------------------------------------
Halt == /\ stage' = "halted"
        /\ UNCHANGED <<fdesc, mounts, mp, table, files, live, opens, made, gone, stdio, handles, strayed, dangled, misrouted>>

(* A mistake: a descriptor counts as free when one user of it is left. *)
FreeFds_shared(t) == {d \in Fds : t[d].in_use <= 1}

(* alloc_fd, and the search of vfs_open_dev: the first that is not in use. *)
FreeFds(t) == {d \in Fds : t[d].in_use = 0}
AllocFd(t) == Min(FreeFds(t))

(* vfs_lookup: of the mount points whose target the path starts with, the  *)
(* one with the longest target; of several, the first in the list.         *)
Better(a, b) == Len(mp[a].target) > Len(mp[b].target)
Lookup(path) ==
  LET fits == {k \in 1 .. Len(mounts) : IsPrefix(mp[mounts[k]].target, path)}
      best == {k \in fits : \A l \in fits : ~Better(mounts[l], mounts[k])}
  IN IF best = {} THEN None ELSE mounts[Min(best)]

(* path with the target stripped off, and whether there is such a file *)
Rest(path, m) == SubSeq(path, Len(mp[m].target) + 1, Len(path))
Exists(path, m) == Rest(path, m) \in files[mp[m].vol]

(* A mistake: the inode goes to the volume that was mounted last. *)
PutInode_newest(t, m, f) == [t EXCEPT ![mp[mounts[1]].vol][f.obj.inum] = <<f.obj.vol, f.obj.inum>>]

(* sfs_put_inode(m, inum, inode) *)
PutInode(t, m, f) == [t EXCEPT ![mp[m].vol][f.obj.inum] = <<f.obj.vol, f.obj.inum>>]

(* vfs_mount_dev: the new mount point is in the list before the volume is  *)
(* looked at, and stays there when it is none (found is FALSE).            *)
MountDev(target, v, found) ==
  /\ made < MaxMounts
  /\ made' = made + 1
  /\ mp' = [mp EXCEPT ![made + 1] = [target |-> target, vol |-> v, open_count |-> 0, private |-> found]]
  /\ mounts' = <<made + 1>> \o mounts

(* main: the RAM disk is the root file system, or else panic. *)
MountRoot(found) ==
  /\ stage = "start"
  /\ MountDev(Root, RootVolume, found)
  /\ stage' = IF found THEN "mounted" ELSE "halted"
  /\ UNCHANGED <<fdesc, table, files, live, opens, gone, stdio, handles, strayed, dangled, misrouted>>

(* vfs_open_dev(console_major, console_minor, ...) *)
OpenDev(t) == [t EXCEPT ![AllocFd(t)] = [FreeFd EXCEPT !.in_use = 1, !.type = "char"]]

(* A mistake: main opens init's program before the console. *)
OpenConsole_late(t) ==
  LET u == [t EXCEPT ![AllocFd(t)].in_use = 1]
  IN [table |-> OpenDev(OpenDev(OpenDev(u))), fd |-> <<1, 2, 3>>]

(* main: stdin, stdout and stderr, one after the other. *)
OpenConsole(t) ==
  LET in == AllocFd(t)
      out == AllocFd(OpenDev(t))
      err == AllocFd(OpenDev(OpenDev(t)))
  IN [table |-> OpenDev(OpenDev(OpenDev(t))), fd |-> <<in, out, err>>]

(* main: init gets them as fd[0], fd[1] and fd[2], and in_use is counted. *)
SetUpInit ==
  /\ stage = "mounted"
  /\ LET c == OpenConsole(fdesc)
     IN /\ stdio' = c.fd
        /\ fdesc' = [d \in Fds |-> IF d \in {c.fd[k] : k \in 1 .. 3}
                                   THEN [c.table[d] EXCEPT !.in_use = @ + 1] ELSE c.table[d]]
  /\ stage' = "running"
  /\ UNCHANGED <<mounts, mp, table, files, live, opens, made, gone, handles, strayed, dangled, misrouted>>
-----------------------------------------------------------------------------
Held == {d \in Fds : users[d] > 0}

(* A descriptor is taken, though a caller may have it still. *)
Takes(d) == clashed' = (clashed \/ d \in loose)
Give(d) == users' = [users EXCEPT ![d] = @ + 1] /\ lost' = lost /\ Takes(d)

CanOpen(path) == /\ stage = "running"
                 /\ Lookup(path) # None
                 /\ FreeFds(fdesc) # {}
                 /\ mp[Lookup(path)].private

(* A descriptor without a file, whose fs_private is somebody's last.  What *)
(* its mount point was is not kept.                                        *)
Emptied(f) == [f EXCEPT !.in_use = 0, !.mp = None, !.private = TRUE, !.obj = NoObj]

(* sfs_openinode fills in the descriptor, all but its type. *)
Opened(path, used) ==
  LET m == Lookup(path)
      f == [id |-> opens + 1, home |-> m, vol |-> mp[m].vol, inum |-> Inum[mp[m].vol][Rest(path, m)]]
  IN /\ opens < MaxOpens
     /\ opens' = opens + 1
     /\ fdesc' = [fdesc EXCEPT ![AllocFd(fdesc)] = [@ EXCEPT !.in_use = used, !.mp = m, !.private = TRUE, !.obj = f]]
     /\ live' = live \cup {opens + 1}
     /\ mp' = [mp EXCEPT ![m].open_count = 1]

(* vfs_open of a file that is there *)
Open(path) ==
  /\ CanOpen(path)
  /\ Exists(path, Lookup(path))
  /\ Opened(path, 1)
  /\ Give(AllocFd(fdesc)) /\ loose' = loose \ {AllocFd(fdesc)}
  /\ UNCHANGED <<stage, mounts, table, files, made, gone, stdio, strayed, dangled, misrouted>>

(* A file is made, with an inode of its own (which one, is SfsDirs'        *)
(* concern).  Its directory is opened by the descriptor that the caller    *)
(* will get, and sfs_close of the directory clears in_use.                 *)
CanCreate(path) == CanOpen(path) /\ Rest(path, Lookup(path)) \in DOMAIN Inum[mp[Lookup(path)].vol] \ files[mp[Lookup(path)].vol]
Created(path) ==
  LET m == Lookup(path)
      v == mp[m].vol
  IN /\ files' = [files EXCEPT ![v] = @ \cup {Rest(path, m)}]
     /\ table' = [table EXCEPT ![v][Inum[v][Rest(path, m)]] = <<v, Inum[v][Rest(path, m)]>>]
     /\ Give(AllocFd(fdesc)) /\ loose' = loose \cup {AllocFd(fdesc)}

(* vfs_open with O_CREAT: sfs_openinode does not set in_use again. *)
OpenCreate(path) ==
  /\ CanCreate(path)
  /\ Created(path)
  /\ Opened(path, 0)
  /\ UNCHANGED <<stage, mounts, made, gone, stdio, strayed, dangled, misrouted>>

(* vfs_creat hands out the descriptor of the directory it has closed.      *)
(* vfs_mkdir opens and closes the new directory by it, and then frees the  *)
(* directory's inode once more: from now on kmalloc hands out one piece of *)
(* memory again and again, which is not followed.                          *)
Creat(path) ==
  /\ CanCreate(path)
  /\ Created(path)
  /\ fdesc' = [fdesc EXCEPT ![AllocFd(fdesc)] = Emptied(@)]
  /\ UNCHANGED <<mounts, mp, live, opens, made, gone, stdio, strayed, dangled, misrouted>>
  /\ stage' \in {"running", "halted"}

(* vfs_open, vfs_creat and vfs_mkdir when there is no such file, or there  *)
(* is, or no inode for it: the descriptor is freed again, its fs_private   *)
(* replaced.                                                               *)
OpenFails(path) ==
  /\ CanOpen(path)
  /\ fdesc' = [fdesc EXCEPT ![AllocFd(fdesc)] = Emptied(@)]
  /\ Takes(AllocFd(fdesc))
  /\ UNCHANGED <<stage, mounts, mp, table, files, live, opens, made, gone, stdio, users, loose, lost, strayed, dangled, misrouted>>

(* On a volume that could not be mounted fs_private is NULL.  Where there  *)
(* is no directory, a file's entry may go anywhere (SfsDirs!NoParent).     *)
OpenStrays(path) ==
  /\ stage = "running" /\ Lookup(path) # None /\ FreeFds(fdesc) # {}
  /\ ~mp[Lookup(path)].private \/ Rest(path, Lookup(path)) \notin DOMAIN Inum[mp[Lookup(path)].vol]
  /\ Halt

(* elf_load: a file that is no program is left open. *)
ElfLoad(path) ==
  /\ CanOpen(path)
  /\ Exists(path, Lookup(path))
  /\ Takes(AllocFd(fdesc))
  /\ \/ /\ Opened(path, 1)
        /\ lost' = lost \cup {AllocFd(fdesc)} /\ loose' = loose \ {AllocFd(fdesc)}
     \/ LET m == Lookup(path)   \* read, and closed
        IN /\ mp' = [mp EXCEPT ![m].open_count = 1]
           /\ fdesc' = [fdesc EXCEPT ![AllocFd(fdesc)] = Emptied(@)]
           /\ UNCHANGED <<live, opens, lost, loose>>
  /\ UNCHANGED <<stage, mounts, table, files, made, gone, stdio, users, strayed, dangled, misrouted>>

(* vfs_rmdir, when the directory is there and empty: it is opened through  *)
(* the fs_private that the descriptor's last user left, and dup may have   *)
(* left in others too.  The inode's memory is freed.  When the directory   *)
(* was removed before, the descriptor is not freed.                        *)
SharesFd(d) == {e \in Fds : e = d \/ (fdesc[e].obj = fdesc[d].obj /\ fdesc[d].obj # NoObj)}
Rmdir(path) ==
  /\ CanOpen(path)
  /\ fdesc[AllocFd(fdesc)].private
  /\ LET d == AllocFd(fdesc)
         r == [x \in Fds |-> IF x = d THEN Emptied(fdesc[d])
                             ELSE IF x \in SharesFd(d) THEN [fdesc[x] EXCEPT !.obj = NoObj] ELSE fdesc[x]]
     IN /\ \/ fdesc' = r /\ UNCHANGED <<loose, lost>>
           \/ /\ fdesc' = [r EXCEPT ![d].in_use = 1]
              /\ lost' = lost \cup {d} /\ loose' = loose \ {d}
        /\ clashed' = (clashed \/ SharesFd(d) \cap Held # {})
  /\ UNCHANGED <<stage, mounts, mp, table, files, live, opens, made, gone, stdio, users, strayed, dangled, misrouted>>
RmdirStrays(path) == /\ stage = "running" /\ Lookup(path) # None
                     /\ \/ ~mp[Lookup(path)].private
                        \/ FreeFds(fdesc) # {} /\ ~fdesc[AllocFd(fdesc)].private
                     /\ Halt

(* Where the file's mount point is: when its memory was freed, another one *)
(* may have been made there.                                               *)
MayBe(m) == {m} \cup {n \in MountIds : gone[m] > 0 /\ n > gone[m] /\ n <= made}
Saves(d) == /\ \E m \in MayBe(fdesc[d].mp) : mp[m].private /\ table' = PutInode(table, m, fdesc[d])
            /\ dangled' = (dangled \/ gone[fdesc[d].mp] > 0)

(* A mistake: the descriptor is not freed. *)
FreedFd_kept(t, d) == t

(* sfs_close, which frees the buffer and the inode, and free_fd. *)
FreedFd(t, d) == [t EXCEPT ![d] = Emptied(@)]

(* vfs_close: the inode is put back, and the memory of the file freed. *)
Close(d) ==
  /\ stage = "running"
  /\ d \in Held /\ fdesc[d].obj.id \in live
  /\ Saves(d)
  /\ live' = live \ {fdesc[d].obj.id}
  /\ fdesc' = FreedFd(fdesc, d)
  /\ users' = [users EXCEPT ![d] = @ - 1]
  /\ loose' = IF users[d] > 1 THEN loose \cup {d} ELSE loose \ {d}
  /\ lost' = lost \ {d}
  /\ UNCHANGED <<stage, mounts, mp, files, opens, made, gone, stdio, clashed, strayed, misrouted>>

(* vfs_read, vfs_write, vfs_lseek: a full buffer saves the inode too. *)
Transfer(d) ==
  /\ stage = "running"
  /\ d \in Held /\ fdesc[d].obj.id \in live
  /\ Saves(d)
  /\ UNCHANGED <<stage, fdesc, mounts, mp, files, live, opens, made, gone, stdio, handles, strayed, misrouted>>

(* The inode, the buffer and the mount point of the descriptor are there. *)
Whole(d) == fdesc[d].obj.id \in live /\ gone[fdesc[d].mp] = 0 /\ mp[fdesc[d].mp].private
UseDangling(d) == stage = "running" /\ d \in Held /\ ~Whole(d) /\ Halt

Strays(d, m) == m # fdesc[d].obj.home

(* vfs_dup: the descriptor is given the root's mount point; a copy of it   *)
(* is made, in_use included, and the answer is 1, not the copy.            *)
Dup(d) ==
  /\ stage = "running"
  /\ d \in Held
  /\ LET m == Lookup(Root)
         f == [fdesc[d] EXCEPT !.mp = m]
         moved == [fdesc EXCEPT ![d] = f]
         e == AllocFd(moved)
     IN /\ m # None
        /\ \/ FreeFds(moved) = {} /\ fdesc' = moved /\ UNCHANGED <<loose, lost, clashed>>
           \/ /\ FreeFds(moved) # {} /\ e = d
              /\ fdesc' = [moved EXCEPT ![d].in_use = 1]
              /\ loose' = loose \ {d} /\ UNCHANGED <<lost, clashed>>
           \/ /\ FreeFds(moved) # {} /\ e # d
              /\ fdesc' = [moved EXCEPT ![e] = f]
              /\ IF f.in_use > 0 THEN lost' = lost \cup {e} /\ loose' = loose \ {e} ELSE UNCHANGED <<lost, loose>>
              /\ Takes(e)
        /\ strayed' = (strayed \/ Strays(d, m))
  /\ UNCHANGED <<stage, mounts, mp, table, files, live, opens, made, gone, stdio, users, dangled, misrouted>>

(* vfs_fstat: the same assignment; then sfs_fstat follows pointers that it *)
(* has declared and not set.                                               *)
Fstat(d) ==
  /\ stage = "running"
  /\ d \in Held
  /\ LET m == Lookup(Root)
     IN /\ m # None
        /\ fdesc' = [fdesc EXCEPT ![d].mp = m]
        /\ strayed' = (strayed \/ Strays(d, m))
        /\ stage' \in {"running", "halted"}
  /\ UNCHANGED <<mounts, mp, table, files, live, opens, made, gone, stdio, handles, dangled, misrouted>>

(* SYS_write of a program: the number is tested against num_fd, translated,*)
(* and then used as it was given.  vfs_write does not look at in_use.      *)
SysWrite(p) ==
  /\ stage = "running"
  /\ p < ProcFd
  /\ \/ fdesc[p].type = "char" /\ UNCHANGED <<table, dangled>>
     \/ fdesc[p].type # "char" /\ fdesc[p].obj.id \in live /\ Saves(p)
  /\ misrouted' = (misrouted \/ (p < 3 /\ fdesc[p].type # "char") \/ (p >= 3 /\ fdesc[p].type = "char"))
  /\ UNCHANGED <<stage, fdesc, mounts, mp, files, live, opens, made, gone, stdio, handles, strayed>>
SysWriteDangling(p) == /\ stage = "running"
                       /\ p < ProcFd
                       /\ fdesc[p].type # "char" /\ ~Whole(p)
                       /\ Halt
-----------------------------------------------------------------------------
(* Another volume is mounted, or one more time. *)
Mount(target, v, found) ==
  /\ stage = "running"
  /\ MountDev(target, v, found)
  /\ UNCHANGED <<stage, fdesc, table, files, live, opens, gone, stdio, handles, strayed, dangled, misrouted>>

(* A mistake: the list loses what comes after the mount point. *)
Unlinked_tail(k) == SubSeq(mounts, 1, k - 1)

Unlinked(k) == RemoveAt(mounts, k)

(* vfs_umount looks at the head of the list by itself, then at the rest    *)
(* for the first with that target: its place in the list, or 0.            *)
MountedAt(path) ==
  LET at == {k \in 1 .. Len(mounts) : mp[mounts[k]].target = path}
  IN IF at = {} THEN 0 ELSE Min(at)
(* The head is removed whatever is open on it, and sfs_umount not called.  *)
(* Of another, open_count is tested, which a refusal sets to 0, as line 96 *)
(* does in the memory of the mount point that was freed.                   *)
Umount(path) ==
  /\ stage = "running"
  /\ LET k == MountedAt(path)
         m == mounts[k]
     IN /\ k # 0
        /\ \/ /\ k = 1 \/ (mp[m].open_count = 0 /\ mp[m].private)
              /\ mounts' = Unlinked(k)
              /\ gone' = [gone EXCEPT ![m] = made]
              /\ mp' = mp
           \/ /\ k # 1 /\ mp[m].open_count > 0
              /\ mp' = [mp EXCEPT ![m].open_count = 0]
              /\ UNCHANGED <<mounts, gone>>
  /\ UNCHANGED <<stage, fdesc, table, files, live, opens, made, stdio, handles, strayed, dangled, misrouted>>

(* Nothing is mounted, or nothing there, or (but for the head) a volume    *)
(* that could not be mounted, whose fs_private is NULL: NULL is followed.  *)
UmountMissing(path) ==
  /\ stage = "running"
  /\ LET k == MountedAt(path)
     IN k = 0 \/ (k > 1 /\ mp[mounts[k]].open_count = 0 /\ ~mp[mounts[k]].private)
  /\ Halt

Next == \/ \E found \in BOOLEAN : MountRoot(found)
        \/ SetUpInit
        \/ \E path \in Paths : \/ Open(path) \/ OpenCreate(path) \/ Creat(path) \/ OpenFails(path)
                               \/ OpenStrays(path) \/ ElfLoad(path)
        \/ \E path \in DirPaths : Rmdir(path) \/ RmdirStrays(path)
        \/ \E d \in Fds : Close(d) \/ Transfer(d) \/ UseDangling(d) \/ Dup(d) \/ Fstat(d) \/ SysWrite(d) \/ SysWriteDangling(d)
        \/ \E t \in Targets, v \in Volumes, found \in BOOLEAN : Mount(t, v, found)
        \/ \E t \in Targets : Umount(t) \/ UmountMissing(t)

Spec == Init /\ [][Next]_vars
-----------------------------------------------------------------------------
Obj == [id : 0 .. MaxOpens, home : {None} \cup MountIds, vol : Volumes, inum : InodeNumbers \cup {0}]
Filedesc == [in_use : 0 .. 2, type : {"normal", "char"}, mp : {None} \cup MountIds, private : BOOLEAN, obj : Obj]

(* Types.  The list of mount points has no repetitions and holds what was  *)
(* made and not freed; the inode tables have an inode of some volume in    *)
(* every place; a loose descriptor is somebody's.                          *)
TypeOK ==
  /\ stage \in {"start", "mounted", "running", "halted"}
  /\ fdesc \in [Fds -> Filedesc]
  /\ mp \in [MountIds -> [target : Targets \cup {<<>>}, vol : Volumes, open_count : 0 .. 1, private : BOOLEAN]]
  /\ \A k, l \in 1 .. Len(mounts) : k < l => mounts[k] > mounts[l]
  /\ \A k \in 1 .. Len(mounts) : mounts[k] \in 1 .. made /\ gone[mounts[k]] = 0
  /\ table \in [Volumes -> [InodeNumbers -> Volumes \X InodeNumbers]]
  /\ live \subseteq 1 .. opens
  /\ opens \in 0 .. MaxOpens
  /\ made \in 0 .. MaxMounts
  /\ gone \in [MountIds -> 0 .. MaxMounts]
  /\ users \in [Fds -> Nat] /\ loose \subseteq Held /\ lost \subseteq Fds
  /\ clashed \in BOOLEAN /\ strayed \in BOOLEAN /\ dangled \in BOOLEAN

Console == {stdio[k] : k \in 1 .. Len(stdio)}

(* Whoever opens a file gets a descriptor that nobody has, but for those   *)
(* that creating calls handed out, and those that another holder closed;   *)
(* these may be handed out again.  What is lost is not.                    *)
KeepsHandles == INSTANCE FileHandles WITH Handles <- Fds
HandlesKept == KeepsHandles!Spec

(* in_use tells which descriptors are taken: the console's, the lost ones, *)
(* and those that callers have, but for the ones that a creating call      *)
(* handed out or that another holder closed.                               *)
InUseExact ==
  /\ TypeOK
  /\ {d \in Fds : fdesc[d].in_use > 0} = Console \cup (Held \ loose) \cup lost
  /\ Console \cap (Held \cup lost) = {}

(* Until a loose descriptor was taken again, a descriptor has one caller,  *)
(* and is either the closed one that vfs_creat answers, or a file of its   *)
(* own: its memory is allocated and no other caller's, and its mount point *)
(* is in the list or was unmounted (where dup and fstat did not replace    *)
(* it).                                                                    *)
HeldIsOpen ==
  clashed \/ \A d \in Held :
    /\ users[d] = 1
    /\ \/ (strayed \/ d \in loose) /\ fdesc[d].obj = NoObj
       \/ /\ fdesc[d].obj.id \in live
          /\ \A e \in Held : fdesc[d].obj.id = fdesc[e].obj.id => d = e
          /\ strayed \/ gone[fdesc[d].mp] > 0 \/ \E k \in 1 .. Len(mounts) : mounts[k] = fdesc[d].mp

(* SYS_write does not translate a program's descriptor (syscall_handler.c: *)
(* 31-32), yet what init writes to 0, 1 and 2 always reaches the console:  *)
(* they are the same numbers in both tables, and nobody can free them.     *)
ConsoleReached ==
  stage = "running" => /\ \A k \in 1 .. 3 : stdio[k] = k - 1 /\ fdesc[stdio[k]].type = "char"
                       /\ ~misrouted

(* Every inode that is put back goes to its own place on its own volume,   *)
(* with volumes mounted over each other, unmounted and refused, and with   *)
(* descriptors handed out twice, as long as no file is used after its      *)
(* volume was unmounted and dup and fstat leave its mount point alone.     *)
InodesKept == strayed \/ dangled \/ \A v \in Volumes, i \in InodeNumbers : table[v][i] = <<v, i>>
=============================================================================
