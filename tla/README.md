# vmlarix in TLA+

Models, model-checking runs and proofs for the vmlarix teaching kernel (`src/current/vmlarix`), an ARM SA1110
kernel in C: physical memory, page tables, a kernel heap with slabs, round-robin processes, a virtual file system over
a simple file system on a RAM disk, and a console. Modules are written from the C and assembly source.
`PROJECT.json` maps every definition to the lines it stands for, and lists the runs, the mutants, the hazards and the theorems.

## The system

The kernel runs on one CPU. Kernel code started by `main` runs with interrupts masked and is not preempted; the only
concurrency is the timer interrupt, which takes the CPU from one user process and gives it to another, and the fast
interrupt, whose handler prints.

| Part | State it keeps | Operations | Called by | What makes it correct |
|---|---|---|---|---|
| physical pages, `mm/phys_mem.c` | `bitmap`, `num_free`, static `current` | init, get_pages, free_page, count_free | slabs, page tables, mmap, main | no frame lost or owned twice, exact count, aligned grants, justified refusals, the search ends |
| heap pages, `arch/ARM/SA1110/slabs.c` | `kmalloc_page_tables`, static `index` | slab_init, slab_create, slab_destroy | kmalloc | exactly the slabs' pages are mapped, each to its own frame; nothing outside the heap; the search ends |
| kmalloc, `mm/kmalloc.c` | rows of slab headers, list of special blocks, both inside the heap itself | kmalloc, kfree, kmalloc_free_some_pages | every subsystem | memory in use never overlaps, stays mapped, is never lost |
| processes, `process/process.c`, `process_q.c` | `p_tab`, `run_q`, `curr_proc` | create, schedule, exit | main, the timer interrupt | nobody lost, round robin, no invalid state |
| context switch, `process_asm.s`, `process_arch.c`, `interrupts.s`, `handlers.c` | half of a context on the process's stack, half in its record | save, start, resume, ARM_irq | the timer | a process finds its registers as it left them |
| page tables, `pt_alloc.c`, `page_table.c`, `mmap.c` | lists of free first and second level tables | alloc, free, lookup, map | main, mmap | a table belongs to one list or one user; translation answers what was mapped, in both directions; the stacks' frames are nobody else's |
| VFS, `filesystem/vfs` | `fdesc[]`, list of mount points with open counts | open, close, creat, dup, read, write, lseek, mount, umount, ... | main, system calls, ELF loader | which descriptors are taken is known; inodes go back to their own volume; the console stays where programs expect it |
| SFS, `filesystem/sfs`, `ramdisktools/mkfs_sfs.c` | super block, two bitmaps, inodes with direct to triple indirect blocks, one buffered block per open file | mount, open, read, write, lseek, mkdir, ... | VFS | bitmaps agree with inodes; the block map is a function of the logical block; buffers are written back; a name leads to the inode made for it |
| console output, `util/kprintf.c`, `usr/lib/printf.c`, `drivers/char` | a static buffer, the table of devices | kprintf, ksnprintf, printf, snprintf, char_write, char_read | everybody; the handler of fast interrupts | nothing is written behind a buffer; what is printed is the text; truncation is told |
| bitmaps, `util/bitmap.c` | none | set, clear, get, first_cleared | physical pages, SFS | they act as sets of numbers |
| block devices, `drivers/block` | `blk_dev[]`, RAM disk records | read, write, ioctl | SFS | requests stay inside the device |
| system calls, ELF loader, boot, user programs | | | | |

How they interact: `kmalloc` asks `slab_create` for virtual pages, which asks `phys_mem_get_pages` for frames one at a
time; freeing goes the same way back. Everything above allocates its records with `kmalloc`. `process_create`
allocates the process's context and descriptor table and queues it; the timer interrupt pushes part of the
interrupted context on that process's own stack and calls `schedule()`, which returns on the stack of another process.

What is hard: searches that keep a static position between calls (`phys_mem_get_pages`, `slab_create`) and whose end
depends on meeting that position exactly; an allocator that allocates its own records while it allocates; a context
split over two places; a queue whose links go stale; error codes that look like valid values; errors half way through
an operation on disk.

## The modules

| Module | Models | Abstract specification | Checked by | Proved in |
|---|---|---|---|---|
| `PhysMem` | phys_mem.c, one loop test per step | `PageAllocator` | `MCPhysMem` | `PhysMemProofs` |
| `PageTables` | pt_alloc.c, page_table.c, mmap.c, one call per step | | `MCPageTables` | `PageTablesProofs` |
| `Slabs` | slabs.c, one loop turn per step | `HeapRegion` | `MCSlabs` | `SlabsProofs` |
| `Kmalloc` | kmalloc.c, one call per step | | `MCKmalloc` | `KmallocProofs` |
| `ProcessQueue`, `Process` | process_q.c, process.c, the context switch | `RoundRobin` | `MCProcess` | `ProcessProofs` |
| `Vfs` | filesystem/vfs and what SFS does with descriptors, main's set-up of init, elf_load, SYS_write | `FileHandles` | `MCVfs` | `VfsProofs` |
| `SfsBlocks` | sfs_fileblock.c, the map from file blocks to disk blocks, as operators | | `MCSfsFile` | `SfsFileProofs` |
| `SfsFile` | sfs_read.c, sfs_write.c, sfs_close.c, opening an existing file | | `MCSfsFile` | `SfsFileProofs` |
| `SfsLseek` | sfs_lseek.c, on top of `SfsFile` | | `MCSfsFile` | `SfsFileProofs` |
| `Mkfs` | where mkfs_sfs.c puts the parts of a volume, as operators | | `MCSfsDirs` | `SfsDirsProofs` |
| `SfsDirs` | lookup, creat, the creating open, mkdir, rmdir, rename | | `MCSfsDirs` | `SfsDirsProofs` |
| `Bitmap` | bitmap.c, as operators | a set of numbers | `MCSfsDirs` | `SfsDirsProofs` |
| `Format` | the conversions and cursors of kprintf.c and printf.c, as operators | | `MCConsole` | |
| `Console` | kprintf, ksnprintf, printf, snprintf, chardev.c, 16550.c | | `MCConsole` | |

`SfsLseek` EXTENDS `SfsFile`, which EXTENDS `SfsBlocks`; `SfsDirs` EXTENDS `Mkfs`; `Console` EXTENDS `Format`; `Process`
EXTENDS `ProcessQueue`. A component that calls another takes what the other promises: `Slabs` and `PageTables` get
frames as `PageAllocator` gives them, `Kmalloc` gets pages as `HeapRegion` gives them. An operator whose comment calls
it a mistake is the mutated form of the definition after it; nothing uses it.

### PhysMem

The bitmap is the set of frames whose bit is 1; addresses are frame numbers. `GetPages` is the entry of the call,
`FindAligned`, `NextAligned`, `CheckRun` are the tests and bodies of its two loops, `Refuse` and `Grant` its two
returns; `FreePage` gives back a run that is held. `Init` is `phys_mem_init`, its three passes included, over a
no-probe list, a kernel image and a set of frames with RAM. `held` is history. The assumption says what the callers
and `mem_list.c` guarantee: a request fits behind the last RAM frame, because the top of the address space has no RAM.
A stride is `1 << (align - 1)` frames, which is why four shapes of request have strides 1, 2 and 4.

### PageTables

The kernel sees the page tables of processes through two windows of its own memory; `lev_1_pts` and `lev_2_pts` map
the windows, and the code turns an address in a window into a physical one, and back, by looking at these maps. A table
is therefore named in two ways in the model too, by its place (in the lists of free tables) and by its frame (in
entries). Addresses are counted in tables, entries keep their kind and what they point to. `ram1` and `ram2` are the
tables in memory, with junk in frames nobody has cleared. `Init` is `setup_kernel_page_table`, with the section that
holds the stacks and the vectors on frames from `phys_mem`. Besides sections the kernel's table has entries with key 1 for the two windows and the heap
(`Statics`): they name static arrays of the kernel, which the allocator of tables knows nothing of. `pt_alloc_init` and
`slab_init` enter them, the same each time, before any other table exists, so the model has them from the start.
`NewTable` copies them, as page_table.c:273-279 does, into every table that `pt_new` makes; a translation that meets
one panics, because `pt_l2_lookup_virt` does not find the array in the window (`Unseen`). `VirtToPhys` answers `Panic`
for these pages, and `PhysToVirt`, which walks all entries, for every frame it has not found before the first of them:
`Translates` and `FindsBack` say exactly when. `PtAddMapping` is the whole call, the allocation of a second
level table inside it included. The outcomes that stop the kernel are states of `status`: a panic when a window is
full; `"rom"` when the frames run out, since pt_alloc.c:261 compares with NULL an answer whose error code is 1 and maps
the boot ROM; `"abort"` when `pt_l2_free` meets an empty list and reads at address 0; `"wiped"` after the second
`pt_new`, which initialises the allocator over the tables in use. What the translation buffer holds is not modelled:
nothing in the code invalidates it. `mapped` is history: what each table was asked to map.

### Slabs

One step is one turn of the search loop (`Scan`), one page mapped (`MapPage`), or one of the two panics. Frames come
from `phys_mem_get_pages(1,1)` as `PageAllocator` promises it: some free frame or none. (With requests of one page
that promise includes an answer: `AnsweredUnlessFragmented` always applies.) `slabs` is history.

### Kmalloc

A heap is a record: `slab` (for each slab its header address, free list, count and total), `row` (the slabs of each
size, in list order), `special` (large blocks) and `mapped` (pages). An operation is an operator from a heap to the
set of its outcomes, several because `slab_create` may place a slab in any unmapped run; this is how `HeapRegion`
enters. The nested calls are kept: a new slab's header is itself an object (`AllocHeader`), or the slab's own first
item (`NewHeaderSlab`); the record of a large block is one too. The two panics of `slab_create` may come whenever a
call needs pages (`OutOfMemory`), since the model does not say how many frames there are. The walk of
`kmalloc_free_some_pages` is `Trimmed`: the first slab with its full count is deleted (`Deleted`), as often as there are slabs.
That frees headers, in slabs of the header row, which keep their own header and never have their full count.

### Process

A record is a slot, 0 is NULL. `run_q` is the queue with the links of all records exactly as the code leaves them,
stale ones included. `Tick` is a whole interrupt: `ARM_irq` pushes the low registers (`frame`), `schedule` saves the
high ones (`arch`), queues the process and dispatches another. `Compute` is a user program changing its registers;
`work` is history: what the registers must contain. `main` creates processes only before it starts the timer.
`process_exit` is what its body does, nothing: its call of `process_destroy` is a declaration (process.c:149), so no
entry of the table is ever used again.

### Vfs

`stage` follows p09_main: the root file system is mounted, the console opened three times, init given the descriptors
(`SetUpInit`), and then files are opened, created, loaded, duplicated, written and closed and directories made and
removed while volumes are mounted and unmounted in any order. An open file is an object (which file, and whether its
memory is allocated); what is in files belongs to `SfsFile`, and what is in directories to `SfsDirs`: here a path leads
to a file that is there or can be made (`Files`, `Inum`), which inode a new file gets is fixed, and the outcome of
`vfs_rmdir` is left open. `table` is what is in each place of the inode tables on the volumes, so an inode put back to
the wrong volume shows.

A descriptor is not always its holder's. The creating open, `vfs_creat` and `vfs_mkdir` open the directory by the
caller's own descriptor and close it again; `sfs_close` clears `in_use` (sfs_open.c:121, sfs_creat.c:117,
sfs_mkdir.c:110, sfs_close.c:40) and nobody sets it, so the caller has a descriptor that the next `alloc_fd` hands out
again. Four history variables follow this: `users` counts who has each descriptor, `loose` are those of them that are not
in use, `clashed` says that a loose one was taken for something else, and `lost` are those in use that nobody knows of.
The code makes lost ones in three places: `elf_load` returns from its errors without closing the file
(elf_load.c:91-94), `dup` answers 1 whatever descriptor it took, and `sfs_rmdir` returns without `free_fd` from a
directory that was removed before (sfs_rmdir.c:64-68). A descriptor that is closed keeps the fs_private of its last user,
through which `sfs_rmdir` opens a directory; what its mount point was is not kept. `sfs_mkdir` frees its inode twice
(sfs_mkdir.c:110,113); the heap after that is not followed: the call may end in `"halted"`.

`Umount` keeps what vfs_umount.c does: the head of the list is unmounted whatever is open on it, another one is refused
once if its `open_count` is not 0 and then has it set to 0. Files that are open on it stay open. Their mount point's memory
is freed (`gone`) and may be another mount point's by the time the file is used, so that an inode may be put back to
any of those made since (`MayBe`), or the machine stops (`UseDangling`); `dangled` records the use. `dup` and `fstat` also
replace the mount point of the descriptor by the root's, which `strayed` records. The properties say up to which of these
events they hold.

### SfsBlocks, SfsFile and SfsLseek

`SfsBlocks` has the two directions of the block map: `Log2Phys` follows it, `SetPhys` adds a block and takes blocks of
pointers on the way. The recursion of the code, never deeper than the three trees, is unrolled. The error codes that
the code stores as block numbers stay negative numbers, which name no block.

`SfsFile` composes it with the descriptors. One call of `sfs_open`, `sfs_read`, `sfs_write` or `sfs_close` is one step:
the kernel opens files before it starts the timer, and the one write that user programs make today goes to the
console. Calls of several descriptors interleave. Inside a call, `Write` and `Read` go byte by byte as the loops do
(`PutByte`, `GetByte`), over a record of the volume and the descriptor that is dropped back into the variables at the
end; a call that gives up leaves what it had done. A byte is written as its file and position, so a byte found in the
wrong place shows. The inode table is on the disk; each descriptor has its own copy of an inode. Block 0 stands for
the blocks that mkfs_sfs reserves. No block is freed: in the code only `sfs_rmdir` does that.

`SfsLseek` adds the seeks. The branches are those of the code: the block asked for compared (a number in the file with a
number on the disk) with the current one; otherwise the buffer is saved if dirty and SEEK_SET, SEEK_CUR or SEEK_END reads
another block. The code divides offsets by 128 (`SeekSize`) where the buffer has as many bytes as the volume's blocks
(`Bytes`), which is 256 on the RAM disk of usr/programs/Makefile:32; the two are constants of their own. `temp` is the pair of
static variables that all files share. `Catered` says, by what the call can see, which seeks are right; the others
spoil the file. Where blocks do not have 128 bytes these are the SEEK_SETs to the first 128 bytes of a block, the
file's first, and a SEEK_CUR of less than 128 bytes straight after one: any other reads one block and sets the
positions of another.

Some uses are outside what the code caters for, and mark a file `spoilt`, after which only `MaxAfter` more calls are
followed and the properties ask of it only that it does not harm other files: two descriptors on a file that one of
them writes; an append over bytes not yet saved, which the append overwrites with what is on the disk
(sfs_write.c:69; so of two appends through one descriptor the first may lose its end, though fcntl.h:16 promises that
appends come at the end of the file); turning from reading to writing at the end of a file exactly where the buffer ends, or
from writing to reading where a block has just been filled inside the file, where sfs_read.c:25 reads a byte past the
buffer (`JustFilled`); a seek that is not `Catered`. Two guards are not in the code, but bound what callers do: a file
whose map holds an error code (`Wrecked`) is only closed, since the RAM disk would read outside its memory, and so is a
descriptor whose write was refused, that is, callers heed the -1. A volume that fills up while blocks
of pointers are made is reported at one level only (sfs_fileblock.c:216), so the converse of `RefusedMeansFull` does
not hold.

### Mkfs and SfsDirs

`Mkfs` is the arithmetic of mkfs_sfs.c. `SfsDirs` starts on a volume laid out by it and follows both bitmaps, the inodes
and the directories' entries, block by block. An entry is added as the code does it, by appending to the directory's
file (`WithEntry`), after the inode is taken (`Created`). What the code leaves behind is kept: a full volume costs an inode
and `creat` succeeds all the same (`lost`); without a parent the type is read from memory nobody set, and where a
directory's inode lay there, an inode is taken and an entry written to that directory's blocks without its inode
knowing (`NoParent`, `Misplaced`), though the call answers -1, or 0 from `creat`; `mkdir` loses the entry "." because the append of ".." reads the block over it; `rmdir` leaves the entry in the parent, whose
name then leads to an inode the next file gets (`removed`, and `ghost` once such a name was used); `rmdir` takes a
directory for empty by its size alone, and one that `mkdir` made on a full volume has no "." and "..", so it is removed
with two names in it, and its block, with those names, is the next directory's (`HadNames`, a `ghost` too); `rename` overwrites
the entry behind the one it found and puts the root's inode in the place of the file's, which wrecks the volume, and if the
new path has several names it answers -1 after that (sfs_rename.c:78-113); `rmdir` of the root itself is not refused
while it is empty (`RmdirRoot`); a directory is removed through the fs_private of a descriptor, which nobody may have
allocated, and then address 0 is written over (`RmdirStrays`); the
descriptor of `sfs_dir_lookup` is not initialised, so in an empty file its close may write before the volume
(`LookupStrays`). The properties are of volumes that are not wrecked and on which no ghost was followed. Left out: `creat`
and `mkdir` of the root itself, whose path is empty (the index that looks for the last slash wraps), and the heap after
the inode that `sfs_mkdir` frees twice.

### Bitmap

A word is the set of its bits that are 1, so `1 << bit` is a singleton and `|=`, `&= ~` are union and difference; what is
left is the division of a bit number into word and place, and the loop of `first_cleared`. `BitsOf` is the set of numbers
that all the other modules take a bitmap for.

### Format and Console

A format is a sequence of items, a literal or a conversion with its argument; a buffer is followed by `Beyond` bytes of
other memory. The two cursors are kept as in the code: `bufptr`, and `remain`, which counts digits that do not fit and may
become negative. In `Console` kprintf goes item by item and its output byte by byte, and `Fiq`, the handler of fast
interrupts, may print into the same static buffer between any two of these steps. `KSnprintf` and `USnprintf` work on a
buffer of their caller and are one step each. `UART_16550_write` stops at the end of the text or one byte after the length
it was given. The most negative long long prints as "-" alone (`convert_dec`).

The header of kprintf.c is not kept in two places, and the properties say so by name. Before a negative `%x` it
promises "two leading periods" (kprintf.c:34-41), which no conversion makes: `Promised` is the text with them, and
`PrintsText` and `TruncationTold` hold such formats against the digits alone (`NoPeriods`). It also promises the number of
characters "which would have been written to the final string if enough space had been available" (kprintf.c:7-10):
the loop stops at the item that reaches the size, and what comes after it is not counted. `TruncationTold` states what is
left of it, the answer up to that item, and that truncation can still be told from it.

## The runs

| Run | Instance | What it shows |
|---|---|---|
| `physmem` | 14 frames, two no-probe regions, a bad frame, requests of 1 to 4 pages with strides 1, 2, 4 | frames conserved, bounds, justified refusals, `PageAllocator` implemented; with weak fairness of the search, calls end unless free aligned frames begin runs that are too short |
| `physmem_answer` | same | finding: otherwise they may never end |
| `ptables` | 7 free frames, sections of two frames, top level tables of 5 entries, one of them a static, windows of two top level tables and two pages of two second level tables | every table on one list or with one user, translation and its inverse answer what was mapped, the stacks' frames are nobody else's |
| `ptables_new` | same | finding: the second `pt_new` forgets the tables in use |
| `slabs` | 9 entries, 7 interchangeable frames, slabs of 2 and 3 pages | tables, frames and slabs agree, `HeapRegion` implemented |
| `kmalloc` | 9 heap pages of 8 units, slabs of 2 pages, rows 1 to 16, two objects held | no overlap, everything mapped, nothing lost, the count never promises more than the list holds, trimming |
| `kmalloc_rows` | same | finding: the row of whole-slab items serves nothing |
| `process` | 3 slots, register contents modulo 3, fairness of the timer | nobody lost, contexts kept, round robin, everyone runs |
| `vfs` | 5 descriptors, 2 volumes with a file of the same inode number on each and one that can be made, 3 paths of files and one of a directory, 2 mounts, 2 opens that succeed | `FileHandles` implemented, in_use exact but for loose descriptors, held files have their memory, inodes go home, init's output reaches the console |
| `sfs` | 7 blocks of 4 bytes where seeks divide by 2, 2 pointers a block, 1 direct block; two files, two descriptors, writes of seven bytes and reads of eight, two seeks | bitmap and maps agree, no block serves twice or is lost, what was written is found, the buffer agrees with the position, refusals mean full; the map alone over all three levels |
| `dirs` | 13 blocks of two entries, six paths in a tree two levels deep | names lead to their inodes, both bitmaps exact, refusals change nothing, until a call wrecks the volume; the layout for all volumes up to 5000 blocks; bitmaps as sets |
| `console` | a buffer of 5 bytes with 3 behind it, words of 8 and 12 bits, one fast interrupt | one byte over at most, the text printed, the output inside the buffer, truncation told; every 8-bit number in every base |

A type invariant is the first conjunct of a deeper property where a run checks it (`OneOwner`, `OneByteOver`,
`InUseExact`, `BlocksExact`), a property of its own in `Kmalloc` and `SfsFile`, and proved in every module but `Console`.

Why the bounds are enough. `physmem`: a hole, a bad frame and both ends make every way the search can be stopped or
wrap; four shapes of request make it round down and change stride; the theorems cover every other size. `ptables`:
frames run out at every point where the code asks for one, the second page of the second level window is used while the
first is in part on the list, two tables are made, freed and made again; pages of
the process's half, of the entry of the stacks and of the static entry are mapped and asked for. `process`: with one process the queue links a
record to itself, with two the stale link is repaired at each turn, with three the queue is longer than the switch; the
theorems cover any number. `slabs`: two sizes, room for three or four slabs, and frames that run out before or after the
heap does. `kmalloc`: five rows with the same shape as the twelve real ones (one-item slabs, a row that holds headers,
smaller rows, larger ones), two held objects beside up to four slabs: one object frees or holds what the other's record
needs. `vfs`: the console takes three descriptors, so the two others are taken, lost, handed out twice and exhausted; of two mount points either may be
mounted over the other or on the same target, unmounted with files open, and its memory taken for the other. `sfs`:
writes of seven bytes end inside blocks of four, or with one after a seek, reads of eight end with one; seeks to 1 and 7 lie in the first part of the first
block, and beyond it; a file of 14 bytes needs the direct block, the first tree and the second, and the volume runs out before that at every step
of a `SetPhys` in them; what one file takes the other lacks. Files that reach the third tree would need a larger volume:
`MapFindsAll`, an assumption TLC evaluates, makes files of every length up to the whole of all three trees, and the theorems
of `SfsFileProofs` are about maps and files of every size. `dirs`: the
root needs a second block, inodes and blocks run out in either order. `console`: formats of up to three items end before,
at and after the end of the buffer in every kind of item.

`CHECK_DEADLOCK FALSE` stands where the system stops: after a panic or a wrecked volume, or at a bound on calls.

Fairness. `FairSpec` of `PhysMem` says only that a call in progress keeps executing: nothing preempts it. `FairSpec` of
`Process` says that `main` reaches `start_timer` and that timer interrupts keep coming: the handler re-arms the timer each
time (`handlers.c:32`). Nothing is assumed of user programs. The other modules are safety only: their calls are one step,
or loops whose end is plain; the search of `slab_create` is the exception, see the hazards.

## The theorems

All are proved with TLAPS for every value of the constants that the named assumptions allow.

`PhysMemProofs`: `IInv` is the types, the conservation of frames, the count, the alignment of grants and, during a
call, `SearchInv`. Refusals are not inductive alone: one must know which frames the search has passed. `Passed` says
it for a search that started at `first` and may have wrapped to 0, and `SearchInv` that no passed frame with room for
the request is free. When the search comes back to `first` everything has been passed. From `IInv` follow the
invariants of the run, and that every step is a `PageAllocator` step or a stutter (`ImplementsPromise`).

`ProcessProofs`: `ContextInv` says where each context is: current in the CPU, not started and untouched, or parked in
two halves that agree with what the process computed. `ContextsSurvive` follows. `NeverPanics` needs `LinksLive`: every
pointer the queue could follow, stale or not, leads to a live process, which no step changes. `QueueInv` says what the
links mean: there is a line, a sequence without repetition, and the queue `Holds` it. Either the links are that line
(`Chain`), or nobody is in line, and then the queue is empty or the current process is `Alone`, linked to itself or not,
because `pq_pop` left `last` pointing at it. `pq_append` and `pq_pop` turn a queue that holds a line into one that holds
the next (`AppendChain`, `PopHolds`, `RotateHolds`); a tick with a process alone goes back to itself. The live processes
are those in line and the current one. What is met on the way from the front is a recursive function; a function that
satisfies its equation is the only one, or there would be a least place where they differ (`OneWalk`), so `ChainWalk` gives
it outright. From this follow `NobodyIsLost` and, the line being the abstract one, `ImplementsRoundRobin`. The
assumption is that the process table is finite.

`SlabsProofs`: `IInv` adds to the agreement of tables, frames and slabs what is left of the run being mapped: it is
unmapped and inside the heap from the moment it is chosen. `FramesKept` and `SlabsAgree` are parts of it, `ImplementsRegion`
is the refinement.

`VfsProofs`: `HandleInv` says who has each descriptor: in use are the console's, the lost ones and those of callers that are
not loose; the console's are nobody else's, and exactly the character devices. A descriptor that is allocated was not in
use, hence nobody's or loose (`FreeIsNobodys`), which is what `FileHandles` asks of each step (`ImplementsHandles`). At
the start nothing is in use, so the console gets the three least numbers (`ConsoleFirst`, from the well-foundedness of the
natural numbers), and the invariant keeps them: `ConsoleSafe`. Lookup and mount points play no part. `FileInv` adds the files
and the mount points. Mount points made are in the list, newest first, or were freed (`MountsOK`). A descriptor holds no
file, or one whose inode and volume are those of a mount point that was made, and is on that mount point as long as
nothing strayed (`PlacedInv`); this is also true of descriptors that were closed under their holder, which is why inodes
stay `InPlace` even when descriptors were handed out twice: only a use after an unmount can put one elsewhere, since then the
memory of the mount point may be another's. Until a descriptor was handed out twice, a caller's has one user and is a file of
its own, alive, or was closed by `vfs_creat` (`OwnInv`). Neither part says that files are closed before an unmount. `InUseIsExact`,
`HeldStaysOpen` and `InodesStayInPlace` follow. The assumption is that the table has at least three descriptors (NUM_FD is
1024) and a process no more than that, and that the root is one of the targets.

`PageTablesProofs`: `SafeInv` is `StacksSafe` over the set `StackFrames`. `Grows` says what any allocation may do as long
as the kernel runs: frames only leave `phys_mem`, and a place of a window that changes gets frames that were free. It is
proved of each allocation and carried through the calls that contain one (`GrowsThen`); the stacks' frames are not free,
so nothing is put there. `InitSafe` is the arithmetic of sections. The other three need more: `IInv` is `Owned` of the whole
record a call works on, while the kernel runs. The tables that are in a window and not on its list are, for the top level,
those of processes, and for the second level those entered in them, each in one place, and those given to a caller;
windows and lists are `Sound`, without repetitions and on frames that are not free; and what the tables `Answer`, read
without the checks of virt_to_phys, is what was asked for. It is an invariant of every operation on the record, the
allocations inside pt_add_mapping included; a freed table is on the list again and in no other place, so clearing and
reusing it changes no other process's answers. `MappingsTranslate` then needs that the search of the windows finds every table entered, and
`MappingsFindBack` that the search for a frame visits every entry. The assumptions say how the sizes fit together, and
that callers have at least one frame to map.

The last two parts of `SfsDirsProofs` are about what it rests on. A quotient rounded up is large enough and not one too large (`BlocksForFits`), so every part of a volume
holds what it is for (`LayoutSound`). A bit number is its word times the length of a word plus its place, so setting one
place of one word changes one number (`BitmapIsSet`); the loop of `first_cleared` stops at the least clear bit (`FirstIsFirst`).

`SfsDirsProofs`: that names lead to the right inodes says nothing of where the next entry goes, so `IInv` is about the whole
volume. As long as the properties speak of it, the volume is a `Tree`: a file in use has the blocks its entries need
(`SizesOK`); a block is in the tables, has one owner, or is free (`OwnersOK`); the bitmap of inodes is as `InodesExact` says
(`BitsOK`); each entry of a directory is the name of an inode in use, belongs to a removed directory, or is empty or a dot,
and each name has an entry (`NamesOK`). `CleanOK` is the part that is easily missed: free blocks, and what is behind the end
of a directory, hold no names, because `mkdir` takes a block as it finds it and counts two entries, of which it writes one.
Only a removal could break it, which is why the removal of a directory with names in it is a ghost (`HadNames`). In
any state, with ghosts or without, the types hold and a lookup answers an inode or none. `LookupFinds` says that lookup
follows the names, one by one, since no two inodes share one: the directories met are a recursive function again, and the
first of them that the names do not lead to would be a least place. A directory that grows by an entry keeps its parts
apart from the others' (`Extends`), in its last block or in a new one, which was free and therefore nobody's. From that
follow what `sfs_creat` makes (`CreatedTree`, with a lost inode when the volume is full), what `mkdir` makes of it
(`AsDirectoryTree`), and what a removal leaves (`ReleasedTree`). `NamesStayRight`, `InodesStayExact` and `BlocksStayExact` are
parts of `IInv`; `RefusalsChangeNothing` needs besides that a file just created is found by the next lookup (`CreatedFound`).
The assumptions: paths are not empty and have no empty names or dots in them, a block has room for two entries, and the
parts of the volume fit on it and leave an inode.

`KmallocProofs`: that nothing overlaps says nothing of the next allocation, so `IInv` says where everything is. `HeapOK`
is about a heap of which the items `Y` are in use besides the slabs' headers, and the pages `R` are mapped besides the
slabs': the list of a slab has each of its items that is in neither once, and its count is one less (`ListsOK`); every
header has an item of its own in a slab of the header row, the slabs of that row their first (`HeadersOK`); what is in use
is an item of some slab (`ItemsOK`); slabs share no page with each other or with `R` (`PagesOK`); a row lists the slabs of
its size, each once (`RowsOK`). `Sound` says what `Y` and `R` are: row headers, records, objects, and the pages of large
blocks, one block for each large object. Keeping `Y` and `R` apart from the callers' objects is what lets the nested calls
be reasoned about one at a time: in the middle of kmalloc_slab_new a slab's pages are in `R`, and an allocated header is in
`Y` until `AddSlab` makes it one. `slab_alloc_item` moves an item into `Y` (`TakeHeap`), `slab_free_item` out of it
(`GiveHeap`), a slab may go when none of its items is in use (`RemoveSlab`), and then its header is like any other item. A
slab has its full count exactly when none of its items is in use (`FullIs`), never in the header row. The turns of the
trimming are a recursive function: that one exists, and that after as many turns as there are slabs none has its full
count, is by a least number of turns that would fail (`TurnsExist`, `TrimmedIs`). So kfree finds the slab of what it is given and
never panics, and the run's four invariants and `TrimReleases` follow. The assumptions: sizes divide a slab, one row's items
are a whole slab, headers and records are smaller, and a slab of headers has room for the row headers and two more (12
rows and 256 items in the code). A record of a large block is taken from a row of two items a slab or more: from the
row of whole slabs it would be the NULL of `kmalloc_rows`.

`SfsFileProofs`: the code keeps no record of what a block is there for; only the map that names it tells, and the maps of
open files are copies in their descriptors. `IInv` therefore says that each block in use has a role, a file and a place in
its map, for as long as the volume lives: some function `role` exists, and each step shows the next one. `InOrder` is what holds
of every file: a block whose role is a place of pointers holds, for each place under it, no number, an error code, or a block
with this role; the inodes on the disk and in the descriptors name blocks in the same way, whether old or new; no
descriptor's buffer goes back to a block of pointers or of another file. So two maps cannot meet, and one map cannot name a block
twice: a block has one role (`NothingShared`). `FilesRight` is what holds of a file that was not misused: if no descriptor or
one is on it, its newest inode's map has a block, or a code, for exactly the positions below its size (`Mapped`); all
blocks that are there for it are named (`AllNamed`); each byte is in its block or in the buffer that is not saved yet
(`DataRight`); an error code means a full volume; and the descriptor is at the start of an empty file, at the end, or in
the block that its buffer holds (`FdRight`). `SetPhysOK` says that sfs_set_phys keeps all that on its way down through one, two or
three blocks of pointers: what is new is on the way (`Local`), and if a block cannot be had, the code stands where its number would.
`PutGoes` and the lemmas for reads and seeks carry it through the loops of a call (`Goes`, step by step); the loops are recursive
functions, and a number of turns at which it first failed would be a least one. A call leaves the other files what
they had (`FileFramed`). The six invariants of the run follow: the sets that `NoSharing` and `ReadBack` speak of are found by walking the
maps, so the places are put in rows, one for each level (`RowIs`, `NamedAll`).
The assumptions: a block has a byte and a map a direct block, and files are not longer than the map reaches (`MaxSize`): for a
block beyond it sfs_set_phys keeps nothing and its callers do not see that. With blocks of 512 bytes that is a gigabyte.
The theorems are of `SeekSpec`, that is, with seeks. TLC does not look for a `role`; it checks what follows from there being one.

Only model-checked: liveness (the prover has none under fairness), and the four invariants of `Console`. What a call prints is
a fold over the items of its format, each of which is a fold over digits that are powers of the base apart; that it is the
text asked for is an induction over both, and the provers know nothing of powers.

## Findings

Three disagreements between the code and what it says of itself are runs with `expect` violation; `findings` in
`PROJECT.json` quotes the lines. `phys_mem_get_pages` may search for ever where phys_mem.h promises an answer; the row of
kmalloc whose items are a whole slab never serves one; `pt_new` forgets the tables that exist.

Other disagreements, between the code and a comment of the repository, are followed by the models and excepted from
the properties by name: `process_exit` releases nothing, against process.h:46; `open_count` is no count of files, against
vfs_mp.h:17; of two appends through one descriptor the first may lose its end, against fcntl.h:16 (`Overwritten`); no periods
before a negative `%x` and a length that leaves out what follows the item that overflows, against kprintf.c:34-41 and 7-10.

Of others nothing in the repository says that they should be otherwise: with slabs of two sizes the search of
`slab_create` may go round for ever; a descriptor from a creating call is handed out twice, and some are lost; `sfs_mkdir` frees
an inode twice; `vfs_umount` of the head ignores open files, and line 96 writes to a mount point that was freed; a full volume
is reported as success by `creat`; `rmdir` may remove a directory with names in it, and the root; the seeks that are
not `Catered`; a byte past the buffer is read after an overwrite that ends with a block; one byte behind a buffer is
written when a text ends exactly there; p09_main's use of `phys_to_virt` on the kernel's table always panics; `elf_load`
clears one byte more than the bss has.

## Not modelled

The MMU, cache and coprocessor instructions (what a missing flush does is outside the C code); the entry and exit code
of the software interrupt and of aborts; `vfs_mount` by name, `fcntl`, `ioctl`; the parts of SFS that are stubs (`trunc`,
`link`, `unlink`, `mknod`) or change a field nothing reads (`fchmod`, `fchown`); the contents of ELF files; the registers of
the UART and the timer; boot code that runs straight through; the user library but for `printf.c`, and the user programs,
which are sequential code over system calls that are not served; the other host tools; dead code (`sfs/oldstuff`, the
dated copy of `sfs_lseek.c`, `pq_find`, `pq_remove`, `pq_push_back`).
