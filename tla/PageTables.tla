----------------------------- MODULE PageTables -----------------------------
(***************************************************************************)
(* arch/ARM/SA1110: pt_alloc.c, page_table.c and mmap.c.  The kernel sees  *)
(* the tables of processes through two windows of its virtual memory, one  *)
(* for tables of each level; lev_1_pts and lev_2_pts map the windows.  A   *)
(* page of the second window holds PerPage tables.  A table is named by    *)
(* its place in its window (a virtual address) or by its place in physical *)
(* memory, and the code turns one into the other by looking at the maps.   *)
(*                                                                         *)
(* Addresses are counted in tables: the second level table q of frame f is *)
(* at f * PerPage + q, a top level table at its first frame.  Virtual page *)
(* v is entry v % Entries2 of the table in top level entry v \div Entries2.*)
(* Entries keep their kind and what they point to; the cache, access and   *)
(* domain bits have the same values in every entry of a kind.              *)
(***************************************************************************)
EXTENDS Integers, Sequences, SequencesExt, FiniteSets, FiniteSetsExt

CONSTANTS
  Frames,       \* free frames at the start
  UserFrames,   \* frames that the callers hold, to be mapped
  L2Pages,      \* NUM_LEV_2_PTS: pages of the second level window
  PerPage,      \* 4: second level tables in a page
  L1Tables,     \* NUM_LEV_1_PTS / 4: tables in the top level window
  L1Frames,     \* 4: frames of a top level table
  L1Align,      \* 8: what phys_mem_get_pages(4, 4) aligns to
  Entries1,     \* 0x1000: entries of a top level table
  Private,      \* 0x800: the first entry of the kernel's half
  Entries2,     \* 256: entries of a second level table, frames of a section
  Sections,     \* entries that setup_kernel_page_table fills, and with which section
  StackEntry,   \* the entry of __stack_start__
  Statics,      \* entries of the two windows and the kernel heap, and the tables in the kernel's image they name
  MapPages      \* the virtual pages that callers map

ASSUME PageTablesAssumption ==
  /\ Frames \cup UserFrames \subseteq Nat \ {0} /\ Frames \cap UserFrames = {} /\ UserFrames # {}
  /\ {L2Pages, PerPage, L1Tables, L1Frames, L1Align, Entries2} \subseteq Nat \ {0}
  /\ Entries1 \in Nat /\ Private \in 1 .. Entries1
  /\ DOMAIN Sections \subseteq Private .. Entries1 - 1 /\ \A e \in DOMAIN Sections : Sections[e] \in Nat
  /\ StackEntry \in (Private .. Entries1 - 1) \ DOMAIN Sections
  /\ DOMAIN Statics \subseteq (Private .. Entries1 - 1) \ (DOMAIN Sections \cup {StackEntry})
  /\ \A e \in DOMAIN Statics : Statics[e] \in Nat /\ Statics[e] \div PerPage \notin Frames \cup {0}
  /\ MapPages \subseteq 0 .. Entries1 * Entries2 - 1

VARIABLES
  free,               \* the frames phys_mem has
  kernel_page_table,
  lev_1_pts,          \* the first frame of the table at each place of the window
  lev_2_pts,          \* the frame of each page of the window
  avail_l1_pts,       \* the list of free tables, by place
  avail_l2_pts,
  ram1, ram2,         \* the tables in physical memory
  status,             \* "running", or what stopped the kernel
  mapped,             \* history: for each top level table in use, what it was asked to map
  spare               \* history: second level tables handed out and not entered anywhere

vars == <<free, kernel_page_table, lev_1_pts, lev_2_pts, avail_l1_pts, avail_l2_pts, ram1, ram2, status, mapped, spare>>

None == -1            \* key 0
Panic == -2           \* what a lookup that panics is said to answer
Rom == 0              \* the frame of address 0, and of PHYS_MEM_NONE, which is 1
Fault == [key |-> 0, base |-> 0]
Coarse(t) == [key |-> 1, base |-> t]
Section(b) == [key |-> 2, base |-> b]

Top == 0 .. Entries1 - 1
Pages == 0 .. Entries1 * Entries2 - 1
Unmapped1 == [e \in Top |-> Fault]
Unmapped2 == [e \in 0 .. Entries2 - 1 |-> 0]
(* What a frame holds before anything is put there. *)
Junk1 == [e \in Top |-> Section(CHOOSE f \in UserFrames : TRUE)]
Junk2 == [e \in 0 .. Entries2 - 1 |-> CHOOSE f \in UserFrames : TRUE]

(* What phys_mem_get_pages(n, .) may answer: see PageAllocator.  Rom is    *)
(* PHYS_MEM_NONE shifted to a frame number.                                *)
Runs(avail, n, align) == {f \in avail : f % align = 0 /\ f .. f + n - 1 \subseteq avail}
GetPages(avail, n, align) == IF Runs(avail, n, align) = {} THEN {Rom} ELSE Runs(avail, n, align)

(* A mistake: one frame too few is taken. *)
Taken_oneFewer(avail, f, n) == avail \ (f .. f + n - 2)

(* The run of n frames at f is no longer free. *)
Taken(avail, f, n) == avail \ (f .. f + n - 1)
-----------------------------------------------------------------------------
(* setup_kernel_page_table: the fixed sections, and the section that holds *)
(* the stacks and the interrupt vectors, on frames from phys_mem.  Then    *)
(* slab_init and pt_alloc_init enter the second level tables that map the  *)
(* heap and the two windows; they are static arrays (lev_1_pts, lev_2_pts, *)
(* kmalloc_page_tables), not tables of a window.  pt_alloc_init, which     *)
(* "must be called to set up page tables" (pt_alloc.c:77), is called at    *)
(* the start of every pt_new and enters the same again each time: the      *)
(* model has the entries from the start.                                   *)
SetupKernel(f) ==
  [e \in Top |-> CASE e = StackEntry -> Section(f \div Entries2)
                   [] e \in DOMAIN Sections -> Section(Sections[e])
                   [] e \in DOMAIN Statics -> Coarse(Statics[e])
                   [] OTHER -> Fault]

Init == \E f \in GetPages(Frames, Entries2, Entries2) :
          /\ free = Taken(Frames, f, Entries2)
          /\ kernel_page_table = SetupKernel(f)
          /\ status = IF f = Rom THEN "rom" ELSE "running"
          /\ lev_1_pts = [i \in 0 .. L1Tables - 1 |-> None]
          /\ lev_2_pts = [i \in 0 .. L2Pages - 1 |-> None]
          /\ avail_l1_pts = <<>>
          /\ avail_l2_pts = <<>>
          /\ ram1 = [g \in {Rom} \cup Frames |-> Junk1]
          /\ ram2 = [t \in {g * PerPage + q : g \in Frames, q \in 0 .. PerPage - 1} |-> Junk2]
          /\ mapped = <<>>
          /\ spare = {}

(* fast_virt_to_phys, of the kernel's own sections *)
FastVirtToPhys(v) ==
  LET t == kernel_page_table[v \div Entries2]
  IN IF t.key = 2 THEN (t.base * Entries2) + (v % Entries2) ELSE None
-----------------------------------------------------------------------------
(* What one call works on; status and table are its outcome. *)
State == [free |-> free, lev1 |-> lev_1_pts, lev2 |-> lev_2_pts, avail1 |-> avail_l1_pts, avail2 |-> avail_l2_pts,
          ram1 |-> ram1, ram2 |-> ram2, status |-> "running", table |-> None]

Least(S) == CHOOSE x \in S : \A y \in S : x <= y

(* pt_l1_lookup_virt and pt_l2_lookup_virt: the first page of the window   *)
(* that is mapped to the frame; none is a panic.                           *)
L1LookupVirt(lev1, p) == LET at == {i \in DOMAIN lev1 : lev1[i] = p} IN IF at = {} THEN None ELSE Least(at)
L2LookupVirt(lev2, t) ==
  LET at == {i \in DOMAIN lev2 : lev2[i] = t \div PerPage}
  IN IF at = {} THEN None ELSE (Least(at) * PerPage) + (t % PerPage)

(* pt_l1_lookup_phys, pt_l2_lookup_phys *)
L1LookupPhys(lev1, i) == lev1[i]
L2LookupPhys(lev2, a) == (lev2[a \div PerPage] * PerPage) + (a % PerPage)

(* A mistake: the list is left pointing at the first table. *)
MapL2_keepsFirst(s, i, f) ==
  [s EXCEPT !.free = Taken(@, f, 1), !.lev2[i] = f, !.table = i * PerPage,
            !.avail2 = [k \in 1 .. PerPage |-> i * PerPage + k - 1],
            !.status = IF f = Rom THEN "rom" ELSE @]

(* pt_l2_alloc: page i of the window is mapped to frame f; its first table *)
(* is the answer and the others go to the list.  phys_mem's error code is  *)
(* not recognised (it is compared with NULL).                              *)
MapL2(s, i, f) ==
  [s EXCEPT !.free = Taken(@, f, 1), !.lev2[i] = f, !.table = i * PerPage,
            !.avail2 = [k \in 1 .. PerPage - 1 |-> i * PerPage + k],
            !.status = IF f = Rom THEN "rom" ELSE @]
ZeroedL2(s) == IF s.status = "running" THEN [s EXCEPT !.ram2[L2LookupPhys(s.lev2, s.table)] = Unmapped2] ELSE s
FreshL2(s) ==
  LET room == {i \in DOMAIN s.lev2 : s.lev2[i] = None}
  IN IF room = {} THEN {[s EXCEPT !.status = "panic"]}
     ELSE {MapL2(s, Least(room), f) : f \in GetPages(s.free, 1, 1)}

(* pt_l2_alloc *)
AllocL2(s) ==
  {ZeroedL2(r) : r \in IF s.avail2 # <<>> THEN {[s EXCEPT !.table = Head(s.avail2), !.avail2 = Tail(@)]}
                       ELSE FreshL2(s)}

(* pt_l1_alloc: a table from the list, or L1Frames frames mapped at the    *)
(* first free place.                                                       *)
MapL1(s, i, f) ==
  [s EXCEPT !.free = Taken(@, f, L1Frames), !.lev1[i] = f, !.table = i, !.status = IF f = Rom THEN "rom" ELSE @]
FreshL1(s) ==
  LET room == {i \in DOMAIN s.lev1 : s.lev1[i] = None}
  IN IF room = {} THEN {[s EXCEPT !.status = "panic"]}
     ELSE {MapL1(s, Least(room), f) : f \in GetPages(s.free, L1Frames, L1Align)}
ZeroedL1(s) == IF s.status = "running" THEN [s EXCEPT !.ram1[L1LookupPhys(s.lev1, s.table)] = Unmapped1] ELSE s
AllocL1(s) ==
  {ZeroedL1(r) : r \in IF s.avail1 # <<>> THEN {[s EXCEPT !.table = Head(s.avail1), !.avail1 = Tail(@)]}
                       ELSE FreshL1(s)}

Ends(s) ==
  /\ free' = s.free /\ lev_1_pts' = s.lev1 /\ lev_2_pts' = s.lev2
  /\ avail_l1_pts' = s.avail1 /\ avail_l2_pts' = s.avail2
  /\ ram1' = s.ram1 /\ ram2' = s.ram2 /\ status' = s.status
-----------------------------------------------------------------------------
(* A new top level table p, which should translate as the function to,     *)
(* enters the history.                                                     *)
Enter(s, p, to) == mapped' = IF s.status = "running" THEN [q \in DOMAIN mapped \cup {p} |-> IF q = p THEN to ELSE mapped[q]]
                             ELSE mapped

PtL1Alloc ==
  /\ status = "running"
  /\ \E s \in AllocL1(State) :
        /\ Ends(s)
        /\ Enter(s, L1LookupPhys(s.lev1, s.table), [v \in Pages |-> 0])
  /\ UNCHANGED <<kernel_page_table, spare>>

(* pt_alloc_init: both windows are unmapped; the lists of free tables are  *)
(* left as they are, with places that are no longer mapped.                *)
Wiped(s) == [s EXCEPT !.lev1 = [i \in DOMAIN @ |-> None], !.lev2 = [i \in DOMAIN @ |-> None]]
InUse == \E i \in DOMAIN lev_1_pts : lev_1_pts[i] # None

(* pt_new, after pt_alloc_init and pt_l1_alloc: the kernel's half is       *)
(* copied, with the entries of the windows and the heap.                   *)
NewTable(s) ==
  IF s.status # "running" THEN s
  ELSE [s EXCEPT !.ram1[L1LookupPhys(s.lev1, s.table)] =
          [e \in Top |-> IF e < Private THEN Fault ELSE kernel_page_table[e]]]

(* What virt_to_phys answers for a page of the kernel's half *)
KernelAnswer(v) == IF v \div Entries2 \in DOMAIN Statics THEN Panic ELSE Max({0, FastVirtToPhys(v)})

(* pt_new.  With tables in use it unmaps them all; which memory the rest   *)
(* of the call reaches then depends on what the TLB still holds (nothing   *)
(* invalidates it), and the model stops.                                   *)
PtNew ==
  /\ status = "running"
  /\ IF InUse \/ \E i \in DOMAIN lev_2_pts : lev_2_pts[i] # None
     THEN Ends([Wiped(State) EXCEPT !.status = "wiped"]) /\ UNCHANGED mapped
     ELSE \E r \in AllocL1(Wiped(State)) :
            /\ Ends(NewTable(r))
            /\ Enter(r, L1LookupPhys(r.lev1, r.table), [v \in Pages |-> KernelAnswer(v)])
  /\ UNCHANGED <<kernel_page_table, spare>>

(* The entries of p that name a second level table of the window. *)
OfWindow(x) == x.key = 1 /\ \A e \in DOMAIN Statics : x.base # Statics[e]
Uses(p) == {e \in Top : OfWindow(ram1[p][e])}

(* pt_l1_free of a table that maps nothing: pt_delete, which should free   *)
(* what a table points to, does nothing yet.                               *)
PtL1Free(p) ==
  /\ status = "running"
  /\ p \in DOMAIN mapped
  /\ Uses(p) = {}
  /\ avail_l1_pts' = <<L1LookupVirt(lev_1_pts, p)>> \o avail_l1_pts
  /\ mapped' = [q \in DOMAIN mapped \ {p} |-> mapped[q]]
  /\ UNCHANGED <<free, kernel_page_table, lev_1_pts, lev_2_pts, avail_l2_pts, ram1, ram2, status, spare>>

PtL2Alloc ==
  /\ status = "running"
  /\ \E s \in AllocL2(State) :
        /\ Ends(s)
        /\ spare' = IF s.status = "running" THEN spare \cup {L2LookupPhys(s.lev2, s.table)} ELSE spare
  /\ UNCHANGED <<kernel_page_table, mapped>>

(* pt_l2_free: a is put before the head, or after the last of the entries  *)
(* behind the head that the loop passes, those greater than a.             *)
Inserted(list, a) ==
  IF a < list[1] THEN <<a>> \o list
  ELSE LET stays == {k \in 2 .. Len(list) : list[k] <= a}
           k == IF stays = {} THEN Len(list) + 1 ELSE Least(stays)
       IN InsertAt(list, k, a)

(* pt_l2_free.  With an empty list it reads at address 0, which nothing    *)
(* maps in the kernel's table: a data abort.                               *)
PtL2Free(t) ==
  /\ status = "running"
  /\ t \in spare
  /\ IF avail_l2_pts = <<>> THEN status' = "abort" /\ UNCHANGED <<avail_l2_pts, spare>>
     ELSE /\ avail_l2_pts' = Inserted(avail_l2_pts, L2LookupVirt(lev_2_pts, t))
          /\ spare' = spare \ {t}
          /\ UNCHANGED status
  /\ UNCHANGED <<free, kernel_page_table, lev_1_pts, lev_2_pts, avail_l1_pts, ram1, ram2, mapped>>
-----------------------------------------------------------------------------
(* pt_add_mapping, steps 3 to 6: the second level table for entry e of     *)
(* table p, made if there is none; table is its place in the window.       *)
SecondLevel(s, p, e) ==
  CASE s.ram1[p][e].key \in {2, 3} -> {[s EXCEPT !.status = "panic"]}
    [] s.ram1[p][e].key = 1 ->
         LET a == L2LookupVirt(s.lev2, s.ram1[p][e].base)
         IN {IF a = None THEN [s EXCEPT !.status = "panic"] ELSE [s EXCEPT !.table = a]}
    [] OTHER ->   \* key 0
         {IF r.status = "running" THEN [r EXCEPT !.ram1[p][e] = Coarse(L2LookupPhys(r.lev2, r.table))] ELSE r : r \in AllocL2(s)}

(* A mistake: the entry is found from the whole page number. *)
Mapped_wrongEntry(s, v, f) ==
  IF s.status = "running" THEN [s EXCEPT !.ram2[L2LookupPhys(s.lev2, s.table)][(v + v \div Entries2) % Entries2] = f] ELSE s

(* Steps 7 and 8: what was mapped there before is forgotten. *)
Mapped(s, v, f) ==
  IF s.status = "running" THEN [s EXCEPT !.ram2[L2LookupPhys(s.lev2, s.table)][v % Entries2] = f] ELSE s

(* pt_add_mapping *)
PtAddMapping(p, v, f) ==
  /\ status = "running"
  /\ p \in DOMAIN mapped
  /\ L1LookupVirt(lev_1_pts, p) # None
  /\ \E s \in SecondLevel(State, p, v \div Entries2) :
        /\ Ends(Mapped(s, v, f))
        /\ mapped' = IF s.status = "running" THEN [mapped EXCEPT ![p][v] = f] ELSE mapped
  /\ UNCHANGED <<kernel_page_table, spare>>

(* virt_to_phys and virt_to_phys2, of a page; 0 is NULL.  A second level   *)
(* table that is not in the window, as those of the windows and the heap   *)
(* themselves, is a panic.  Large pages and the other keys that panic are  *)
(* never made.                                                             *)
VirtToPhys(p, v) ==
  LET e == ram1[p][v \div Entries2]
  IN CASE L1LookupVirt(lev_1_pts, p) = None -> Panic
       [] e.key = 0 -> 0
       [] e.key = 1 -> IF L2LookupVirt(lev_2_pts, e.base) = None THEN Panic ELSE ram2[e.base][v % Entries2]
       [] e.key = 2 -> (e.base * Entries2) + (v % Entries2)

(* phys_to_virt2: the entry that maps frame f, or 0xFFFFFFFF *)
PhysToVirt2(t, f) == LET at == {k \in 0 .. Entries2 - 1 : ram2[t][k] = f} IN IF at = {} THEN None ELSE Least(at)

(* A second level table that is not in the window *)
Unseen(x) == L2LookupVirt(lev_2_pts, x.base) = None

(* A mistake: only the first second level table is searched. *)
PhysToVirt_first(p, f) ==
  LET sections == {e \in Top : ram1[p][e] = Section(f \div Entries2)}
      first == {e \in Top : ram1[p][e].key = 1 /\ \A d \in 0 .. e - 1 : ram1[p][d].key # 1}
      ends == {e \in first : Unseen(ram1[p][e]) \/ PhysToVirt2(ram1[p][e].base, f) # None}
  IN CASE L1LookupVirt(lev_1_pts, p) = None -> Panic
       [] sections # {} -> (Least(sections) * Entries2) + (f % Entries2)
       [] sections = {} /\ ends = {} -> None
       [] OTHER -> IF Unseen(ram1[p][Least(ends)]) THEN Panic
                   ELSE (Least(ends) * Entries2) + PhysToVirt2(ram1[p][Least(ends)].base, f)

(* phys_to_virt: a section is looked for first.  Then the second level     *)
(* tables are searched in turn, until one maps the frame or is not in the  *)
(* window, a panic.  The model's page 0 is a page and None is NULL.        *)
PhysToVirt(p, f) ==
  LET sections == {e \in Top : ram1[p][e] = Section(f \div Entries2)}
      ends == {e \in Top : ram1[p][e].key = 1 /\ (Unseen(ram1[p][e]) \/ PhysToVirt2(ram1[p][e].base, f) # None)}
  IN CASE L1LookupVirt(lev_1_pts, p) = None -> Panic
       [] sections # {} -> (Least(sections) * Entries2) + (f % Entries2)
       [] sections = {} /\ ends = {} -> None
       [] OTHER -> IF Unseen(ram1[p][Least(ends)]) THEN Panic
                   ELSE (Least(ends) * Entries2) + PhysToVirt2(ram1[p][Least(ends)].base, f)

Next == \/ PtNew
        \/ PtL1Alloc
        \/ PtL2Alloc
        \/ \E p \in DOMAIN mapped : \/ PtL1Free(p)
                                    \/ \E v \in MapPages, f \in UserFrames : PtAddMapping(p, v, f)
        \/ \E t \in spare : PtL2Free(t)

Spec == Init /\ [][Next]_vars
-----------------------------------------------------------------------------
Entry1 == [key : 0 .. 2, base : Nat]
TypeOK ==
  /\ free \subseteq Frames
  /\ kernel_page_table \in [Top -> Entry1]
  /\ lev_1_pts \in [0 .. L1Tables - 1 -> Frames \cup {None, Rom}]
  /\ lev_2_pts \in [0 .. L2Pages - 1 -> Frames \cup {None, Rom}]
  /\ avail_l1_pts \in Seq(0 .. L1Tables - 1)
  /\ avail_l2_pts \in Seq(0 .. L2Pages * PerPage - 1)
  /\ \A f \in DOMAIN ram1 : ram1[f] \in [Top -> Entry1]
  /\ \A t \in DOMAIN ram2 : ram2[t] \in [0 .. Entries2 - 1 -> {0} \cup UserFrames]
  /\ DOMAIN mapped \subseteq Frames
  /\ spare \subseteq DOMAIN ram2
  /\ status \in {"running", "panic", "abort", "rom", "wiped"}

Entered == UNION {{ram1[p][e].base : e \in Uses(p)} : p \in DOMAIN mapped}
Listed1 == {L1LookupPhys(lev_1_pts, avail_l1_pts[k]) : k \in DOMAIN avail_l1_pts}
Listed2 == {L2LookupPhys(lev_2_pts, avail_l2_pts[k]) : k \in DOMAIN avail_l2_pts}
Window1 == {lev_1_pts[i] : i \in DOMAIN lev_1_pts} \ {None}
Window2 == UNION {f * PerPage .. f * PerPage + PerPage - 1 : f \in {lev_2_pts[i] : i \in DOMAIN lev_2_pts} \ {None}}

(* Every table has one owner.  As long as the kernel runs, each second     *)
(* level table in the window is either on the list, once, or entered in    *)
(* one entry of one process's table, or spare; each top level table is on  *)
(* its list or in use; nothing the windows map is free, and no frame is    *)
(* mapped for two tables.                                                  *)
OneOwner ==
  /\ TypeOK
  /\ status = "running" =>
      /\ IsInjective(avail_l1_pts) /\ IsInjective(avail_l2_pts)
      /\ Listed2 \cup Entered \cup spare = Window2
      /\ Listed2 \cap Entered = {} /\ Listed2 \cap spare = {} /\ Entered \cap spare = {}
      /\ \A p, q \in DOMAIN mapped : \A d \in Uses(p), e \in Uses(q) :
           ram1[p][d].base = ram1[q][e].base => p = q /\ d = e
      /\ Listed1 \cup DOMAIN mapped = Window1 /\ Listed1 \cap DOMAIN mapped = {}
      /\ LET runs == {lev_1_pts[i] .. lev_1_pts[i] + L1Frames - 1 : i \in {j \in DOMAIN lev_1_pts : lev_1_pts[j] # None}}
                       \cup {{lev_2_pts[i]} : i \in {j \in DOMAIN lev_2_pts : lev_2_pts[j] # None}}
         IN /\ \A r \in runs : r \cap free = {}
            /\ \A r, s \in runs : r # s => r \cap s = {}

(* What was asked for is what a process gets.  virt_to_phys answers, for   *)
(* every page of every process, the frame it was last mapped to, and NULL  *)
(* for the others, whatever was in the frames of its tables before and     *)
(* whatever is mapped in other processes.  The kernel's half is that of    *)
(* the kernel's table in every table that pt_new made: its sections; and   *)
(* in the windows and the heap, which page_table.h:36-38 does not except,  *)
(* no answer at all but a panic.                                           *)
Translates ==
  status = "running" =>
    \A p \in DOMAIN mapped : \A v \in Pages : VirtToPhys(p, v) = mapped[p][v]

(* phys_to_virt finds a page of the process that leads to the frame, if    *)
(* the process has one before its first page that virt_to_phys panics at.  *)
(* If it has none it answers NULL only of a table without such pages (one  *)
(* not made by pt_new), and panics otherwise.                              *)
FindsBack ==
  status = "running" =>
    \A p \in DOMAIN mapped : \A f \in UserFrames :
       LET v == PhysToVirt(p, f)
       IN CASE v = None -> \A w \in Pages : mapped[p][w] \notin {f, Panic}
            [] v = Panic -> \E u \in Pages : /\ mapped[p][u] = Panic
                                             /\ \A w \in 0 .. u - 1 : mapped[p][w] \notin {f, Panic}
            [] OTHER -> VirtToPhys(p, v) = f

(* The stacks and the interrupt vectors, which fast_virt_to_phys finds in  *)
(* the kernel's table, lie in frames that nobody else gets: they are not   *)
(* free and no table is put there.                                         *)
StacksSafe ==
  status = "running" =>
    \A k \in 0 .. Entries2 - 1 :
       LET f == FastVirtToPhys(StackEntry * Entries2 + k)
       IN /\ f \in Frames \ free
          /\ \A i \in DOMAIN lev_2_pts : lev_2_pts[i] # f
          /\ \A i \in DOMAIN lev_1_pts : lev_1_pts[i] # None => f \notin lev_1_pts[i] .. lev_1_pts[i] + L1Frames - 1

(* page_table.h:24-26 says of pt_add_mapping that it works on "the page    *)
(* table pointed to by page_table_phys" and "can be called multiple times  *)
(* to map more pages".  Then a table in use is found in its window.        *)
TablesFound == \A p \in DOMAIN mapped : L1LookupVirt(lev_1_pts, p) # None
=============================================================================
