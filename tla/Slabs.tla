-------------------------------- MODULE Slabs --------------------------------
(***************************************************************************)
(* arch/ARM/SA1110/slabs.c: virtual memory for kmalloc.  One long array of *)
(* second level page table entries maps the kernel heap; slab_create looks *)
(* for a run of unmapped entries from where the last search stopped, and   *)
(* maps each to a frame from phys_mem_get_pages(1,1), which is used here   *)
(* through its promise (PageAllocator): some free frame, or none.          *)
(* The search is modelled one turn of its loop at a time.                  *)
(***************************************************************************)
EXTENDS Integers, FiniteSets

CONSTANTS
  NumPts,    \* NUM_PTS: entries of kmalloc_page_tables
  Frames,    \* the frames of physical memory
  NoFrame,   \* an entry whose key is "fault"
  Requests   \* the numbers of pages kmalloc asks for

ASSUME SlabsAssumption == /\ NumPts \in Nat
                          /\ Requests \subseteq 1 .. NumPts - 1
                          /\ NoFrame \notin Frames

VARIABLES
  kmalloc_page_tables,
  index,        \* static index
  orig_index,   \* local orig_index
  wrapped,      \* local wrapped
  slab_pages,   \* the argument
  mapped,       \* the number of pages the call has mapped
  pc,           \* where slab_create is; "halted" after panic()
  free,         \* the frames phys_mem.c has left
  slabs         \* history: the slabs handed out and not destroyed

vars == <<kmalloc_page_tables, index, orig_index, wrapped, slab_pages, mapped, pc, free, slabs>>

Entries == 0 .. NumPts - 1
Mapped == {e \in Entries : kmalloc_page_tables[e] # NoFrame}

(* slab_init *)
Init == /\ kmalloc_page_tables = [e \in Entries |-> NoFrame]
        /\ index = 0
        /\ orig_index = 0
        /\ wrapped = FALSE
        /\ slab_pages \in Requests
        /\ mapped = 0
        /\ pc = "idle"
        /\ free = Frames
        /\ slabs = {}
-----------------------------------------------------------------------------
(* slab_create(n): orig_index is one slab before the first look, and is    *)
(* negative when index is 0.                                               *)
Create(n) ==
  /\ pc = "idle"
  /\ slab_pages' = n
  /\ orig_index' = index - n
  /\ wrapped' = FALSE
  /\ mapped' = 0
  /\ pc' = "scan"
  /\ UNCHANGED <<kmalloc_page_tables, index, free, slabs>>

(* if((index + slab_pages) >= NUM_PTS) index = 0 *)
Clipped(i) == IF i + slab_pages >= NumPts THEN 0 ELSE i

(* A mistake: only the first entry of the run is looked at. *)
Scan_firstEntry ==
  /\ pc = "scan"
  /\ LET i == Clipped(index)
     IN  \/ /\ i = orig_index
            /\ wrapped' = TRUE
            /\ index' = i
            /\ pc' = "decide"
         \/ /\ i # orig_index /\ i \notin Mapped
            /\ index' = i
            /\ pc' = "decide"
            /\ UNCHANGED wrapped
         \/ /\ i # orig_index /\ i \in Mapped
            /\ index' = Clipped(i + slab_pages)
            /\ UNCHANGED <<wrapped, pc>>
  /\ UNCHANGED <<kmalloc_page_tables, orig_index, slab_pages, mapped, free, slabs>>

(* One turn of the while loop *)
Scan ==
  /\ pc = "scan"
  /\ LET i == Clipped(index)
         run == i .. i + slab_pages - 1
     IN  \/ /\ i = orig_index
            /\ wrapped' = TRUE
            /\ index' = i
            /\ pc' = "decide"
         \/ /\ i # orig_index /\ run \cap Mapped = {}
            /\ index' = i
            /\ pc' = "decide"
            /\ UNCHANGED wrapped
         \/ /\ i # orig_index /\ run \cap Mapped # {}
            /\ index' = Clipped(i + slab_pages)
            /\ UNCHANGED <<wrapped, pc>>
  /\ UNCHANGED <<kmalloc_page_tables, orig_index, slab_pages, mapped, free, slabs>>

(* panic("Kernel ran out of heap space.") *)
PanicHeap ==
  /\ pc = "decide" /\ wrapped
  /\ pc' = "halted"
  /\ UNCHANGED <<kmalloc_page_tables, index, orig_index, wrapped, slab_pages, mapped, free, slabs>>

(* The address is computed before the entries are filled. *)
Found ==
  /\ pc = "decide" /\ ~wrapped
  /\ pc' = "map"
  /\ UNCHANGED <<kmalloc_page_tables, index, orig_index, wrapped, slab_pages, mapped, free, slabs>>

(* A mistake: the address is computed after index has moved. *)
MapPage_lateAddress ==
  /\ pc = "map"
  /\ \E f \in free :
       /\ kmalloc_page_tables' = [kmalloc_page_tables EXCEPT ![index] = f]
       /\ free' = free \ {f}
  /\ index' = index + 1
  /\ mapped' = mapped + 1
  /\ IF mapped' = slab_pages
     THEN /\ pc' = "idle"
          /\ slabs' = slabs \cup {[at |-> index', pages |-> slab_pages]}
     ELSE UNCHANGED <<pc, slabs>>
  /\ UNCHANGED <<orig_index, wrapped, slab_pages>>

(* One turn of the for loop; the last one returns the slab. *)
MapPage ==
  /\ pc = "map"
  /\ \E f \in free :
       /\ kmalloc_page_tables' = [kmalloc_page_tables EXCEPT ![index] = f]
       /\ free' = free \ {f}
  /\ index' = index + 1
  /\ mapped' = mapped + 1
  /\ IF mapped' = slab_pages
     THEN /\ pc' = "idle"
          /\ slabs' = slabs \cup {[at |-> index' - slab_pages, pages |-> slab_pages]}
     ELSE UNCHANGED <<pc, slabs>>
  /\ UNCHANGED <<orig_index, wrapped, slab_pages>>

(* panic("Unable to allocate a physical page.") *)
PanicPhys ==
  /\ pc = "map" /\ free = {}
  /\ pc' = "halted"
  /\ UNCHANGED <<kmalloc_page_tables, index, orig_index, wrapped, slab_pages, mapped, free, slabs>>

RunOf(s) == s.at .. s.at + s.pages - 1

(* A mistake: the frames are freed and stay mapped. *)
Destroy_keepsEntries(s) ==
  /\ pc = "idle"
  /\ free' = free \cup {kmalloc_page_tables[e] : e \in RunOf(s)}
  /\ slabs' = slabs \ {s}
  /\ UNCHANGED <<kmalloc_page_tables, index, orig_index, wrapped, slab_pages, mapped, pc>>

(* slab_destroy(s.at, s.pages): kmalloc gives back whole slabs. *)
Destroy(s) ==
  /\ pc = "idle"
  /\ free' = free \cup {kmalloc_page_tables[e] : e \in RunOf(s)}
  /\ kmalloc_page_tables' = [e \in Entries |-> IF e \in RunOf(s) THEN NoFrame
                                                                 ELSE kmalloc_page_tables[e]]
  /\ slabs' = slabs \ {s}
  /\ UNCHANGED <<index, orig_index, wrapped, slab_pages, mapped, pc>>

Working == Scan \/ Found \/ MapPage \/ PanicHeap \/ PanicPhys

Next == \/ \E n \in Requests : Create(n)
        \/ Working
        \/ \E s \in slabs : Destroy(s)

Spec == Init /\ [][Next]_vars
-----------------------------------------------------------------------------
TypeOK ==
  /\ kmalloc_page_tables \in [Entries -> Frames \cup {NoFrame}]
  /\ index \in 0 .. NumPts - 1
  /\ orig_index \in Int
  /\ wrapped \in BOOLEAN
  /\ slab_pages \in Requests
  /\ mapped \in Nat
  /\ pc \in {"idle", "scan", "decide", "map", "halted"}
  /\ free \subseteq Frames
  /\ slabs \subseteq [at : Entries, pages : Requests]

(* The entries filled by a call that is not done yet *)
Partial == IF pc = "map" THEN index - mapped .. index - 1 ELSE {}

(***************************************************************************)
(* The page tables and the slabs agree: exactly the pages of the slabs     *)
(* handed out (and of the one being made) are mapped, and no two overlap,  *)
(* though the search that chose them read the entries before mapping any.  *)
(***************************************************************************)
SlabsMapped ==
  pc # "halted" =>
    /\ Mapped = (UNION {RunOf(s) : s \in slabs}) \cup Partial
    /\ \A s, t \in slabs : s # t => RunOf(s) \cap RunOf(t) = {}
    /\ \A s \in slabs : RunOf(s) \cap Partial = {}

(* Each frame is free or mapped at exactly one entry: none is lost and no  *)
(* two heap pages share memory.                                            *)
FramesOnce ==
  /\ free \cup {kmalloc_page_tables[e] : e \in Mapped} = Frames
  /\ \A e \in Mapped : kmalloc_page_tables[e] \notin free
  /\ \A d, e \in Mapped : d # e => kmalloc_page_tables[d] # kmalloc_page_tables[e]

(* kmalloc_page_tables[index + i] is never read or written past its end.   *)
InHeap == /\ pc = "decide" /\ ~wrapped => index + slab_pages <= NumPts
          /\ pc = "map" => index + slab_pages - mapped <= NumPts

(***************************************************************************)
(* Why: between choosing a run and filling it nothing else maps a page, so *)
(* what is left of the run is still unmapped.                              *)
(***************************************************************************)
Left == index .. index + slab_pages - mapped - 1

SearchInv ==
  /\ pc = "scan" => ~wrapped
  /\ pc \in {"scan", "decide"} => mapped = 0
  /\ pc = "map" => mapped \in 0 .. slab_pages - 1 /\ mapped <= index
  /\ pc = "map" \/ (pc = "decide" /\ ~wrapped) =>
       Left \cap Mapped = {} /\ index + slab_pages - mapped < NumPts

(* The inductive invariant of SlabsProofs *)
IInv == /\ TypeOK
        /\ SlabsMapped
        /\ FramesOnce
        /\ SearchInv
        /\ \A s \in slabs : s.at + s.pages <= NumPts

Region == INSTANCE HeapRegion WITH
            NumPages <- NumPts, asked <- IF pc = "idle" THEN {} ELSE {slab_pages}

(* slab_create and slab_destroy keep the promise made to kmalloc. *)
KeepsPromise == Region!Spec
=============================================================================
