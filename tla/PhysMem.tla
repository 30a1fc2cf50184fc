------------------------------- MODULE PhysMem -------------------------------
(***************************************************************************)
(* mm/phys_mem.c: the allocator of physical page frames.  A bitmap over    *)
(* the whole physical address space says which frames are free, num_free   *)
(* counts them, and the static variable current remembers where the last   *)
(* search stopped.                                                         *)
(*                                                                         *)
(* The search of phys_mem_get_pages is modelled loop test by loop test, so *)
(* that whether it ends can be asked.  Frames stand for addresses          *)
(* (address >> PAGE_BITS).  The kernel runs it with interrupts off on one  *)
(* CPU: no two calls overlap.                                              *)
(***************************************************************************)
EXTENDS Integers, FiniteSets

CONSTANTS
  NumPages,  \* ARCH_NUM_PAGES: frames in the physical address space
  NoProbe,   \* noprobe_list: a set of frame intervals <<start, end>>, inclusive
  Kernel,    \* <<first, last>> frame of the kernel's image
  Ram,       \* the frames where a word written reads back
  Requests   \* the [pages, align] pairs the callers use

VARIABLES
  bitmap,    \* the frames whose bit is 1 (free)
  num_free,  \* static num_free
  current,   \* static current, in frames
  req,       \* the arguments of the call in progress
  first,     \* local first: where this search started
  found,     \* local found
  wrapped,   \* local wrapped
  pc,        \* where phys_mem_get_pages is
  held       \* history: the runs callers were given and have not freed

vars == <<bitmap, num_free, current, req, first, found, wrapped, pc, held>>
locals == <<current, req, first, found, wrapped, pc>>

Pages == 0 .. NumPages - 1

(* The frames of the run of n that starts at s. *)
Run(s, n) == s .. s + n - 1

(* uint32_t stride = (1<<(align-1)) *)
Stride(align) == 2 ^ (align - 1)

(* A mistake: the mask is not applied. *)
AlignDown_unmasked(x, stride) == x

(* x & ~(stride-1), for a stride that is a power of two *)
AlignDown(x, stride) == x - (x % stride)

(***************************************************************************)
(* phys_mem_init: every frame starts free; the no-probe regions and the    *)
(* kernel's own frames are cleared, both ends included; what is left is    *)
(* probed, and a frame that does not read back is cleared too.             *)
(***************************************************************************)
Reserved == (UNION {rng[1] .. rng[2] : rng \in NoProbe}) \cup (Kernel[1] .. Kernel[2])

Probed == {p \in Pages \ Reserved : p \in Ram}

(***************************************************************************)
(* What the callers and the memory map guarantee: a request asks for at    *)
(* least one page on an alignment whose stride fits in a word, and the top *)
(* of the address space holds no RAM (mem_list.c reserves 0xE0000000 up),  *)
(* so the longest request still fits behind the last RAM frame.            *)
(***************************************************************************)
ASSUME PhysMemAssumption ==
  /\ NumPages \in Nat
  /\ \A r \in Requests : /\ r = [pages |-> r.pages, align |-> r.align]
                         /\ r.pages \in Nat \ {0}
                         /\ Stride(r.align) \in Nat \ {0}
                         /\ r.pages <= NumPages
                         /\ \A p \in Probed : p + r.pages <= NumPages

Init == /\ bitmap = Probed
        /\ num_free = Cardinality(Probed)
        /\ current = 0
        /\ req \in Requests
        /\ first = 0
        /\ found = FALSE
        /\ wrapped = FALSE
        /\ pc = "idle"
        /\ held = {}
-----------------------------------------------------------------------------
(* A mistake: first is taken before current is rounded. *)
GetPages_firstEarly(r) ==
  /\ pc = "idle"
  /\ req' = r
  /\ current' = AlignDown(current, Stride(r.align))
  /\ first' = current
  /\ wrapped' = FALSE
  /\ found' = FALSE
  /\ pc' = "outer"
  /\ UNCHANGED <<bitmap, num_free, held>>

(* A mistake: the search is taken to start at 0. *)
GetPages_firstZero(r) ==
  /\ pc = "idle"
  /\ req' = r
  /\ current' = AlignDown(current, Stride(r.align))
  /\ first' = 0
  /\ wrapped' = FALSE
  /\ found' = FALSE
  /\ pc' = "outer"
  /\ UNCHANGED <<bitmap, num_free, held>>

(* The call: current is rounded down and remembered. *)
GetPages(r) ==
  /\ pc = "idle"
  /\ req' = r
  /\ current' = AlignDown(current, Stride(r.align))
  /\ first' = current'
  /\ wrapped' = FALSE
  /\ found' = FALSE
  /\ pc' = "outer"
  /\ UNCHANGED <<bitmap, num_free, held>>

(* Top of the do-while: look at the bit under current. *)
FindAligned ==
  /\ pc = "outer"
  /\ found' = (current \in bitmap)
  /\ pc' = "inner"
  /\ UNCHANGED <<bitmap, num_free, current, req, first, wrapped, held>>

(* A mistake: the length of the request is forgotten in the bounds test. *)
Advanced_oneFrame == LET c == current + Stride(req.align)
                     IN  IF c + 1 > NumPages THEN 0 ELSE c

(* Where the inner loop steps to: one stride on, or 0 past the end. *)
Advanced == LET c == current + Stride(req.align)
            IN  IF c + req.pages > NumPages THEN 0 ELSE c

(* Body of the inner while: back at first means nothing was found. *)
NextAligned ==
  /\ pc = "inner" /\ ~wrapped /\ ~found
  /\ current' = Advanced
  /\ wrapped' = (Advanced = first)
  /\ found' = (Advanced # first /\ Advanced \in bitmap)
  /\ UNCHANGED <<bitmap, num_free, req, first, pc, held>>

(* The for loop over the rest of the run, and the test of the do-while. *)
CheckRun ==
  /\ pc = "inner" /\ (wrapped \/ found)
  /\ found' = (found /\ Run(current + 1, req.pages - 1) \subseteq bitmap)
  /\ pc' = IF wrapped \/ found' THEN "decide" ELSE "outer"
  /\ UNCHANGED <<bitmap, num_free, current, req, first, wrapped, held>>

(* return PHYS_MEM_NONE *)
Refuse ==
  /\ pc = "decide" /\ wrapped
  /\ pc' = "idle"
  /\ UNCHANGED <<bitmap, num_free, current, req, first, found, wrapped, held>>

(* A mistake: the loop that clears the bits stops one short. *)
Grant_lastBitKept ==
  /\ pc = "decide" /\ ~wrapped
  /\ num_free' = num_free - req.pages
  /\ bitmap' = bitmap \ Run(current, req.pages - 1)
  /\ held' = held \cup {[start |-> current, pages |-> req.pages, align |-> req.align]}
  /\ pc' = "idle"
  /\ UNCHANGED <<current, req, first, found, wrapped>>

(* Count the pages out, clear their bits, return current<<PAGE_BITS. *)
Grant ==
  /\ pc = "decide" /\ ~wrapped
  /\ num_free' = num_free - req.pages
  /\ bitmap' = bitmap \ Run(current, req.pages)
  /\ held' = held \cup {[start |-> current, pages |-> req.pages, align |-> req.align]}
  /\ pc' = "idle"
  /\ UNCHANGED <<current, req, first, found, wrapped>>

(* phys_mem_free_page(h.start << PAGE_BITS, h.pages): callers free whole runs. *)
FreePage(h) ==
  /\ pc = "idle"
  /\ bitmap' = bitmap \cup Run(h.start, h.pages)
  /\ num_free' = num_free + h.pages
  /\ held' = held \ {h}
  /\ UNCHANGED locals

Search == FindAligned \/ NextAligned \/ CheckRun \/ Refuse \/ Grant

Next == \/ \E r \in Requests : GetPages(r)
        \/ Search
        \/ \E h \in held : FreePage(h)

Spec == Init /\ [][Next]_vars

(* A call in progress keeps executing: nothing preempts it. *)
FairSpec == Spec /\ WF_vars(Search)
-----------------------------------------------------------------------------
Grants == {[start |-> s, pages |-> r.pages, align |-> r.align] : s \in Pages, r \in Requests}

TypeOK ==
  /\ bitmap \subseteq Pages
  /\ num_free \in Nat
  /\ current \in Nat
  /\ req \in Requests
  /\ first \in Nat
  /\ found \in BOOLEAN
  /\ wrapped \in BOOLEAN
  /\ pc \in {"idle", "outer", "inner", "decide"}
  /\ held \subseteq Grants

FramesOf(h) == Run(h.start, h.pages)

(***************************************************************************)
(* No frame is ever lost, made up or owned twice: the free frames and the  *)
(* granted runs are pairwise disjoint and together are exactly the RAM     *)
(* that phys_mem_init found outside the kernel and the no-probe regions.   *)
(* It is what the bit clearing of get_pages, the bit setting of free_page  *)
(* and the three passes of phys_mem_init must get right together.          *)
(***************************************************************************)
FramesConserved ==
  /\ \A h \in held : FramesOf(h) \cap bitmap = {}
  /\ \A g, h \in held : g # h => FramesOf(g) \cap FramesOf(h) = {}
  /\ bitmap \cup (UNION {FramesOf(h) : h \in held}) = Probed

(* phys_mem_count_free is exact: num_free, kept by addition and            *)
(* subtraction, always equals the number of bits set.                      *)
CountExact == num_free = Cardinality(bitmap)

(* A run that was granted starts on the boundary its request asked for,    *)
(* though current moves with the strides of earlier requests.              *)
GrantsAligned == \A h \in held : h.start % Stride(h.align) = 0

(* The search never reads a bit past the end of the bitmap, although it    *)
(* tests the bounds only when it advances, never where it starts: the      *)
(* position left by an earlier, shorter request must leave room.           *)
SearchInBounds == pc # "idle" => current + req.pages <= NumPages

(***************************************************************************)
(* PHYS_MEM_NONE is only ever returned for the right reason: when the      *)
(* search gives up there is no free run of that length on that alignment   *)
(* anywhere, including behind the starting point.                          *)
(***************************************************************************)
RefusalJustified ==
  pc = "decide" /\ wrapped =>
    \A s \in Pages : s % Stride(req.align) = 0 => ~(Run(s, req.pages) \subseteq bitmap)

(***************************************************************************)
(* Every call of phys_mem_get_pages returns, with an address or with       *)
(* PHYS_MEM_NONE.  The code does not keep this: the outer loop looks again *)
(* at a frame that is free but whose run is not.                           *)
(***************************************************************************)
Answered == pc # "idle" ~> pc = "idle"

(* Some free frame on the alignment asked for does not begin a free run.   *)
Fragmented == \E s \in bitmap : /\ s % Stride(req.align) = 0
                               /\ ~(Run(s, req.pages) \subseteq bitmap)

(* What the code does keep: a call made while every free aligned frame     *)
(* begins a long enough run returns, with a grant or a refusal.  A request *)
(* for one frame, all that slabs.c ever makes, is always such a call.      *)
AnsweredUnlessFragmented == pc # "idle" /\ ~Fragmented ~> pc = "idle"

(***************************************************************************)
(* Why a refusal is justified, step by step: the aligned frames the search *)
(* has passed since first are not free.  Below first the search has gone   *)
(* round, and has passed the frames from first up as well.                 *)
(***************************************************************************)
Passed(s) == IF current < first THEN first <= s \/ s < current
                                ELSE first <= s /\ s < current

Aligned(s) == s % Stride(req.align) = 0

HasRoom(s) == s + req.pages <= NumPages

SearchInv ==
  /\ Aligned(current) /\ Aligned(first) /\ HasRoom(current)
  /\ \A r \in Requests : first + r.pages <= NumPages
  /\ pc = "outer" => ~wrapped
  /\ pc = "inner" /\ ~wrapped => (found <=> current \in bitmap)
  /\ pc = "decide" /\ ~wrapped => Run(current, req.pages) \subseteq bitmap
  /\ wrapped => current = first /\ ~found /\ \A s \in bitmap : Aligned(s) => ~HasRoom(s)
  /\ ~wrapped => \A s \in bitmap : Aligned(s) /\ HasRoom(s) => ~Passed(s)

(* The inductive invariant of PhysMemProofs. *)
IInv == /\ TypeOK
        /\ FramesConserved
        /\ CountExact
        /\ GrantsAligned
        /\ IF pc = "idle" THEN \A r \in Requests : current + r.pages <= NumPages
                          ELSE SearchInv

(* The allocator implements its promise. *)
Promise == INSTANCE PageAllocator WITH
             Frames <- Probed, free <- bitmap,
             pending <- IF pc = "idle" THEN {} ELSE {req}

(* Every step of phys_mem.c is a step the promise allows: runs granted are *)
(* free and aligned, refusals are justified, frees return the whole run.   *)
KeepsPromise == Promise!Spec
=============================================================================
