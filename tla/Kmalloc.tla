------------------------------- MODULE Kmalloc -------------------------------
(***************************************************************************)
(* mm/kmalloc.c: kmalloc and kfree.  Objects of a power-of-two size come   *)
(* from slabs of SlabPages pages; a row lists the slabs of one size.  The  *)
(* allocator keeps its own records (slab headers, row headers, the records *)
(* of blocks too large for a slab) in the objects it allocates: kmalloc    *)
(* calls itself, one level deep, in the middle of making a slab.           *)
(*                                                                         *)
(* A call is one step, as the kernel runs it; what it does to the heap is  *)
(* computed by operators that take a heap and return the set of outcomes:  *)
(* [heap, item] pairs, several because slab_create may place a slab in any *)
(* unmapped run (Slabs models how it looks for one).  An address is an     *)
(* offset in the kernel heap, in some unit that stands for the byte.       *)
(***************************************************************************)
EXTENDS Integers, Sequences, FiniteSets, SequencesExt

CONSTANTS
  PageBytes,    \* PAGESIZE
  SlabPages,    \* SLAB_PAGES
  HeapPages,    \* pages of virtual memory slab_create can hand out
  Sizes,        \* item sizes of the rows: powers of two up to a slab's size
  HeaderSize,   \* the item size sizeof(slab_header) is rounded to
  RecordSize,   \* the item size of a special_slab
  Requests,     \* the sizes callers ask for
  MaxObjects    \* bound: objects that callers hold at one time

VARIABLES
  heap,         \* the allocator's memory: [slab, row, special, mapped]
  objs,         \* history: the objects callers hold, [at, size]
  fault         \* TRUE after panic()

vars == <<heap, objs, fault>>

Nil == -1
SlabBytes == PageBytes * SlabPages

(* In the code 12 rows, of 4 bytes to a slab's 8192; a slab of headers has *)
(* 256 items.                                                              *)
ASSUME KmallocAssumption ==
  /\ {PageBytes, SlabPages, HeapPages} \subseteq Nat \ {0} /\ SlabPages <= HeapPages
  /\ Sizes \subseteq Nat \ {0} /\ IsFiniteSet(Sizes) /\ \A s \in Sizes : SlabBytes % s = 0
  /\ SlabBytes \in Sizes /\ {HeaderSize, RecordSize} \subseteq Sizes \ {SlabBytes}
  /\ Cardinality(Sizes) + 2 <= SlabBytes \div HeaderSize
  /\ Requests \subseteq Nat

(* The items of a slab, as slab_make_linked_list strings them, and the     *)
(* count it returns: of the links, one less than the items.                *)
Items(at, size) == [k \in 1 .. SlabBytes \div size |-> at + (k - 1) * size]
slab_make_linked_list(size) == SlabBytes \div size - 1

PagesOf(at, pages) == (at \div PageBytes) .. (at \div PageBytes) + pages - 1

-----------------------------------------------------------------------------
(* slab_create(pages): the addresses it may return, and its effect; if     *)
(* there is none it panics, as it does when physical memory runs out.      *)
Places(h, pages) == {p * PageBytes : p \in {q \in 0 .. HeapPages - pages :
                                              q .. q + pages - 1 \cap h.mapped = {}}}
slab_create(h, at, pages) == [h EXCEPT !.mapped = @ \cup PagesOf(at, pages)]
slab_destroy(h, at, pages) == [h EXCEPT !.mapped = @ \ PagesOf(at, pages)]

(* A mistake: the count is not tested. *)
slab_alloc_item_unchecked(h, at) ==
  [heap |-> [h EXCEPT !.slab[at].free = @ - 1, !.slab[at].avail = Tail(@)],
   item |-> Head(h.slab[at].avail)]

(* slab_alloc_item: the head of the list, or NULL when the count is 0. *)
slab_alloc_item(h, at) ==
  IF h.slab[at].free = 0 THEN [heap |-> h, item |-> Nil]
  ELSE [heap |-> [h EXCEPT !.slab[at].free = @ - 1, !.slab[at].avail = Tail(@)],
        item |-> Head(h.slab[at].avail)]

(* slab_free_item, for the slab the item belongs to *)
slab_free_item(h, at, item) ==
  [h EXCEPT !.slab[at].free = @ + 1, !.slab[at].avail = <<item>> \o @]

(* The slab, if any, that accepts an item: kfree's search of the rows. *)
SlabsAround(h, p) == {at \in DOMAIN h.slab : at <= p /\ p < at + SlabBytes}

(* The tail of kmalloc_slab_new: fill in the header. *)
WithSlab(h, size, at, header, avail, used) ==
  [h EXCEPT !.slab = [a \in DOMAIN @ \cup {at} |->
                        IF a = at THEN [size |-> size, header |-> header, avail |-> avail,
                                        total |-> slab_make_linked_list(size),
                                        free |-> slab_make_linked_list(size) - used]
                                  ELSE @[a]]]

(* A mistake: the item that is the header stays on the list. *)
NewHeaderSlab_listed(h, at) ==
  LET list == Items(at, HeaderSize)
  IN  WithSlab(slab_create(h, at, SlabPages), HeaderSize, at, Head(list), list, 1)

(* kmalloc_slab_new for the row that headers fit: the header is the slab's *)
(* own first item.                                                         *)
NewHeaderSlab(h, at) ==
  LET list == Items(at, HeaderSize)
  IN  WithSlab(slab_create(h, at, SlabPages), HeaderSize, at, Head(list), Tail(list), 1)

(* h->next_head = curr->first_slab; curr->first_slab = h *)
Linked(h, size, at) == [h EXCEPT !.row[size] = <<at>> \o @]

(* The places in the row of slabs that have items left; kmalloc stops at   *)
(* the first.                                                              *)
WithItems(h, size) == {i \in DOMAIN h.row[size] : h.slab[h.row[size][i]].free # 0}
FirstWithItems(h, size) == h.row[size][Min(WithItems(h, size))]

AllocHeader(h) ==
  IF WithItems(h, HeaderSize) # {}
  THEN {slab_alloc_item(h, FirstWithItems(h, HeaderSize))}
  ELSE {slab_alloc_item(Linked(NewHeaderSlab(h, at), HeaderSize, at), at) :
          at \in Places(h, SlabPages)}

(* kmalloc_slab_new for any other row: the slab first, then a header *)
NewSlabs(h, size) ==
  UNION {{[heap |-> WithSlab(o.heap, size, at, o.item, Items(at, size), 0), at |-> at] :
            o \in AllocHeader(slab_create(h, at, SlabPages))} : at \in Places(h, SlabPages)}

(* kmalloc of an object that has a row *)
AllocItem(h, size) ==
  IF size = HeaderSize THEN AllocHeader(h)
  ELSE IF WithItems(h, size) # {} THEN {slab_alloc_item(h, FirstWithItems(h, size))}
  ELSE {slab_alloc_item(Linked(n.heap, size, n.at), n.at) : n \in NewSlabs(h, size)}

(* kmalloc of a larger block: the pages, then a record of them *)
PagesNeeded(size) == (size + PageBytes - 1) \div PageBytes

AllocSpecial(h, size) ==
  LET n == PagesNeeded(size)
  IN  UNION {{[heap |-> [o.heap EXCEPT !.special = <<[data |-> at, pages |-> n, rec |-> o.item]>> \o @],
               item |-> at] : o \in AllocItem(slab_create(h, at, n), RecordSize)} :
               at \in Places(h, n)}

(* The first row whose items are large enough *)
RowOf(size) == Min({s \in Sizes : s >= size})

Alloc(h, size) == IF size > SlabBytes THEN AllocSpecial(h, size) ELSE AllocItem(h, RowOf(size))

(* An outcome is reached only by a slab_create, which may panic instead. *)
NeedsPages(h, size) == IF size > SlabBytes THEN TRUE ELSE WithItems(h, RowOf(size)) = {}
-----------------------------------------------------------------------------
(* kmalloc_init: the first header slab, with the row headers in it. *)
Init ==
  LET n == Cardinality(Sizes)
      none == [slab |-> [a \in {} |-> Nil], row |-> [s \in Sizes |-> <<>>],
               special |-> <<>>, mapped |-> {}]
      first == Linked(NewHeaderSlab(none, 0), HeaderSize, 0)
  IN  /\ heap = [first EXCEPT !.slab[0].free = @ - n,
                              !.slab[0].avail = SubSeq(@, n + 1, Len(@))]
      /\ objs = {}
      /\ fault = FALSE

RowHeaders == {HeaderSize * k : k \in 1 .. Cardinality(Sizes)}

kmalloc(size) ==
  /\ ~fault /\ Cardinality(objs) < MaxObjects
  /\ \E o \in Alloc(heap, size) :
       /\ heap' = o.heap
       /\ objs' = IF o.item = Nil THEN objs ELSE objs \cup {[at |-> o.item, size |-> size]}
  /\ UNCHANGED fault

(* "Kernel ran out of heap space.", "Unable to allocate a physical page." *)
OutOfMemory(size) ==
  /\ ~fault /\ NeedsPages(heap, size)
  /\ fault' = TRUE
  /\ UNCHANGED <<heap, objs>>

(* A mistake: the record of the block is not freed. *)
special_delete_keepsRecord(h, i) ==
  [slab_destroy(h, h.special[i].data, h.special[i].pages) EXCEPT !.special = RemoveAt(@, i)]

(* special_delete: the block and its record *)
special_delete(h, i) ==
  LET s == h.special[i]
      gone == [slab_destroy(h, s.data, s.pages) EXCEPT !.special = RemoveAt(@, i)]
  IN  slab_free_item(gone, CHOOSE at \in SlabsAround(gone, s.rec) : TRUE, s.rec)

(* kfree(p): into the slab around p; else it is a special block; else panic *)
kfree(obj) ==
  /\ ~fault
  /\ objs' = objs \ {obj}
  /\ LET around == SlabsAround(heap, obj.at)
         special == {i \in DOMAIN heap.special : heap.special[i].data = obj.at}
     IN  \/ /\ around # {}
            /\ heap' = slab_free_item(heap, CHOOSE at \in around : TRUE, obj.at)
            /\ UNCHANGED fault
         \/ /\ around = {} /\ special # {}
            /\ heap' = special_delete(heap, CHOOSE i \in special : \A j \in special : i <= j)
            /\ UNCHANGED fault
         \/ /\ around = {} /\ special = {}
            /\ fault' = TRUE
            /\ UNCHANGED heap

(* kmalloc_slab_delete: unmap the slab, which has been taken out of its    *)
(* row, and kfree its header                                               *)
kmalloc_slab_delete(h, at) ==
  LET s == h.slab[at]
      place == CHOOSE i \in DOMAIN h.row[s.size] : h.row[s.size][i] = at
      gone == [slab_destroy(h, at, SlabPages) EXCEPT
                 !.slab = [a \in DOMAIN @ \ {at} |-> @[a]],
                 !.row[s.size] = RemoveAt(@, place)]
  IN  slab_free_item(gone, CHOOSE a \in SlabsAround(gone, s.header) : TRUE, s.header)

(* Mistakes: a slab with one item in use passes for full; the first slab *)
(* of each row is not looked at.                                         *)
Full_oneInUse(h, size) ==
  {i \in DOMAIN h.row[size] : h.slab[h.row[size][i]].free + 1 >= h.slab[h.row[size][i]].total}

Full_notFirst(h, size) ==
  {i \in DOMAIN h.row[size] : i > 1 /\ h.slab[h.row[size][i]].free = h.slab[h.row[size][i]].total}

(* The places in the row of slabs whose count is that of all their items *)
Full(h, size) ==
  {i \in DOMAIN h.row[size] : h.slab[h.row[size][i]].free = h.slab[h.row[size][i]].total}

(* The next slab that kmalloc_free_some_pages deletes: row after row, from *)
(* the head.  Deleting one makes no other full, so the walk never has to   *)
(* go back.                                                                *)
FirstFull(h) == LET size == Min({s \in Sizes : Full(h, s) # {}})
                IN  h.row[size][Min(Full(h, size))]

Deleted(h) == IF \A s \in Sizes : Full(h, s) = {} THEN h ELSE kmalloc_slab_delete(h, FirstFull(h))

(* As many deletions as there are to do *)
Trimmed(h) == LET n == Cardinality(DOMAIN h.slab)
                  turn[k \in 0 .. n] == IF k = 0 THEN h ELSE Deleted(turn[k - 1])
              IN  turn[n]

kmalloc_free_some_pages ==
  /\ ~fault
  /\ heap' = Trimmed(heap)
  /\ UNCHANGED <<objs, fault>>

Next == \/ \E size \in Requests : kmalloc(size) \/ OutOfMemory(size)
        \/ \E obj \in objs : kfree(obj)
        \/ kmalloc_free_some_pages

Spec == Init /\ [][Next]_vars
-----------------------------------------------------------------------------
Addresses == 0 .. HeapPages * PageBytes - 1

TypeOK ==
  /\ DOMAIN heap.slab \subseteq Addresses
  /\ \A at \in DOMAIN heap.slab :
       LET s == heap.slab[at]
       IN  /\ s.size \in Sizes /\ s.header \in Addresses
           /\ s.total \in Nat /\ s.avail \in Seq(Addresses)
           /\ s.free \in 0 .. s.total /\ s.free <= Len(s.avail)
  /\ \A size \in Sizes : heap.row[size] \in Seq(DOMAIN heap.slab)
  /\ heap.special \in Seq([data : Addresses, pages : Nat, rec : Addresses])
  /\ heap.mapped \subseteq 0 .. HeapPages - 1
  /\ objs \subseteq [at : Addresses, size : Requests]
  /\ fault \in BOOLEAN

(* The pieces of the heap in use, each with the number of bytes it needs. *)
Used ==
  {[at |-> o.at, size |-> o.size, use |-> "object"] : o \in objs}
    \cup {[at |-> heap.slab[a].header, size |-> HeaderSize, use |-> "header"] : a \in DOMAIN heap.slab}
    \cup {[at |-> r, size |-> HeaderSize, use |-> "row"] : r \in RowHeaders}
    \cup {[at |-> heap.special[i].rec, size |-> RecordSize, use |-> "record"] : i \in DOMAIN heap.special}

FreeItems == UNION {{[at |-> heap.slab[a].avail[i], size |-> heap.slab[a].size, use |-> "free"] :
                       i \in DOMAIN heap.slab[a].avail} : a \in DOMAIN heap.slab}

Bytes(u) == u.at .. u.at + u.size - 1

(***************************************************************************)
(* Memory in use overlaps nothing else in use and nothing that a free list *)
(* would hand out, wherever it came from: callers' objects, slab headers   *)
(* (in their own slab or another's), row headers, records of large blocks. *)
(***************************************************************************)
NoOverlap == \A u, v \in Used \cup FreeItems : u # v => Bytes(u) \cap Bytes(v) = {}

(* Whatever is in use, and every free item, lies in pages that are mapped: *)
(* no slab is unmapped while something in it is still reachable.           *)
AllMapped == \A u \in Used \cup FreeItems :
               {b \div PageBytes : b \in Bytes(u)} \subseteq heap.mapped

(* No memory is lost: every mapped page belongs to a slab that is in its   *)
(* row, or to a special block, and every item of a slab is in use or free. *)
NoLeak ==
  /\ \A a \in DOMAIN heap.slab : \E i \in DOMAIN heap.row[heap.slab[a].size] :
       heap.row[heap.slab[a].size][i] = a
  /\ heap.mapped = (UNION {PagesOf(a, SlabPages) : a \in DOMAIN heap.slab})
                     \cup (UNION {PagesOf(heap.special[i].data, heap.special[i].pages) :
                                    i \in DOMAIN heap.special})
  /\ \A a \in DOMAIN heap.slab : \A item \in ToSet(Items(a, heap.slab[a].size)) :
       \E u \in Used \cup FreeItems : u.at = item

(* Something in each slab is in use, but for the slabs of the header row, *)
(* which hold their own header.                                            *)
SlabsInUse == \A a \in DOMAIN heap.slab :
                heap.slab[a].size # HeaderSize => \E u \in Used : u.at \in a .. a + SlabBytes - 1

(* kmalloc_free_some_pages leaves no slab behind with nothing in use. *)
TrimReleases == [][kmalloc_free_some_pages => SlabsInUse']_vars

(* Every row serves its size: an object that fits in a slab can be had.    *)
(* The code does not keep this for the row whose items are a whole slab.   *)
RowsServe == \A size \in Sizes : \A o \in AllocItem(heap, size) : o.item # Nil
=============================================================================
