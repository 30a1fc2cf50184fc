----------------------------- MODULE SlabsProofs -----------------------------
(***************************************************************************)
(* Proofs about Slabs, for a heap of any size, any number of frames and    *)
(* any sizes of slabs: page tables and slabs agree, no frame is lost or    *)
(* mapped twice, and slab_create keeps the promise of HeapRegion.          *)
(***************************************************************************)
EXTENDS Slabs, TLAPS

USE SlabsAssumption
-----------------------------------------------------------------------------
LEMMA InitInv == Init => IInv
<1> SUFFICES ASSUME Init PROVE IInv
  OBVIOUS
<1>1. slab_pages \in 1 .. NumPts - 1 /\ NumPts \in Nat /\ NumPts > 0
  BY DEF Init
<1>2. TypeOK
  <2>1. kmalloc_page_tables \in [Entries -> Frames \cup {NoFrame}]
    BY DEF Init
  <2>2. index \in 0 .. NumPts - 1
    BY <1>1 DEF Init
  <2>3. /\ orig_index \in Int /\ slab_pages \in Requests /\ mapped \in Nat
        /\ pc \in {"idle", "scan", "decide", "map", "halted"}
    BY DEF Init
  <2>5. wrapped \in BOOLEAN
    BY DEF Init
  <2>4. free \subseteq Frames /\ slabs \subseteq [at : Entries, pages : Requests]
    BY DEF Init
  <2>. QED
    BY <2>1, <2>2, <2>3, <2>4, <2>5 DEF TypeOK
<1>3. Mapped = {}
  BY DEF Init, Mapped
<1>4. SlabsMapped /\ FramesOnce
  BY <1>3 DEF Init, SlabsMapped, FramesOnce, Partial
<1>. QED
  BY <1>2, <1>4 DEF Init, IInv, SearchInv

(* What every step of a call starts from. *)
LEMMA Ranges ==
  ASSUME TypeOK
  PROVE  /\ index \in Int /\ slab_pages \in Int /\ mapped \in Int /\ NumPts \in Nat
         /\ 0 <= index /\ index <= NumPts - 1 /\ 1 <= slab_pages /\ slab_pages <= NumPts - 1
         /\ \A s \in slabs : s.at \in Nat /\ s.pages \in Nat /\ 1 <= s.pages
<1>1. \A n \in Requests : n \in Nat /\ 1 <= n /\ n <= NumPts - 1
  OBVIOUS
<1>2. \A s \in slabs : s.at \in Entries /\ s.pages \in Requests
  BY DEF TypeOK
<1>3. slab_pages \in Requests /\ index \in 0 .. NumPts - 1 /\ mapped \in Nat
  BY DEF TypeOK
<1>4. \A s \in slabs : s.at \in Nat /\ s.pages \in Nat /\ 1 <= s.pages
  <2> SUFFICES ASSUME NEW s \in slabs PROVE s.at \in Nat /\ s.pages \in Nat /\ 1 <= s.pages
    OBVIOUS
  <2>1. s.at \in 0 .. NumPts - 1
    BY <1>2 DEF Entries
  <2>2. s.pages \in Requests
    BY <1>2
  <2>3. s.pages \in Nat /\ 1 <= s.pages
    BY <1>1, <2>2, Zenon
  <2>4. s.at \in Nat
    BY <2>1
  <2>. QED
    BY <2>3, <2>4
<1>5. slab_pages \in Nat /\ 1 <= slab_pages /\ slab_pages <= NumPts - 1
  BY <1>1, <1>3
<1>. QED
  BY <1>3, <1>4, <1>5

(* The three invariants that speak of the page tables, slabs and frames    *)
(* survive a step that touches none of them.                               *)
LEMMA TablesUnchanged ==
  ASSUME IInv, UNCHANGED <<kmalloc_page_tables, free, slabs>>,
         pc' = "halted" \/ Partial' = Partial, pc # "halted" \/ pc' = "halted"
  PROVE  /\ SlabsMapped' /\ FramesOnce' /\ Mapped' = Mapped
         /\ \A s \in slabs' : s.at + s.pages <= NumPts
<1>1. Mapped' = Mapped
  BY DEF Mapped
<1>. QED
  BY <1>1 DEF IInv, SlabsMapped, FramesOnce, RunOf

LEMMA CreateInv == ASSUME IInv, NEW n \in Requests, Create(n) PROVE IInv'
<1>1. TypeOK'
  <2>1. n \in Int /\ TypeOK
    BY DEF IInv
  <2>2. orig_index' \in Int
    BY <2>1, Ranges DEF Create
  <2>. QED
    BY <2>1, <2>2 DEF TypeOK, Create
<1>2. Partial' = Partial
  BY DEF Create, Partial
<1>3. /\ SlabsMapped' /\ FramesOnce' /\ \A s \in slabs' : s.at + s.pages <= NumPts
  BY <1>2, TablesUnchanged DEF Create
<1>4. SearchInv'
  BY DEF Create, SearchInv
<1>. QED
  BY <1>1, <1>3, <1>4 DEF IInv

LEMMA ScanInv == ASSUME IInv, Scan PROVE IInv'
<1> DEFINE i == Clipped(index)
<1>1. TypeOK /\ pc = "scan" /\ wrapped = FALSE /\ mapped = 0
  BY DEF IInv, Scan, SearchInv, TypeOK
<1>2. /\ i \in 0 .. NumPts - 1 /\ i + slab_pages < NumPts
      /\ Clipped(i + slab_pages) \in 0 .. NumPts - 1
  <2>1. \A j \in Nat : Clipped(j) \in 0 .. NumPts - 1 /\ Clipped(j) + slab_pages < NumPts
    BY <1>1, Ranges DEF Clipped
  <2>2. index \in Nat /\ slab_pages \in Nat
    BY <1>1, Ranges
  <2>3. i \in 0 .. NumPts - 1 /\ i + slab_pages < NumPts
    BY <2>1, <2>2
  <2>4. i + slab_pages \in Nat
    BY <2>2, <2>3
  <2> HIDE DEF i
  <2>. QED
    BY <2>1, <2>3, <2>4
<1>3. UNCHANGED <<kmalloc_page_tables, orig_index, slab_pages, mapped, free, slabs>>
  BY DEF Scan
<1> HIDE DEF i
<1>4. /\ wrapped' \in BOOLEAN /\ index' \in 0 .. NumPts - 1 /\ pc' \in {"scan", "decide"}
      /\ pc' = "scan" => ~wrapped'
      /\ pc' = "decide" /\ ~wrapped' =>
           index' = i /\ (i .. i + slab_pages - 1) \cap Mapped = {}
  <2>1. CASE i = orig_index /\ wrapped' = TRUE /\ index' = i /\ pc' = "decide"
    BY <1>1, <1>2, <2>1
  <2>2. CASE /\ (i .. i + slab_pages - 1) \cap Mapped = {}
             /\ index' = i /\ pc' = "decide" /\ wrapped' = wrapped
    <3>1. wrapped' = FALSE
      BY <1>1, <2>2
    <3>. QED
      BY <1>2, <2>2, <3>1
  <2>3. CASE index' = Clipped(i + slab_pages) /\ wrapped' = wrapped /\ pc' = pc
    <3>1. wrapped' = FALSE
      BY <1>1, <2>3
    <3>. QED
      BY <1>1, <1>2, <2>3, <3>1
  <2>. QED
    BY <2>1, <2>2, <2>3 DEF Scan, i
<1>5. TypeOK'
  BY <1>1, <1>3, <1>4 DEF TypeOK
<1>6. Partial' = Partial
  BY <1>1, <1>4 DEF Partial
<1>7. /\ SlabsMapped' /\ FramesOnce' /\ Mapped' = Mapped
      /\ \A s \in slabs' : s.at + s.pages <= NumPts
  BY <1>1, <1>3, <1>6, TablesUnchanged
<1>8. SearchInv'
  <2>1. pc' # "map" /\ mapped' = 0 /\ slab_pages' = slab_pages
    BY <1>1, <1>3, <1>4
  <2>2. pc' = "decide" /\ ~wrapped' =>
          Left' \cap Mapped' = {} /\ index' + slab_pages' - mapped' < NumPts
    <3> SUFFICES ASSUME pc' = "decide", ~wrapped'
                 PROVE  Left' \cap Mapped' = {} /\ index' + slab_pages' - mapped' < NumPts
      OBVIOUS
    <3>1. index' = i /\ (i .. i + slab_pages - 1) \cap Mapped = {}
      BY <1>4
    <3>2. Left' = i .. i + slab_pages - 1
      BY <1>1, <1>2, <2>1, <3>1, Ranges DEF Left
    <3>. QED
      BY <1>1, <1>2, <1>7, <2>1, <3>1, <3>2, Ranges
  <2>. QED
    BY <1>4, <2>1, <2>2 DEF SearchInv
<1>. QED
  BY <1>5, <1>7, <1>8 DEF IInv

LEMMA FoundInv == ASSUME IInv, Found PROVE IInv'
<1>1. /\ TypeOK /\ pc = "decide" /\ pc' = "map" /\ ~wrapped /\ mapped = 0
      /\ UNCHANGED <<kmalloc_page_tables, index, orig_index, wrapped, slab_pages, mapped, free, slabs>>
  BY DEF IInv, Found, SearchInv
<1>2. TypeOK'
  BY <1>1 DEF TypeOK
<1>3. Partial' = Partial
  BY <1>1, Ranges DEF Partial
<1>4. /\ SlabsMapped' /\ FramesOnce' /\ Mapped' = Mapped
      /\ \A s \in slabs' : s.at + s.pages <= NumPts
  BY <1>1, <1>3, TablesUnchanged
<1>5. SearchInv'
  BY <1>1, <1>4, Ranges DEF IInv, SearchInv, Left
<1>. QED
  BY <1>2, <1>4, <1>5 DEF IInv

LEMMA PanicInv == ASSUME IInv, PanicHeap \/ PanicPhys PROVE IInv'
<1>1. /\ TypeOK /\ pc' = "halted"
      /\ UNCHANGED <<kmalloc_page_tables, index, orig_index, wrapped, slab_pages, mapped, free, slabs>>
  BY DEF IInv, PanicHeap, PanicPhys
<1>2. TypeOK'
  BY <1>1 DEF TypeOK
<1>3. /\ SlabsMapped' /\ FramesOnce' /\ \A s \in slabs' : s.at + s.pages <= NumPts
  BY <1>1, TablesUnchanged
<1>. QED
  BY <1>1, <1>2, <1>3 DEF IInv, SearchInv

(* Mapping a frame: what changes in the tables, whatever becomes of pc. *)
LEMMA MapPageTables ==
  ASSUME IInv, MapPage
  PROVE  /\ index \notin Mapped /\ Mapped' = Mapped \cup {index} /\ FramesOnce'
         /\ kmalloc_page_tables' \in [Entries -> Frames \cup {NoFrame}] /\ free' \subseteq Frames
<1>1. PICK f \in free : /\ kmalloc_page_tables' = [kmalloc_page_tables EXCEPT ![index] = f]
                        /\ free' = free \ {f}
  BY DEF MapPage
<1>2. /\ TypeOK /\ FramesOnce /\ index \in Entries /\ f \in Frames /\ f # NoFrame
  BY <1>1 DEF IInv, TypeOK, Entries
<1>3. index \notin Mapped
  <2>1. Left \cap Mapped = {} /\ mapped \in 0 .. slab_pages - 1
    BY DEF IInv, SearchInv, MapPage
  <2>2. index \in Left
    BY <1>2, <2>1, Ranges DEF Left
  <2>. QED
    BY <2>1, <2>2
<1>4. Mapped' = Mapped \cup {index}
  BY <1>1, <1>2 DEF Mapped, TypeOK
<1>5. kmalloc_page_tables'[index] = f /\ \A e \in Mapped : kmalloc_page_tables'[e] = kmalloc_page_tables[e]
  BY <1>1, <1>2, <1>3 DEF Mapped, TypeOK
<1>6. \A e \in Mapped : kmalloc_page_tables[e] # f
  BY <1>1, <1>2 DEF FramesOnce
<1>7. FramesOnce'
  <2>1. free' \cup {kmalloc_page_tables'[e] : e \in Mapped'} = Frames
    BY <1>1, <1>2, <1>4, <1>5 DEF FramesOnce
  <2>2. \A e \in Mapped' : kmalloc_page_tables'[e] \notin free'
    BY <1>1, <1>2, <1>4, <1>5 DEF FramesOnce
  <2>3. \A d, e \in Mapped' : d # e => kmalloc_page_tables'[d] # kmalloc_page_tables'[e]
    BY <1>2, <1>4, <1>5, <1>6 DEF FramesOnce
  <2>. QED
    BY <2>1, <2>2, <2>3 DEF FramesOnce
<1>. QED
  BY <1>1, <1>2, <1>3, <1>4, <1>7 DEF TypeOK

LEMMA MapPageInv == ASSUME IInv, MapPage PROVE IInv'
<1>1. /\ TypeOK /\ SlabsMapped /\ pc = "map" /\ mapped \in 0 .. slab_pages - 1 /\ mapped <= index
      /\ Left \cap Mapped = {} /\ index + slab_pages - mapped < NumPts
      /\ index' = index + 1 /\ mapped' = mapped + 1
      /\ UNCHANGED <<orig_index, wrapped, slab_pages>>
  BY DEF IInv, SearchInv, MapPage
<1>2. /\ index \in Int /\ slab_pages \in Int /\ mapped \in Int /\ NumPts \in Nat
      /\ Partial = index - mapped .. index - 1
  BY <1>1, Ranges DEF Partial
<1>3. index' \in 0 .. NumPts - 1 /\ mapped' \in Nat
  BY <1>1, <1>2
<1>4. CASE mapped' # slab_pages
  <2>1. pc' = "map" /\ slabs' = slabs
    BY <1>1, <1>4 DEF MapPage
  <2>2. Partial' = Partial \cup {index}
    BY <1>1, <1>2, <2>1 DEF Partial
  <2>3. TypeOK'
    BY <1>1, <1>3, <2>1, MapPageTables DEF TypeOK
  <2>4. \A s \in slabs : index \notin RunOf(s)
    BY <1>1, MapPageTables DEF SlabsMapped
  <2>5. SlabsMapped'
    BY <1>1, <2>1, <2>2, <2>4, MapPageTables DEF SlabsMapped, RunOf
  <2>6. SearchInv'
    <3>1. Left' = Left \ {index}
      BY <1>1, <1>2, <1>4 DEF Left
    <3>2. Left' \cap Mapped' = {}
      BY <1>1, <3>1, MapPageTables
    <3>. QED
      BY <1>1, <1>2, <1>4, <2>1, <3>2 DEF SearchInv
  <2>. QED
    BY <2>1, <2>3, <2>5, <2>6, MapPageTables DEF IInv
<1>5. CASE mapped' = slab_pages
  <2> DEFINE new == [at |-> index' - slab_pages, pages |-> slab_pages]
  <2>1. pc' = "idle" /\ slabs' = slabs \cup {new}
    BY <1>1, <1>5 DEF MapPage
  <2>2. new.at \in Entries /\ new.pages \in Requests /\ new.at + new.pages <= NumPts
    BY <1>1, <1>2, <1>5 DEF Entries, TypeOK
  <2>3. RunOf(new) = Partial \cup {index} /\ Partial' = {}
    BY <1>1, <1>2, <1>5, <2>1 DEF RunOf, Partial
  <2> HIDE DEF new
  <2>4. TypeOK'
    <3>1. new \in [at : Entries, pages : Requests]
      BY <2>2 DEF new
    <3>. QED
      BY <1>1, <1>3, <2>1, <3>1, MapPageTables DEF TypeOK
  <2>5. \A s \in slabs : RunOf(s) \cap RunOf(new) = {}
    BY <1>1, <2>3, MapPageTables DEF SlabsMapped
  <2>6. SlabsMapped'
    <3>1. Mapped' = (UNION {RunOf(s) : s \in slabs'}) \cup Partial'
      BY <1>1, <2>1, <2>3, MapPageTables DEF SlabsMapped
    <3>2. \A s, t \in slabs' : s # t => RunOf(s) \cap RunOf(t) = {}
      BY <1>1, <2>1, <2>5 DEF SlabsMapped
    <3>. QED
      BY <2>3, <3>1, <3>2 DEF SlabsMapped, RunOf
  <2>7. SearchInv'
    BY <2>1 DEF SearchInv
  <2>. QED
    BY <2>1, <2>2, <2>4, <2>6, <2>7, MapPageTables DEF IInv
<1>. QED
  BY <1>4, <1>5

LEMMA DestroyInv == ASSUME IInv, NEW s \in slabs, Destroy(s) PROVE IInv'
<1>1. /\ TypeOK /\ SlabsMapped /\ FramesOnce /\ pc = "idle" /\ Partial = {}
      /\ UNCHANGED <<index, orig_index, wrapped, slab_pages, mapped, pc>>
      /\ slabs' = slabs \ {s} /\ s.at + s.pages <= NumPts
      /\ free' = free \cup {kmalloc_page_tables[e] : e \in RunOf(s)}
      /\ kmalloc_page_tables' = [e \in Entries |-> IF e \in RunOf(s) THEN NoFrame
                                                                     ELSE kmalloc_page_tables[e]]
  BY DEF IInv, Destroy, Partial
<1>2. RunOf(s) \subseteq Mapped
  BY <1>1 DEF SlabsMapped
<1>3. Mapped' = Mapped \ RunOf(s)
  BY <1>1 DEF Mapped
<1>4. \A e \in Mapped' : kmalloc_page_tables'[e] = kmalloc_page_tables[e]
  BY <1>1, <1>3 DEF Mapped
<1>5. \A e \in Mapped : kmalloc_page_tables[e] \in Frames
  BY <1>1 DEF Mapped, TypeOK
<1>6. TypeOK'
  <2>1. free' \subseteq Frames
    BY <1>1, <1>2, <1>5 DEF TypeOK
  <2>2. kmalloc_page_tables' \in [Entries -> Frames \cup {NoFrame}]
    BY <1>1 DEF TypeOK
  <2>. QED
    BY <1>1, <2>1, <2>2 DEF TypeOK
<1>7. FramesOnce'
  <2>1. free' \cup {kmalloc_page_tables'[e] : e \in Mapped'} = Frames
    BY <1>1, <1>2, <1>3, <1>4, <1>5 DEF FramesOnce
  <2>2. \A e \in Mapped' : kmalloc_page_tables'[e] \notin free'
    BY <1>1, <1>2, <1>3, <1>4 DEF FramesOnce
  <2>3. \A d, e \in Mapped' : d # e => kmalloc_page_tables'[d] # kmalloc_page_tables'[e]
    BY <1>1, <1>3, <1>4 DEF FramesOnce
  <2>. QED
    BY <2>1, <2>2, <2>3 DEF FramesOnce
<1>8. SlabsMapped'
  <2>1. Mapped' = UNION {RunOf(t) : t \in slabs'}
    BY <1>1, <1>3 DEF SlabsMapped
  <2>2. Partial' = {}
    BY <1>1 DEF Partial
  <2>. QED
    BY <1>1, <2>1, <2>2 DEF SlabsMapped, RunOf
<1>9. SearchInv'
  BY <1>1 DEF SearchInv
<1>. QED
  BY <1>1, <1>6, <1>7, <1>8, <1>9 DEF IInv

LEMMA StutterInv == ASSUME IInv, UNCHANGED vars PROVE IInv'
<1>1. Mapped' = Mapped /\ Partial' = Partial /\ Left' = Left
  BY DEF vars, Mapped, Partial, Left
<1>2. SlabsMapped' /\ FramesOnce'
  BY <1>1 DEF IInv, vars, SlabsMapped, FramesOnce, RunOf
<1>3. TypeOK' /\ SearchInv'
  BY <1>1 DEF IInv, vars, TypeOK, SearchInv
<1>. QED
  BY <1>2, <1>3 DEF IInv, vars

(* The invariant that carries the theorems. *)
THEOREM Invariance == Spec => []IInv
<1>1. IInv /\ [Next]_vars => IInv'
  BY CreateInv, ScanInv, FoundInv, PanicInv, MapPageInv, DestroyInv, StutterInv DEF Next, Working
<1>. QED
  BY InitInv, <1>1, PTL DEF Spec

(* The page tables map exactly the slabs handed out, which never overlap,  *)
(* and every frame is free or mapped once.                                 *)
THEOREM SlabsAgree == Spec => [](TypeOK /\ SlabsMapped /\ FramesOnce)
<1>1. IInv => TypeOK /\ SlabsMapped /\ FramesOnce
  BY DEF IInv
<1>. QED
  BY <1>1, Invariance, PTL

(* No two pages of the heap share a frame, and slab_destroy gives back     *)
(* every frame that slab_create took.                                      *)
THEOREM FramesKept == Spec => []FramesOnce
<1>1. IInv => FramesOnce
  BY DEF IInv
<1>. QED
  BY <1>1, Invariance, PTL

(* slab_create never touches an entry past the end of the page tables. *)
THEOREM StaysInHeap == Spec => []InHeap
<1>1. IInv => InHeap
  BY Ranges DEF IInv, SearchInv, InHeap
<1>. QED
  BY <1>1, Invariance, PTL

(* slab_create and slab_destroy implement HeapRegion. *)
THEOREM ImplementsRegion == Spec => KeepsPromise
<1> DEFINE asked == IF pc = "idle" THEN {} ELSE {slab_pages}
<1>1. Init => Region!Init
  BY DEF Init, Region!Init
<1>2. ASSUME IInv, [Next]_vars PROVE [Region!Next]_(Region!regionVars)
  <2>1. ASSUME NEW n \in Requests, Create(n) PROVE Region!Ask(n)
    BY <2>1 DEF Create, Region!Ask
  <2>2. CASE Scan \/ Found \/ PanicHeap \/ PanicPhys
    BY <2>2 DEF Scan, Found, PanicHeap, PanicPhys, Region!regionVars
  <2>3. CASE MapPage /\ mapped' # slab_pages
    BY <2>3 DEF MapPage, Region!regionVars
  <2>4. CASE MapPage /\ mapped' = slab_pages
    <3> DEFINE at == index' - slab_pages
    <3>1. /\ TypeOK /\ SlabsMapped /\ pc = "map" /\ mapped <= index
          /\ index' = index + 1 /\ mapped' = mapped + 1 /\ slab_pages' = slab_pages
          /\ index + slab_pages - mapped < NumPts /\ pc' = "idle"
          /\ slabs' = slabs \cup {[at |-> at, pages |-> slab_pages]}
      BY <1>2, <2>4 DEF IInv, SearchInv, MapPage
    <3>2. /\ at .. at + slab_pages - 1 = Partial \cup {index}
          /\ at \in 0 .. NumPts - 1 /\ at + slab_pages <= NumPts
      <4>1. at = index - mapped /\ slab_pages = mapped + 1 /\ index \in Int /\ mapped \in Nat
        BY <2>4, <3>1, Ranges
      <4>2. Partial = index - mapped .. index - 1
        BY <3>1 DEF Partial
      <4>3. at .. at + slab_pages - 1 = index - mapped .. index
        BY <4>1
      <4>. QED
        BY <3>1, <4>1, <4>2, <4>3, Ranges
    <3>3. \A s \in slabs : RunOf(s) \cap (at .. at + slab_pages - 1) = {}
      BY <1>2, <2>4, <3>1, <3>2, MapPageTables DEF SlabsMapped
    <3>4. slab_pages \in Requests
      BY <3>1 DEF TypeOK
    <3>5. Region!Grant(slab_pages, at)
      BY <3>1, <3>2, <3>3 DEF Region!Grant, Region!RunOf, RunOf
    <3>. QED
      BY <3>2, <3>4, <3>5 DEF Region!Next
  <2>5. ASSUME NEW s \in slabs, Destroy(s) PROVE Region!Release(s)
    BY <2>5 DEF Destroy, Region!Release
  <2>6. CASE UNCHANGED vars
    BY <2>6 DEF vars, Region!regionVars
  <2>. QED
    BY <1>2, <2>1, <2>2, <2>3, <2>4, <2>5, <2>6 DEF Next, Working, Region!Next
<1>. QED
  BY <1>1, <1>2, Invariance, PTL DEF Spec, KeepsPromise, Region!Spec
=============================================================================
