-------------------------- MODULE PageTablesProofs --------------------------
(***************************************************************************)
(* Proofs about PageTables, for tables, windows and memories of any size.  *)
(* First, that the frames of the stacks and of the interrupt vectors are   *)
(* never given to anybody else; then that every table has one owner, that  *)
(* pages translate to what was asked for, and back.                        *)
(***************************************************************************)
EXTENDS PageTables, WellFoundedInduction, TLAPS

USE PageTablesAssumption

(* What a call works on, and what allocating may do to it while the kernel *)
(* runs: frames only leave phys_mem, and a place of a window that changes  *)
(* is mapped to frames that were free.                                     *)
Fields == {"free", "lev1", "lev2", "avail1", "avail2", "ram1", "ram2", "status", "table"}
Grows(s, r) ==
  /\ DOMAIN r = Fields
  /\ r.status = "running" =>
      /\ r.free \subseteq s.free
      /\ \A i \in DOMAIN r.lev2 : i \in DOMAIN s.lev2 /\ (r.lev2[i] = s.lev2[i] \/ r.lev2[i] \in s.free)
      /\ \A i \in DOMAIN r.lev1 : /\ i \in DOMAIN s.lev1
                                  /\ \/ r.lev1[i] = s.lev1[i]
                                     \/ r.lev1[i] .. r.lev1[i] + L1Frames - 1 \subseteq s.free
-----------------------------------------------------------------------------
(* Taking a table from a list, and anything else that leaves the frames    *)
(* and the windows alone.                                                  *)
LEMMA GrowsNot ==
  ASSUME NEW s, NEW r, DOMAIN r = Fields,
         r.free = s.free, r.lev1 = s.lev1, r.lev2 = s.lev2
  PROVE  Grows(s, r)
  BY DEF Grows

(* Later changes to the tables in memory do not matter. *)
LEMMA GrowsThen ==
  ASSUME NEW s, NEW q, NEW r, Grows(s, q), DOMAIN r = Fields,
         r.free = q.free, r.lev1 = q.lev1, r.lev2 = q.lev2,
         r.status = "running" => q.status = "running"
  PROVE  Grows(s, r)
  BY DEF Grows

(* phys_mem answers free frames, or its error code. *)
LEMMA GetPagesFree ==
  ASSUME NEW avail, NEW n, NEW align, NEW f \in GetPages(avail, n, align), f # Rom
  PROVE  f \in avail /\ f .. f + n - 1 \subseteq avail /\ f % align = 0
  BY DEF GetPages, Runs

LEMMA MapL2Grows ==
  ASSUME NEW s, DOMAIN s = Fields, NEW i, NEW f \in GetPages(s.free, 1, 1)
  PROVE  Grows(s, MapL2(s, i, f))
<1> DEFINE r == MapL2(s, i, f)
<1>1. DOMAIN r = Fields
  BY DEF MapL2, Fields
<1>2. /\ r.free \subseteq s.free /\ r.lev1 = s.lev1
      /\ r.lev2 = [s.lev2 EXCEPT ![i] = f]
      /\ r.status = IF f = Rom THEN "rom" ELSE s.status
  BY DEF MapL2, Fields, Taken
<1> HIDE DEF r
<1>3. r.status = "running" => f \in s.free
  BY <1>2, GetPagesFree
<1>. QED
  BY <1>1, <1>2, <1>3 DEF Grows, r

LEMMA MapL1Grows ==
  ASSUME NEW s, DOMAIN s = Fields, NEW i, NEW f \in GetPages(s.free, L1Frames, L1Align)
  PROVE  Grows(s, MapL1(s, i, f))
<1> DEFINE r == MapL1(s, i, f)
<1>1. DOMAIN r = Fields
  BY DEF MapL1, Fields
<1>2. /\ r.free \subseteq s.free /\ r.lev2 = s.lev2
      /\ r.lev1 = [s.lev1 EXCEPT ![i] = f]
      /\ r.status = IF f = Rom THEN "rom" ELSE s.status
  BY DEF MapL1, Fields, Taken
<1> HIDE DEF r
<1>3. r.status = "running" => f .. f + L1Frames - 1 \subseteq s.free
  BY <1>2, GetPagesFree
<1>. QED
  BY <1>1, <1>2, <1>3 DEF Grows, r

(* pt_l2_alloc and pt_l1_alloc *)
LEMMA AllocL2Grows ==
  ASSUME NEW s, DOMAIN s = Fields, NEW r \in AllocL2(s)
  PROVE  Grows(s, r)
<1>1. PICK q \in IF s.avail2 # <<>> THEN {[s EXCEPT !.table = Head(s.avail2), !.avail2 = Tail(@)]} ELSE FreshL2(s) :
        r = ZeroedL2(q)
  BY DEF AllocL2
<1>2. Grows(s, q)
  <2>1. CASE s.avail2 # <<>>
    <3>1. q = [s EXCEPT !.table = Head(s.avail2), !.avail2 = Tail(@)]
      BY <1>1, <2>1
    <3>2. DOMAIN q = Fields /\ q.free = s.free /\ q.lev1 = s.lev1 /\ q.lev2 = s.lev2
      BY <3>1 DEF Fields
    <3>. QED
      BY <3>2, GrowsNot
  <2>2. CASE s.avail2 = <<>>
    <3>1. q \in FreshL2(s)
      BY <1>1, <2>2
    <3>2. \/ q = [s EXCEPT !.status = "panic"]
          \/ \E i : \E f \in GetPages(s.free, 1, 1) : q = MapL2(s, i, f)
      BY <3>1 DEF FreshL2
    <3>3. CASE q = [s EXCEPT !.status = "panic"]
      <4>1. DOMAIN q = Fields /\ q.free = s.free /\ q.lev1 = s.lev1 /\ q.lev2 = s.lev2
        BY <3>3 DEF Fields
      <4>. QED
        BY <4>1, GrowsNot
    <3>. QED
      BY <3>2, <3>3, MapL2Grows
  <2>. QED
    BY <2>1, <2>2
<1>3. /\ DOMAIN r = Fields /\ r.free = q.free /\ r.lev1 = q.lev1 /\ r.lev2 = q.lev2
      /\ r.status = q.status
  BY <1>1, <1>2 DEF ZeroedL2, Grows, Fields
<1>. QED
  BY <1>2, <1>3, GrowsThen

LEMMA AllocL1Grows ==
  ASSUME NEW s, DOMAIN s = Fields, NEW r \in AllocL1(s)
  PROVE  Grows(s, r)
<1>1. PICK q \in IF s.avail1 # <<>> THEN {[s EXCEPT !.table = Head(s.avail1), !.avail1 = Tail(@)]} ELSE FreshL1(s) :
        r = ZeroedL1(q)
  BY DEF AllocL1
<1>2. Grows(s, q)
  <2>1. CASE s.avail1 # <<>>
    <3>1. q = [s EXCEPT !.table = Head(s.avail1), !.avail1 = Tail(@)]
      BY <1>1, <2>1
    <3>2. DOMAIN q = Fields /\ q.free = s.free /\ q.lev1 = s.lev1 /\ q.lev2 = s.lev2
      BY <3>1 DEF Fields
    <3>. QED
      BY <3>2, GrowsNot
  <2>2. CASE s.avail1 = <<>>
    <3>1. q \in FreshL1(s)
      BY <1>1, <2>2
    <3>2. \/ q = [s EXCEPT !.status = "panic"]
          \/ \E i : \E f \in GetPages(s.free, L1Frames, L1Align) : q = MapL1(s, i, f)
      BY <3>1 DEF FreshL1
    <3>3. CASE q = [s EXCEPT !.status = "panic"]
      <4>1. DOMAIN q = Fields /\ q.free = s.free /\ q.lev1 = s.lev1 /\ q.lev2 = s.lev2
        BY <3>3 DEF Fields
      <4>. QED
        BY <4>1, GrowsNot
    <3>. QED
      BY <3>2, <3>3, MapL1Grows
  <2>. QED
    BY <2>1, <2>2
<1>3. /\ DOMAIN r = Fields /\ r.free = q.free /\ r.lev1 = q.lev1 /\ r.lev2 = q.lev2
      /\ r.status = q.status
  BY <1>1, <1>2 DEF ZeroedL1, Grows, Fields
<1>. QED
  BY <1>2, <1>3, GrowsThen

(* pt_add_mapping *)
LEMMA SecondLevelGrows ==
  ASSUME NEW s, DOMAIN s = Fields, s.status = "running", NEW p, NEW e, NEW r \in SecondLevel(s, p, e)
  PROVE  Grows(s, r)
<1>1. CASE s.ram1[p][e].key \in {2, 3}
  <2>1. r = [s EXCEPT !.status = "panic"]
    BY <1>1 DEF SecondLevel
  <2>2. DOMAIN r = Fields /\ r.free = s.free /\ r.lev1 = s.lev1 /\ r.lev2 = s.lev2
    BY <2>1 DEF Fields
  <2>. QED
    BY <2>2, GrowsNot
<1>2. CASE s.ram1[p][e].key = 1
  <2>1. \E a : r = IF a = None THEN [s EXCEPT !.status = "panic"] ELSE [s EXCEPT !.table = a]
    BY <1>2 DEF SecondLevel
  <2>2. DOMAIN r = Fields /\ r.free = s.free /\ r.lev1 = s.lev1 /\ r.lev2 = s.lev2
    BY <2>1 DEF Fields
  <2>. QED
    BY <2>2, GrowsNot
<1>3. CASE s.ram1[p][e].key \notin {1, 2, 3}
  <2>1. PICK q \in AllocL2(s) :
          r = IF q.status = "running" THEN [q EXCEPT !.ram1[p][e] = Coarse(L2LookupPhys(q.lev2, q.table))] ELSE q
    BY <1>3 DEF SecondLevel
  <2>2. Grows(s, q)
    BY AllocL2Grows
  <2>3. /\ DOMAIN r = Fields /\ r.free = q.free /\ r.lev1 = q.lev1 /\ r.lev2 = q.lev2
        /\ r.status = q.status
    BY <2>1, <2>2 DEF Grows, Fields
  <2>. QED
    BY <2>2, <2>3, GrowsThen
<1>. QED
  BY <1>1, <1>2, <1>3
-----------------------------------------------------------------------------
(* The frames of the stacks and the vectors *)
StackFrames == {FastVirtToPhys(StackEntry * Entries2 + k) : k \in 0 .. Entries2 - 1}

LEMMA StackFramesFixed ==
  ASSUME UNCHANGED kernel_page_table
  PROVE  StackFrames' = StackFrames
  BY DEF StackFrames, FastVirtToPhys

(* StacksSafe, without naming the places in the section *)
SafeInv ==
  status = "running" =>
    /\ StackFrames \subseteq Frames \ free
    /\ \A i \in DOMAIN lev_2_pts : lev_2_pts[i] \notin StackFrames
    /\ \A i \in DOMAIN lev_1_pts : lev_1_pts[i] # None =>
         (lev_1_pts[i] .. lev_1_pts[i] + L1Frames - 1) \cap StackFrames = {}

LEMMA SafeIsSafe == SafeInv <=> StacksSafe
  BY DEF SafeInv, StacksSafe, StackFrames

(* A call that only allocates keeps the stacks safe. *)
LEMMA GrowsSafe ==
  ASSUME SafeInv, status = "running", NEW s, NEW r, Grows(s, r), Ends(r),
         s.free = free,
         \A i \in DOMAIN s.lev2 : s.lev2[i] = None \/ (i \in DOMAIN lev_2_pts /\ s.lev2[i] = lev_2_pts[i]),
         \A i \in DOMAIN s.lev1 : s.lev1[i] = None \/ (i \in DOMAIN lev_1_pts /\ s.lev1[i] = lev_1_pts[i]),
         UNCHANGED kernel_page_table
  PROVE  SafeInv'
<1> SUFFICES ASSUME status' = "running" PROVE SafeInv'
  BY DEF SafeInv
<1>1. StackFrames' = StackFrames
  BY StackFramesFixed
<1>2. /\ StackFrames \subseteq Frames \ free
      /\ \A i \in DOMAIN lev_2_pts : lev_2_pts[i] \notin StackFrames
      /\ \A i \in DOMAIN lev_1_pts : lev_1_pts[i] # None =>
           (lev_1_pts[i] .. lev_1_pts[i] + L1Frames - 1) \cap StackFrames = {}
  BY DEF SafeInv
<1>3. /\ free' \subseteq free
      /\ \A i \in DOMAIN lev_2_pts' : i \in DOMAIN s.lev2 /\ (lev_2_pts'[i] = s.lev2[i] \/ lev_2_pts'[i] \in free)
      /\ \A i \in DOMAIN lev_1_pts' : /\ i \in DOMAIN s.lev1
                                      /\ \/ lev_1_pts'[i] = s.lev1[i]
                                         \/ lev_1_pts'[i] .. lev_1_pts'[i] + L1Frames - 1 \subseteq free
  BY DEF Grows, Ends
<1>4. None \notin StackFrames
  BY <1>2 DEF None
<1>5. \A i \in DOMAIN lev_2_pts' : lev_2_pts'[i] \notin StackFrames
  BY <1>2, <1>3, <1>4
<1>6. \A i \in DOMAIN lev_1_pts' : lev_1_pts'[i] # None =>
        (lev_1_pts'[i] .. lev_1_pts'[i] + L1Frames - 1) \cap StackFrames = {}
  BY <1>2, <1>3
<1>. QED
  BY <1>1, <1>2, <1>3, <1>5, <1>6 DEF SafeInv

LEMMA SameSafe ==
  ASSUME SafeInv, UNCHANGED <<kernel_page_table, free, lev_1_pts, lev_2_pts>>,
         status' = "running" => status = "running"
  PROVE  SafeInv'
<1>1. StackFrames' = StackFrames
  BY StackFramesFixed
<1>. QED
  BY <1>1 DEF SafeInv

(* The section of the stacks is made of frames that phys_mem gave. *)
LEMMA Division ==
  ASSUME NEW e \in Nat, NEW per \in Nat \ {0}, NEW k \in 0 .. per - 1
  PROVE  (e * per + k) \div per = e /\ (e * per + k) % per = k
  OBVIOUS
LEMMA WholeSection ==
  ASSUME NEW f \in Nat, NEW per \in Nat \ {0}, f % per = 0
  PROVE  (f \div per) * per = f
  OBVIOUS

LEMMA InitSafe == Init => SafeInv
<1> SUFFICES ASSUME Init, status = "running" PROVE SafeInv
  BY DEF SafeInv
<1>1. PICK f \in GetPages(Frames, Entries2, Entries2) :
        /\ free = Taken(Frames, f, Entries2)
        /\ kernel_page_table = SetupKernel(f)
        /\ status = IF f = Rom THEN "rom" ELSE "running"
        /\ lev_1_pts = [i \in 0 .. L1Tables - 1 |-> None]
        /\ lev_2_pts = [i \in 0 .. L2Pages - 1 |-> None]
  BY DEF Init
<1>2. f \in Frames /\ f .. f + Entries2 - 1 \subseteq Frames /\ f % Entries2 = 0
  BY <1>1, GetPagesFree
<1>3. f \in Nat /\ Entries2 \in Nat \ {0} /\ StackEntry \in Nat /\ StackEntry \in Top
  BY <1>2 DEF PageTablesAssumption, Top
<1>4. kernel_page_table[StackEntry] = Section(f \div Entries2)
  BY <1>1, <1>3 DEF SetupKernel
<1>5. (f \div Entries2) * Entries2 = f
  BY <1>2, <1>3, WholeSection
<1>6. ASSUME NEW k \in 0 .. Entries2 - 1
      PROVE  FastVirtToPhys(StackEntry * Entries2 + k) = f + k
  <2> DEFINE v == StackEntry * Entries2 + k
  <2>1. v \div Entries2 = StackEntry /\ v % Entries2 = k
    BY <1>3, Division
  <2> HIDE DEF v
  <2>2. FastVirtToPhys(v) = ((f \div Entries2) * Entries2) + k
    BY <1>4, <2>1 DEF FastVirtToPhys, Section
  <2>. QED
    BY <1>5, <2>2 DEF v
<1>7. StackFrames \subseteq f .. f + Entries2 - 1
  <2>1. \A k \in 0 .. Entries2 - 1 : f + k \in f .. f + Entries2 - 1
    BY <1>3
  <2>. QED
    BY <1>6, <2>1 DEF StackFrames
<1>8. StackFrames \subseteq Frames \ free
  BY <1>1, <1>2, <1>7 DEF Taken
<1>9. None \notin StackFrames
  BY <1>8 DEF None
<1>. QED
  BY <1>1, <1>8, <1>9 DEF SafeInv
-----------------------------------------------------------------------------
LEMMA StateShape ==
  /\ DOMAIN State = Fields
  /\ State.free = free /\ State.lev1 = lev_1_pts /\ State.lev2 = lev_2_pts /\ State.status = "running"
  BY DEF State, Fields

LEMMA PtL1AllocSafe == ASSUME SafeInv, PtL1Alloc PROVE SafeInv'
<1>1. PICK r \in AllocL1(State) : Ends(r)
  BY DEF PtL1Alloc
<1>2. status = "running" /\ UNCHANGED kernel_page_table
  BY DEF PtL1Alloc
<1>3. Grows(State, r)
  BY StateShape, AllocL1Grows
<1>. QED
  BY <1>1, <1>2, <1>3, StateShape, GrowsSafe

LEMMA PtL2AllocSafe == ASSUME SafeInv, PtL2Alloc PROVE SafeInv'
<1>1. PICK r \in AllocL2(State) : Ends(r)
  BY DEF PtL2Alloc
<1>2. status = "running" /\ UNCHANGED kernel_page_table
  BY DEF PtL2Alloc
<1>3. Grows(State, r)
  BY StateShape, AllocL2Grows
<1>. QED
  BY <1>1, <1>2, <1>3, StateShape, GrowsSafe

(* The first pt_new allocates in empty windows; a later one stops the model. *)
LEMMA PtNewSafe == ASSUME SafeInv, PtNew PROVE SafeInv'
<1> DEFINE w == Wiped(State)
<1>1. status = "running" /\ UNCHANGED kernel_page_table
  BY DEF PtNew
<1>2. CASE InUse \/ \E i \in DOMAIN lev_2_pts : lev_2_pts[i] # None
  <2>1. Ends([w EXCEPT !.status = "wiped"])
    BY <1>2 DEF PtNew
  <2>2. status' = "wiped"
    BY <2>1 DEF Ends, Wiped, State
  <2>. QED
    BY <2>2 DEF SafeInv
<1>3. CASE ~(InUse \/ \E i \in DOMAIN lev_2_pts : lev_2_pts[i] # None)
  <2>1. PICK r \in AllocL1(w) : Ends(NewTable(r))
    BY <1>3 DEF PtNew
  <2>2. /\ DOMAIN w = Fields /\ w.free = free
        /\ w.lev1 = [i \in DOMAIN lev_1_pts |-> None]
        /\ w.lev2 = [i \in DOMAIN lev_2_pts |-> None]
    BY DEF Wiped, State, Fields
  <2> HIDE DEF w
  <2>3. Grows(w, r)
    BY <2>1, <2>2, AllocL1Grows
  <2>4. /\ DOMAIN NewTable(r) = Fields
        /\ NewTable(r).free = r.free /\ NewTable(r).lev1 = r.lev1 /\ NewTable(r).lev2 = r.lev2
        /\ NewTable(r).status = r.status
    BY <2>3 DEF NewTable, Grows, Fields
  <2>5. Grows(w, NewTable(r))
    BY <2>3, <2>4, GrowsThen
  <2>6. /\ \A i \in DOMAIN w.lev2 : w.lev2[i] = None
        /\ \A i \in DOMAIN w.lev1 : w.lev1[i] = None
    BY <2>2
  <2>. QED
    BY <1>1, <2>1, <2>2, <2>5, <2>6, GrowsSafe
<1>. QED
  BY <1>2, <1>3

LEMMA PtAddMappingSafe ==
  ASSUME SafeInv, NEW p, NEW v, NEW f, PtAddMapping(p, v, f)
  PROVE  SafeInv'
<1>1. PICK r \in SecondLevel(State, p, v \div Entries2) : Ends(Mapped(r, v, f))
  BY DEF PtAddMapping
<1>2. status = "running" /\ UNCHANGED kernel_page_table
  BY DEF PtAddMapping
<1>3. Grows(State, r)
  BY StateShape, SecondLevelGrows
<1>4. /\ DOMAIN Mapped(r, v, f) = Fields
      /\ Mapped(r, v, f).free = r.free /\ Mapped(r, v, f).lev1 = r.lev1 /\ Mapped(r, v, f).lev2 = r.lev2
      /\ Mapped(r, v, f).status = r.status
  BY <1>3 DEF Mapped, Grows, Fields
<1>5. Grows(State, Mapped(r, v, f))
  BY <1>3, <1>4, GrowsThen
<1>. QED
  BY <1>1, <1>2, <1>5, StateShape, GrowsSafe

LEMMA NextSafe == SafeInv /\ [Next]_vars => SafeInv'
<1> SUFFICES ASSUME SafeInv, [Next]_vars PROVE SafeInv'
  OBVIOUS
<1>1. ASSUME NEW p \in DOMAIN mapped, PtL1Free(p) PROVE SafeInv'
  <2>1. UNCHANGED <<kernel_page_table, free, lev_1_pts, lev_2_pts, status>>
    BY <1>1 DEF PtL1Free
  <2>. QED
    BY <2>1, SameSafe
<1>2. ASSUME NEW t \in spare, PtL2Free(t) PROVE SafeInv'
  <2>1. UNCHANGED <<kernel_page_table, free, lev_1_pts, lev_2_pts>> /\ status = "running"
    BY <1>2 DEF PtL2Free
  <2>. QED
    BY <2>1, SameSafe
<1>3. CASE UNCHANGED vars
  <2>1. UNCHANGED <<kernel_page_table, free, lev_1_pts, lev_2_pts, status>>
    BY <1>3 DEF vars
  <2>. QED
    BY <2>1, SameSafe
<1>. QED
  BY <1>1, <1>2, <1>3, PtNewSafe, PtL1AllocSafe, PtL2AllocSafe, PtAddMappingSafe DEF Next

(* The stacks and the vectors, which setup_kernel_page_table put on frames *)
(* from phys_mem, stay on frames that phys_mem gives to nobody and that    *)
(* hold no page table, whatever is allocated, mapped and freed.            *)
THEOREM StacksStaySafe == Spec => []StacksSafe
<1>1. Spec => []SafeInv
  BY InitSafe, NextSafe, PTL DEF Spec
<1>. QED
  BY <1>1, SafeIsSafe, PTL
-----------------------------------------------------------------------------
LEMMA Sizes ==
  /\ PerPage \in Nat \ {0} /\ L2Pages \in Nat \ {0} /\ L1Tables \in Nat \ {0}
  /\ L1Frames \in Nat \ {0} /\ Entries2 \in Nat \ {0}
  OBVIOUS

(* Places, tables and frames as numbers: the table q of frame or page n is *)
(* number n * per + q.                                                     *)
LEMMA DivisionParts ==
  ASSUME NEW a \in Nat, NEW per \in Nat \ {0}
  PROVE  /\ a \div per \in Nat /\ a % per \in 0 .. per - 1
         /\ a = (a \div per) * per + (a % per)
  OBVIOUS
LEMMA DivisionBound ==
  ASSUME NEW n \in Nat, NEW per \in Nat \ {0}, NEW a \in 0 .. n * per - 1
  PROVE  a \div per \in 0 .. n - 1
<1>0. a \in Nat
  OBVIOUS
<1>1. a = (a \div per) * per + (a % per) /\ a % per \in 0 .. per - 1 /\ a \div per \in Nat
  BY <1>0, DivisionParts
<1>2. CASE a \div per >= n
  <2>1. PICK d \in Nat : a \div per = n + d
    BY <1>1, <1>2
  <2>2. (n + d) * per = n * per + d * per /\ d * per \in Nat /\ n * per \in Nat
    OBVIOUS
  <2>. QED
    BY <1>1, <2>1, <2>2
<1>. QED
  BY <1>1, <1>2
LEMMA NumberBound ==
  ASSUME NEW n \in Nat, NEW per \in Nat \ {0}, NEW i \in 0 .. n - 1, NEW q \in 0 .. per - 1
  PROVE  i * per + q \in 0 .. n * per - 1
<1>1. PICK d \in Nat : n = i + 1 + d
  BY n - 1 - i \in Nat
<1>2. (i + 1 + d) * per = i * per + per + d * per /\ d * per \in Nat /\ i * per \in Nat
  OBVIOUS
<1>. QED
  BY <1>1, <1>2

(* The least of a set of numbers *)
LEMMA LeastIs ==
  ASSUME NEW S \in SUBSET Nat, S # {}
  PROVE  Least(S) \in S /\ \A y \in S : Least(S) <= y
<1>1. PICK x \in S : \A y \in S : ~(<<y, x>> \in OpToRel(<, Nat))
  BY NatLessThanWellFounded, WFMin, Zenon
<1>2. \A y \in S : ~(y < x)
  <2>1. SUFFICES ASSUME NEW y \in S, y < x PROVE <<y, x>> \in OpToRel(<, Nat)
    BY <1>1, Zenon
  <2>2. <<y, x>> \in Nat \X Nat /\ <<y, x>>[1] < <<y, x>>[2]
    BY <2>1
  <2>. QED
    BY <2>2, Zenon DEF OpToRel
<1>3. \A y \in S : x <= y
  BY <1>2
<1>. QED
  BY <1>3 DEF Least
-----------------------------------------------------------------------------
(* The windows: every page of the second level window is mapped to a frame *)
(* of its own, every place of the top level window to frames of its own,   *)
(* and none of them is free.                                               *)
Held(lev) == {i \in DOMAIN lev : lev[i] # None}
Run(f) == f .. f + L1Frames - 1
WindowsOK(avail, lev1, lev2) ==
  /\ avail \subseteq Frames
  /\ lev1 \in [0 .. L1Tables - 1 -> Int] /\ lev2 \in [0 .. L2Pages - 1 -> Int]
  /\ \A i \in Held(lev2) : lev2[i] \in Frames \ avail
  /\ \A i, j \in Held(lev2) : lev2[i] = lev2[j] => i = j
  /\ \A i \in Held(lev1) : Run(lev1[i]) \subseteq Frames \ avail
  /\ \A i, j \in Held(lev1) : i # j => Run(lev1[i]) \cap Run(lev1[j]) = {}
  /\ \A i \in Held(lev1), j \in Held(lev2) : lev2[j] \notin Run(lev1[i])

(* The tables in a window, those on a list, and those that somebody has. *)
Tables1(lev1) == {lev1[i] : i \in Held(lev1)}
Tables2(lev2) == {t \in Nat : \E i \in Held(lev2) : t \div PerPage = lev2[i]}
Listing1(list, lev1) == {L1LookupPhys(lev1, list[k]) : k \in DOMAIN list}
Listing2(list, lev2) == {L2LookupPhys(lev2, list[k]) : k \in DOMAIN list}
Out1(lev1, list) == Tables1(lev1) \ Listing1(list, lev1)
Out2(lev2, list) == Tables2(lev2) \ Listing2(list, lev2)

(* A list names places that are mapped, each once. *)
List1OK(list, lev1) ==
  /\ list \in Seq(0 .. L1Tables - 1)
  /\ \A k \in 1 .. Len(list) : list[k] \in Held(lev1)
  /\ \A k, l \in 1 .. Len(list) : list[k] = list[l] => k = l
List2OK(list, lev2) ==
  /\ list \in Seq(0 .. L2Pages * PerPage - 1)
  /\ \A k \in 1 .. Len(list) : list[k] \div PerPage \in Held(lev2)
  /\ \A k, l \in 1 .. Len(list) : list[k] = list[l] => k = l

LEMMA FrameInRun == ASSUME NEW f \in Int PROVE f \in Run(f)
  BY DEF Run

(* pt_l2_lookup_virt undoes pt_l2_lookup_phys. *)
LEMMA TableAtPlace ==
  ASSUME NEW avail, NEW lev1, NEW lev2, WindowsOK(avail, lev1, lev2),
         NEW a \in 0 .. L2Pages * PerPage - 1, a \div PerPage \in Held(lev2)
  PROVE  /\ L2LookupPhys(lev2, a) \in Tables2(lev2)
         /\ L2LookupVirt(lev2, L2LookupPhys(lev2, a)) = a
<1> DEFINE i == a \div PerPage
           f == lev2[i]
           t == f * PerPage + (a % PerPage)
<1>0. a \in Nat
  OBVIOUS
<1>1. i \in 0 .. L2Pages - 1 /\ a % PerPage \in 0 .. PerPage - 1 /\ a = i * PerPage + (a % PerPage)
  BY <1>0, Sizes, DivisionBound, DivisionParts
<1>2. f \in Nat /\ f \in Frames
  BY DEF WindowsOK
<1>3. t \div PerPage = f /\ t % PerPage = a % PerPage /\ t \in Nat
  <2> DEFINE q == a % PerPage
  <2> HIDE DEF f, q
  <2>1. q \in 0 .. PerPage - 1 /\ f \in Nat
    BY <1>1, <1>2 DEF q
  <2>3. (f * PerPage + q) \div PerPage = f /\ (f * PerPage + q) % PerPage = q
    BY <2>1, Sizes, Division, Zenon
  <2>4. f * PerPage \in Nat /\ q \in Nat
    BY <2>1, Sizes
  <2>2. (f * PerPage + q) \div PerPage = f /\ (f * PerPage + q) % PerPage = q /\ f * PerPage + q \in Nat
    BY <2>3, <2>4
  <2>. QED
    BY <2>2 DEF q
<1>4. L2LookupPhys(lev2, a) = t
  BY DEF L2LookupPhys
<1> HIDE DEF t
<1>5. t \in Tables2(lev2)
  BY <1>3 DEF Tables2
<1> DEFINE at == {j \in DOMAIN lev2 : lev2[j] = t \div PerPage}
<1>6. at = {i}
  BY <1>2, <1>3 DEF WindowsOK, Held, None
<1>7. Least(at) = i
  <2>1. at \in SUBSET Nat /\ at # {}
    <3> HIDE DEF at, i
    <3>. QED
      BY <1>1, <1>6
  <2>. QED
    BY <1>6, <2>1, LeastIs
<1>8. L2LookupVirt(lev2, t) = i * PerPage + (t % PerPage)
  <2>1. L2LookupVirt(lev2, t) = IF at = {} THEN None ELSE (Least(at) * PerPage) + (t % PerPage)
    BY DEF L2LookupVirt
  <2>. QED
    BY <1>6, <1>7, <2>1
<1>. QED
  BY <1>1, <1>3, <1>4, <1>5, <1>8

(* pt_l2_lookup_phys undoes pt_l2_lookup_virt. *)
LEMMA PlaceOfTable ==
  ASSUME NEW avail, NEW lev1, NEW lev2, WindowsOK(avail, lev1, lev2), NEW t \in Tables2(lev2)
  PROVE  LET a == L2LookupVirt(lev2, t)
         IN /\ a \in 0 .. L2Pages * PerPage - 1 /\ a \div PerPage \in Held(lev2) /\ a # None
            /\ L2LookupPhys(lev2, a) = t
<1>1. PICK i \in Held(lev2) : t \div PerPage = lev2[i]
  BY DEF Tables2
<1>2. t \in Nat /\ i \in 0 .. L2Pages - 1 /\ lev2[i] \in Frames
  BY DEF Tables2, WindowsOK, Held
<1>3. t % PerPage \in 0 .. PerPage - 1 /\ t = lev2[i] * PerPage + (t % PerPage)
  BY <1>1, <1>2, DivisionParts
<1> DEFINE at == {j \in DOMAIN lev2 : lev2[j] = t \div PerPage}
<1>4. at = {i}
  BY <1>1, <1>2 DEF WindowsOK, Held, None
<1>5. Least(at) = i
  <2>1. at \in SUBSET Nat /\ at # {}
    BY <1>2, <1>4
  <2>. QED
    BY <1>4, <2>1, LeastIs
<1>6. L2LookupVirt(lev2, t) = i * PerPage + (t % PerPage)
  <2>1. L2LookupVirt(lev2, t) = IF at = {} THEN None ELSE (Least(at) * PerPage) + (t % PerPage)
    BY DEF L2LookupVirt
  <2>. QED
    BY <1>4, <1>5, <2>1
<1> HIDE DEF at
<1> DEFINE a == i * PerPage + (t % PerPage)
<1>7. a \in 0 .. L2Pages * PerPage - 1
  BY <1>2, <1>3, NumberBound
<1>8. a \div PerPage = i /\ a % PerPage = t % PerPage
  BY <1>2, <1>3, Sizes, Division
<1> HIDE DEF a
<1>9. L2LookupPhys(lev2, a) = t
  BY <1>3, <1>8 DEF L2LookupPhys
<1>. QED
  BY <1>6, <1>7, <1>8, <1>9 DEF a, None
-----------------------------------------------------------------------------
(* pt_l2_alloc *)
LEMMA DistinctPlaces ==
  ASSUME NEW avail, NEW lev1, NEW lev2, WindowsOK(avail, lev1, lev2),
         NEW a \in 0 .. L2Pages * PerPage - 1, a \div PerPage \in Held(lev2),
         NEW b \in 0 .. L2Pages * PerPage - 1, b \div PerPage \in Held(lev2),
         L2LookupPhys(lev2, a) = L2LookupPhys(lev2, b)
  PROVE  a = b
<1>1. a = L2LookupVirt(lev2, L2LookupPhys(lev2, a)) /\ b = L2LookupVirt(lev2, L2LookupPhys(lev2, b))
  BY TableAtPlace
<1>. QED
  BY <1>1, Zenon

(* A list, without its head *)
LEMMA TailOf ==
  ASSUME NEW S, NEW list \in Seq(S), list # <<>>
  PROVE  /\ Tail(list) \in Seq(S) /\ Len(Tail(list)) = Len(list) - 1 /\ Len(list) \in Nat \ {0}
         /\ DOMAIN list = 1 .. Len(list) /\ DOMAIN Tail(list) = 1 .. Len(list) - 1
         /\ Head(list) = list[1] /\ \A k \in 1 .. Len(list) - 1 : Tail(list)[k] = list[k + 1]
  OBVIOUS

(* The first table of the list is handed out. *)
LEMMA TakenFromList2 ==
  ASSUME NEW avail, NEW lev1, NEW lev2, WindowsOK(avail, lev1, lev2),
         NEW list, List2OK(list, lev2), list # <<>>
  PROVE  LET t == L2LookupPhys(lev2, Head(list))
         IN /\ List2OK(Tail(list), lev2)
            /\ t \in Tables2(lev2) /\ t \notin Out2(lev2, list)
            /\ Out2(lev2, Tail(list)) = Out2(lev2, list) \cup {t}
<1> DEFINE rest == Tail(list)
           t == L2LookupPhys(lev2, Head(list))
<1>1. list \in Seq(0 .. L2Pages * PerPage - 1)
  BY DEF List2OK
<1>2. /\ rest \in Seq(0 .. L2Pages * PerPage - 1) /\ Len(rest) = Len(list) - 1 /\ Len(list) \in Nat \ {0}
      /\ DOMAIN list = 1 .. Len(list) /\ DOMAIN rest = 1 .. Len(list) - 1
      /\ Head(list) = list[1] /\ \A k \in 1 .. Len(list) - 1 : rest[k] = list[k + 1]
  BY <1>1, TailOf, Zenon
<1>3. \A k \in 1 .. Len(list) : list[k] \in 0 .. L2Pages * PerPage - 1
  BY <1>1, <1>2
<1> HIDE DEF rest
<1>4. \A k \in 1 .. Len(list) : list[k] \div PerPage \in Held(lev2)
  BY DEF List2OK
<1>5. \A k, l \in 1 .. Len(list) : list[k] = list[l] => k = l
  BY DEF List2OK
<1>6. List2OK(rest, lev2)
  <2>1. \A k \in 1 .. Len(rest) : k + 1 \in 1 .. Len(list) /\ rest[k] = list[k + 1]
    BY <1>2
  <2>2. \A k \in 1 .. Len(rest) : rest[k] \div PerPage \in Held(lev2)
    BY <1>4, <2>1, Zenon
  <2>3. \A k, l \in 1 .. Len(rest) : rest[k] = rest[l] => k = l
    <3>1. ASSUME NEW k \in 1 .. Len(rest), NEW l \in 1 .. Len(rest), rest[k] = rest[l] PROVE k + 1 = l + 1
      BY <1>5, <2>1, <3>1, Zenon
    <3>. QED
      BY <1>2, <3>1
  <2>. QED
    BY <1>2, <2>2, <2>3 DEF List2OK
<1>7. t \in Tables2(lev2)
  BY <1>2, <1>3, <1>4, TableAtPlace
<1>8. t \in Listing2(list, lev2)
  <2>1. 1 \in DOMAIN list /\ t = L2LookupPhys(lev2, list[1])
    BY <1>2
  <2>. QED
    BY <2>1, Zenon DEF Listing2
<1>9. ASSUME NEW k \in 1 .. Len(list), L2LookupPhys(lev2, list[k]) = t PROVE k = 1
  <2>1. 1 \in 1 .. Len(list) /\ t = L2LookupPhys(lev2, list[1])
    BY <1>2
  <2>2. list[k] = list[1]
    BY <1>3, <1>4, <1>9, <2>1, DistinctPlaces, Zenon
  <2>. QED
    BY <1>5, <2>1, <2>2, Zenon
<1> HIDE DEF t
<1>10. Listing2(rest, lev2) = Listing2(list, lev2) \ {t}
  <2>1. ASSUME NEW u \in Listing2(rest, lev2) PROVE u \in Listing2(list, lev2) /\ u # t
    <3>1. PICK k \in 1 .. Len(list) - 1 : u = L2LookupPhys(lev2, rest[k])
      BY <1>2 DEF Listing2
    <3>2. k + 1 \in 1 .. Len(list) /\ k + 1 # 1 /\ u = L2LookupPhys(lev2, list[k + 1])
      BY <1>2, <3>1
    <3>. QED
      BY <1>2, <1>9, <3>2, Zenon DEF Listing2
  <2>2. ASSUME NEW u \in Listing2(list, lev2), u # t PROVE u \in Listing2(rest, lev2)
    <3>1. PICK k \in 1 .. Len(list) : u = L2LookupPhys(lev2, list[k])
      BY <1>2, <2>2, Zenon DEF Listing2
    <3>2. k # 1
      BY <1>2, <2>2, <3>1 DEF t
    <3>3. k - 1 \in 1 .. Len(list) - 1 /\ (k - 1) + 1 = k
      BY <1>2, <3>2
    <3>4. rest[k - 1] = list[k]
      BY <1>2, <3>3, Zenon
    <3>. QED
      BY <1>2, <3>1, <3>3, <3>4, Zenon DEF Listing2
  <2>. QED
    BY <2>1, <2>2
<1>11. Out2(lev2, rest) = Out2(lev2, list) \cup {t} /\ t \notin Out2(lev2, list)
  BY <1>7, <1>8, <1>10 DEF Out2
<1>. QED
  BY <1>6, <1>7, <1>11 DEF t, rest

Changed(lev, lev2, i, f) == lev = [lev2 EXCEPT ![i] = f]
OthersOf(list, i) == list = [k \in 1 .. PerPage - 1 |-> i * PerPage + k]

(* A page of the window is mapped to a free frame: its tables are new, and *)
(* all but the first go to the list.                                       *)
LEMMA MappedWindow2 ==
  ASSUME NEW avail, NEW lev1, NEW lev2, WindowsOK(avail, lev1, lev2),
         NEW i \in DOMAIN lev2, lev2[i] = None, NEW f \in avail,
         NEW lev, Changed(lev, lev2, i, f), NEW list, OthersOf(list, i)
  PROVE  LET t == L2LookupPhys(lev, i * PerPage)
         IN /\ WindowsOK(Taken(avail, f, 1), lev1, lev) /\ List2OK(list, lev)
            /\ t \in Tables2(lev) /\ t \notin Tables2(lev2)
            /\ Out2(lev, list) = Tables2(lev2) \cup {t}
<1> DEFINE t == L2LookupPhys(lev, i * PerPage)
           left == Taken(avail, f, 1)
<1>1. f \in Frames /\ f \in Nat /\ f # None /\ i \in 0 .. L2Pages - 1 /\ DOMAIN lev2 = 0 .. L2Pages - 1
  BY DEF WindowsOK, None
<1>2. left = avail \ {f}
  BY <1>1 DEF Taken
<1>3. /\ lev \in [0 .. L2Pages - 1 -> Int] /\ lev[i] = f
      /\ \A j \in 0 .. L2Pages - 1 : j # i => lev[j] = lev2[j]
      /\ i \notin Held(lev2) /\ Held(lev) = Held(lev2) \cup {i}
  BY <1>1 DEF WindowsOK, Held, Changed
<1> HIDE DEF left
<1>4. WindowsOK(left, lev1, lev)
  <2>1. \A j \in Held(lev2) : j # i /\ lev[j] = lev2[j] /\ lev2[j] \in Frames \ avail
    BY <1>1, <1>3 DEF WindowsOK, Held
  <2>2. left \subseteq Frames /\ lev1 \in [0 .. L1Tables - 1 -> Int]
    BY <1>2 DEF WindowsOK
  <2>3. \A j \in Held(lev) : lev[j] \in Frames \ left
    BY <1>1, <1>2, <1>3, <2>1
  <2>4. \A j, k \in Held(lev) : lev[j] = lev[k] => j = k
    <3>1. \A j, k \in Held(lev2) : lev2[j] = lev2[k] => j = k
      BY DEF WindowsOK
    <3>. QED
      BY <1>3, <2>1, <3>1
  <2>5. \A j \in Held(lev1) : Run(lev1[j]) \subseteq Frames \ left /\ f \notin Run(lev1[j])
    BY <1>2 DEF WindowsOK
  <2>6. \A j, k \in Held(lev1) : j # k => Run(lev1[j]) \cap Run(lev1[k]) = {}
    BY DEF WindowsOK
  <2>7. \A j \in Held(lev1), k \in Held(lev) : lev[k] \notin Run(lev1[j])
    <3>1. \A j \in Held(lev1), k \in Held(lev2) : lev2[k] \notin Run(lev1[j])
      BY DEF WindowsOK
    <3>. QED
      BY <1>3, <2>1, <2>5, <3>1
  <2>. QED
    BY <1>3, <2>2, <2>3, <2>4, <2>5, <2>6, <2>7 DEF WindowsOK
<1>5. ASSUME NEW q \in 0 .. PerPage - 1
      PROVE  /\ i * PerPage + q \in 0 .. L2Pages * PerPage - 1
             /\ (i * PerPage + q) \div PerPage = i
             /\ L2LookupPhys(lev, i * PerPage + q) = f * PerPage + q
             /\ f * PerPage + q \in Nat /\ (f * PerPage + q) \div PerPage = f
  <2>1. i * PerPage + q \in 0 .. L2Pages * PerPage - 1
    BY <1>1, Sizes, NumberBound
  <2>2. (i * PerPage + q) \div PerPage = i /\ (i * PerPage + q) % PerPage = q
    <3>1. i \in Nat
      BY <1>1
    <3>. QED
      BY <3>1, Sizes, Division, Zenon
  <2>0. f \in Nat
    BY <1>1
  <2>3. (f * PerPage + q) \div PerPage = f
    BY <2>0, Sizes, Division, Zenon
  <2>4. L2LookupPhys(lev, i * PerPage + q) = f * PerPage + q
    BY <1>3, <2>2 DEF L2LookupPhys
  <2>5. f * PerPage + q \in Nat
    <3>1. f * PerPage \in Nat
      BY <1>1, Sizes
    <3>. QED
      BY <3>1
  <2>. QED
    BY <2>1, <2>2, <2>3, <2>4, <2>5, Zenon
<1>6. list = [k \in 1 .. PerPage - 1 |-> i * PerPage + k]
  BY DEF OthersOf
<1>7. t = f * PerPage /\ t \in Nat /\ t \div PerPage = f
  <2>1. 0 \in 0 .. PerPage - 1 /\ i * PerPage + 0 = i * PerPage /\ f * PerPage + 0 = f * PerPage
    BY <1>1, Sizes
  <2>. QED
    BY <1>5, <2>1
<1>8. List2OK(list, lev)
  <2>1. list \in Seq(0 .. L2Pages * PerPage - 1) /\ Len(list) = PerPage - 1
    <3>1. PerPage - 1 \in Nat
      BY Sizes
    <3>2. \A k \in 1 .. PerPage - 1 : list[k] \in 0 .. L2Pages * PerPage - 1
      BY <1>5, <1>6
    <3>. QED
      BY <1>6, <3>1, <3>2
  <2>2. \A k \in 1 .. PerPage - 1 : list[k] \div PerPage = i
    BY <1>5, <1>6
  <2>3. \A k, l \in 1 .. PerPage - 1 : list[k] = list[l] => k = l
    <3>1. i * PerPage \in Nat
      BY <1>1, Sizes
    <3>. QED
      BY <1>6, <3>1
  <2>. QED
    BY <1>3, <2>1, <2>2, <2>3 DEF List2OK
<1>9. Listing2(list, lev) = {f * PerPage + k : k \in 1 .. PerPage - 1}
  <2>1. DOMAIN list = 1 .. PerPage - 1
    BY <1>6
  <2>2. \A k \in 1 .. PerPage - 1 : L2LookupPhys(lev, list[k]) = f * PerPage + k
    BY <1>5, <1>6
  <2>. QED
    BY <2>1, <2>2 DEF Listing2
<1>10. Tables2(lev) = Tables2(lev2) \cup {u \in Nat : u \div PerPage = f}
  <2>1. \A j \in Held(lev2) : lev[j] = lev2[j]
    BY <1>1, <1>3 DEF Held
  <2>. QED
    BY <1>3, <2>1 DEF Tables2
<1>11. \A u \in Tables2(lev2) : u \in Nat /\ u \div PerPage # f
  BY DEF Tables2, WindowsOK
<1>12. \A u \in Nat : u \div PerPage = f <=> \E k \in 0 .. PerPage - 1 : u = f * PerPage + k
  <2>1. ASSUME NEW u \in Nat, u \div PerPage = f PROVE \E k \in 0 .. PerPage - 1 : u = f * PerPage + k
    <3>1. u = f * PerPage + (u % PerPage) /\ u % PerPage \in 0 .. PerPage - 1
      BY <2>1, Sizes, DivisionParts
    <3>. QED
      BY <3>1
  <2>. QED
    BY <1>5, <2>1
<1>13. Out2(lev, list) = Tables2(lev2) \cup {t} /\ t \in Tables2(lev) /\ t \notin Tables2(lev2)
  <2>1. \A k \in 1 .. PerPage - 1 : f * PerPage + k # t /\ k \in 0 .. PerPage - 1 /\ f * PerPage + k \in Nat
    <3>1. \A n \in Nat : \A k \in 1 .. PerPage - 1 : n + k # n /\ k \in 0 .. PerPage - 1 /\ n + k \in Nat
      OBVIOUS
    <3>2. t \in Nat /\ f * PerPage = t
      BY <1>7
    <3>. QED
      BY <3>1, <3>2, Zenon
  <2>2. \A k \in 0 .. PerPage - 1 : k # 0 => k \in 1 .. PerPage - 1
    BY Sizes
  <2>3. f * PerPage + 0 = t
    BY <1>1, <1>7
  <2>4. {u \in Nat : u \div PerPage = f} = Listing2(list, lev) \cup {t}
    BY <1>7, <1>9, <1>12, <2>1, <2>2, <2>3
  <2>5. t \notin Listing2(list, lev)
    BY <1>9, <2>1
  <2>6. \A u \in Listing2(list, lev) : u \notin Tables2(lev2)
    BY <1>11, <2>4
  <2>. QED
    BY <1>7, <1>10, <1>11, <2>4, <2>5, <2>6 DEF Out2
<1>. QED
  BY <1>4, <1>8, <1>13 DEF left
-----------------------------------------------------------------------------
LEMMA ListOf ==
  ASSUME NEW n \in Nat, NEW S, NEW list \in [1 .. n -> S]
  PROVE  list \in Seq(S) /\ Len(list) = n
  OBVIOUS

(* pt_l1_alloc *)
LEMMA DistinctPlaces1 ==
  ASSUME NEW avail, NEW lev1, NEW lev2, WindowsOK(avail, lev1, lev2),
         NEW i \in Held(lev1), NEW j \in Held(lev1), lev1[i] = lev1[j]
  PROVE  i = j
<1>1. lev1[i] \in Run(lev1[i]) /\ lev1[j] \in Run(lev1[j])
  BY FrameInRun DEF WindowsOK, Held
<1>. QED
  BY <1>1 DEF WindowsOK

LEMMA TakenFromList1 ==
  ASSUME NEW avail, NEW lev1, NEW lev2, WindowsOK(avail, lev1, lev2),
         NEW list, List1OK(list, lev1), list # <<>>
  PROVE  LET p == L1LookupPhys(lev1, Head(list))
         IN /\ List1OK(Tail(list), lev1)
            /\ p \in Tables1(lev1) /\ p \notin Out1(lev1, list)
            /\ Out1(lev1, Tail(list)) = Out1(lev1, list) \cup {p}
<1> DEFINE rest == Tail(list)
           p == L1LookupPhys(lev1, Head(list))
<1>1. list \in Seq(0 .. L1Tables - 1)
  BY DEF List1OK
<1>2. /\ rest \in Seq(0 .. L1Tables - 1) /\ Len(rest) = Len(list) - 1 /\ Len(list) \in Nat \ {0}
      /\ DOMAIN list = 1 .. Len(list) /\ DOMAIN rest = 1 .. Len(list) - 1
      /\ Head(list) = list[1] /\ \A k \in 1 .. Len(list) - 1 : rest[k] = list[k + 1]
  BY <1>1, TailOf, Zenon
<1> HIDE DEF rest
<1>3. \A k \in 1 .. Len(list) : list[k] \in Held(lev1)
  BY DEF List1OK
<1>4. \A k, l \in 1 .. Len(list) : list[k] = list[l] => k = l
  BY DEF List1OK
<1>5. \A k \in 1 .. Len(list) - 1 : k + 1 \in 1 .. Len(list) /\ k + 1 # 1 /\ rest[k] = list[k + 1]
  BY <1>2
<1>6. List1OK(rest, lev1)
  <2>1. \A k \in 1 .. Len(rest) : rest[k] \in Held(lev1)
    BY <1>2, <1>3, <1>5, Zenon
  <2>2. \A k, l \in 1 .. Len(rest) : rest[k] = rest[l] => k = l
    <3>. SUFFICES ASSUME NEW k \in 1 .. Len(rest), NEW l \in 1 .. Len(rest), rest[k] = rest[l] PROVE k = l
      OBVIOUS
    <3>1. k + 1 = l + 1
      BY <1>2, <1>4, <1>5, Zenon
    <3>2. k \in Int /\ l \in Int
      BY <1>2
    <3>. QED
      BY <3>1, <3>2
  <2>. QED
    BY <1>2, <2>1, <2>2 DEF List1OK
<1>7. 1 \in 1 .. Len(list) /\ 1 \in DOMAIN list /\ p = lev1[list[1]]
  BY <1>2 DEF L1LookupPhys
<1>8. p \in Tables1(lev1) /\ p \in Listing1(list, lev1)
  BY <1>3, <1>7, Zenon DEF Tables1, Listing1, L1LookupPhys
<1>9. ASSUME NEW k \in 1 .. Len(list), lev1[list[k]] = p PROVE k = 1
  <2>1. list[k] = list[1]
    BY <1>3, <1>7, <1>9, DistinctPlaces1
  <2>. QED
    BY <1>4, <1>7, <2>1, Zenon
<1> HIDE DEF p
<1>10. Listing1(rest, lev1) = Listing1(list, lev1) \ {p}
  <2>1. ASSUME NEW u \in Listing1(rest, lev1) PROVE u \in Listing1(list, lev1) /\ u # p
    <3>1. PICK k \in 1 .. Len(list) - 1 : u = lev1[rest[k]]
      BY <1>2, Zenon DEF Listing1, L1LookupPhys
    <3>2. k + 1 \in 1 .. Len(list) /\ k + 1 # 1 /\ u = lev1[list[k + 1]]
      BY <1>5, <3>1, Zenon
    <3>. QED
      BY <1>2, <1>9, <3>2, Zenon DEF Listing1, L1LookupPhys
  <2>2. ASSUME NEW u \in Listing1(list, lev1), u # p PROVE u \in Listing1(rest, lev1)
    <3>1. PICK k \in 1 .. Len(list) : u = lev1[list[k]]
      BY <1>2, <2>2, Zenon DEF Listing1, L1LookupPhys
    <3>2. k # 1
      BY <1>7, <2>2, <3>1, Zenon
    <3>3. k - 1 \in 1 .. Len(list) - 1 /\ (k - 1) + 1 = k
      BY <1>2, <3>2
    <3>4. rest[k - 1] = list[k]
      BY <1>2, <3>3, Zenon
    <3>. QED
      BY <1>2, <3>1, <3>3, <3>4, Zenon DEF Listing1, L1LookupPhys
  <2>. QED
    BY <2>1, <2>2
<1>11. Out1(lev1, rest) = Out1(lev1, list) \cup {p} /\ p \notin Out1(lev1, list)
  BY <1>8, <1>10 DEF Out1
<1>. QED
  BY <1>6, <1>8, <1>11 DEF p, rest

(* A place of the top level window is mapped to free frames. *)
LEMMA MappedWindow1 ==
  ASSUME NEW avail, NEW lev1, NEW lev2, WindowsOK(avail, lev1, lev2),
         NEW i \in DOMAIN lev1, lev1[i] = None, NEW f \in avail, Run(f) \subseteq avail,
         NEW lev, Changed(lev, lev1, i, f)
  PROVE  /\ WindowsOK(Taken(avail, f, L1Frames), lev, lev2)
         /\ lev[i] = f /\ Tables1(lev) = Tables1(lev1) \cup {f} /\ f \notin Tables1(lev1)
<1> DEFINE left == Taken(avail, f, L1Frames)
<1>1. f \in Nat /\ f # None /\ i \in 0 .. L1Tables - 1 /\ DOMAIN lev1 = 0 .. L1Tables - 1 /\ Run(f) \subseteq Frames
  BY DEF WindowsOK, None
<1>2. left = avail \ Run(f)
  BY DEF Taken, Run
<1>3. /\ lev \in [0 .. L1Tables - 1 -> Int] /\ lev[i] = f
      /\ \A j \in 0 .. L1Tables - 1 : j # i => lev[j] = lev1[j]
      /\ i \notin Held(lev1) /\ Held(lev) = Held(lev1) \cup {i}
  BY <1>1 DEF WindowsOK, Held, Changed
<1> HIDE DEF left
<1>4. \A j \in Held(lev1) : j # i /\ lev[j] = lev1[j] /\ Run(lev1[j]) \subseteq Frames \ avail /\ lev1[j] \in Run(lev1[j])
  BY <1>1, <1>3, FrameInRun DEF WindowsOK, Held
<1>5. f \in Run(f)
  BY <1>1, FrameInRun
<1>6. \A j \in Held(lev1) : Run(lev1[j]) \cap Run(f) = {}
  BY <1>4
<1>7. WindowsOK(left, lev, lev2)
  <2>1. left \subseteq Frames /\ left \subseteq avail /\ lev2 \in [0 .. L2Pages - 1 -> Int]
    BY <1>2 DEF WindowsOK
  <2>2. \A j \in Held(lev2) : lev2[j] \in Frames \ avail
    BY DEF WindowsOK
  <2>3. \A j, k \in Held(lev2) : lev2[j] = lev2[k] => j = k
    BY DEF WindowsOK
  <2>4. \A j \in Held(lev) : Run(lev[j]) \subseteq Frames \ left
    <3>1. ASSUME NEW j \in Held(lev1) PROVE Run(lev[j]) \subseteq Frames \ left
      BY <1>4, <2>1, <3>1
    <3>2. Run(lev[i]) \subseteq Frames \ left
      BY <1>1, <1>2, <1>3
    <3>. QED
      BY <1>3, <3>1, <3>2
  <2>5. \A j, k \in Held(lev) : j # k => Run(lev[j]) \cap Run(lev[k]) = {}
    <3>1. \A j, k \in Held(lev1) : j # k => Run(lev1[j]) \cap Run(lev1[k]) = {}
      BY DEF WindowsOK
    <3>. QED
      BY <1>3, <1>4, <1>6, <3>1
  <2>6. \A j \in Held(lev), k \in Held(lev2) : lev2[k] \notin Run(lev[j])
    <3>1. \A j \in Held(lev1), k \in Held(lev2) : lev2[k] \notin Run(lev1[j])
      BY DEF WindowsOK
    <3>2. \A k \in Held(lev2) : lev2[k] \notin Run(f)
      BY <2>2
    <3>. QED
      BY <1>3, <1>4, <3>1, <3>2
  <2>. QED
    BY <1>3, <2>1, <2>2, <2>3, <2>4, <2>5, <2>6 DEF WindowsOK
<1>8. Tables1(lev) = Tables1(lev1) \cup {f}
  <2>1. \A u \in Tables1(lev) : u \in Tables1(lev1) \cup {f}
    BY <1>3, <1>4 DEF Tables1
  <2>2. \A u \in Tables1(lev1) : u \in Tables1(lev)
    BY <1>3, <1>4, Zenon DEF Tables1
  <2>3. f \in Tables1(lev)
    BY <1>3, Zenon DEF Tables1
  <2>. QED
    BY <2>1, <2>2, <2>3
<1>9. f \notin Tables1(lev1)
  BY <1>4, <1>5 DEF Tables1
<1>. QED
  BY <1>3, <1>7, <1>8, <1>9 DEF left
-----------------------------------------------------------------------------
(* The record of a call: its types, and its windows and lists. *)
Statuses == {"running", "panic", "abort", "rom", "wiped"}
Numbered == {g * PerPage + q : g \in Frames, q \in 0 .. PerPage - 1}
Good(s) ==
  /\ DOMAIN s = Fields
  /\ s.free \subseteq Frames
  /\ s.lev1 \in [0 .. L1Tables - 1 -> Frames \cup {None, Rom}]
  /\ s.lev2 \in [0 .. L2Pages - 1 -> Frames \cup {None, Rom}]
  /\ s.avail1 \in Seq(0 .. L1Tables - 1)
  /\ s.avail2 \in Seq(0 .. L2Pages * PerPage - 1)
  /\ s.ram1 \in [{Rom} \cup Frames -> [Top -> Entry1]]
  /\ s.ram2 \in [Numbered -> [0 .. Entries2 - 1 -> {0} \cup UserFrames]]
  /\ s.status \in Statuses
Sound(s) ==
  /\ WindowsOK(s.free, s.lev1, s.lev2)
  /\ List1OK(s.avail1, s.lev1)
  /\ List2OK(s.avail2, s.lev2)

LEMMA TablesNumbered ==
  ASSUME NEW avail, NEW lev1, NEW lev2, WindowsOK(avail, lev1, lev2)
  PROVE  Tables2(lev2) \subseteq Numbered /\ Tables1(lev1) \subseteq Frames
<1>1. ASSUME NEW t \in Tables2(lev2) PROVE t \in Numbered
  <2>1. t \in Nat /\ t \div PerPage \in Frames
    BY DEF Tables2, WindowsOK
  <2>2. t = (t \div PerPage) * PerPage + (t % PerPage) /\ t % PerPage \in 0 .. PerPage - 1
    BY <2>1, Sizes, DivisionParts
  <2>3. \E g \in Frames, q \in 0 .. PerPage - 1 : t = g * PerPage + q
    BY <2>1, <2>2, Zenon
  <2>. QED
    BY <2>3 DEF Numbered
<1>2. \A i \in Held(lev1) : lev1[i] \in Frames
  <2>1. ASSUME NEW i \in Held(lev1) PROVE lev1[i] \in Frames
    <3>1. lev1[i] \in Int /\ Run(lev1[i]) \subseteq Frames
      BY DEF WindowsOK, Held
    <3>. QED
      BY <3>1, FrameInRun
  <2>. QED
    BY <2>1
<1>. QED
  BY <1>1, <1>2 DEF Tables1

LEMMA NoTables == Unmapped1 \in [Top -> Entry1] /\ Unmapped2 \in [0 .. Entries2 - 1 -> {0} \cup UserFrames]
  BY DEF Unmapped1, Unmapped2, Entry1, Fault

(* pt_l2_alloc hands out a table that nobody had, cleared, and nobody else *)
(* notices.                                                                *)
HandsOut2(s, r) ==
  LET t == L2LookupPhys(r.lev2, r.table)
  IN /\ Sound(r)
     /\ r.lev1 = s.lev1 /\ r.avail1 = s.avail1 /\ r.ram1 = s.ram1
     /\ t \in Tables2(r.lev2) /\ t \notin Out2(s.lev2, s.avail2)
     /\ Out2(r.lev2, r.avail2) = Out2(s.lev2, s.avail2) \cup {t}
     /\ r.ram2 = [s.ram2 EXCEPT ![t] = Unmapped2]

LEMMA ZeroedHandsOut2 ==
  ASSUME NEW s, NEW q, Good(q), q.ram2 = s.ram2, q.status = "running" =>
           /\ Sound(q) /\ q.lev1 = s.lev1 /\ q.avail1 = s.avail1 /\ q.ram1 = s.ram1
           /\ LET t == L2LookupPhys(q.lev2, q.table)
              IN /\ t \in Tables2(q.lev2) /\ t \notin Out2(s.lev2, s.avail2)
                 /\ Out2(q.lev2, q.avail2) = Out2(s.lev2, s.avail2) \cup {t}
  PROVE  LET r == ZeroedL2(q) IN Good(r) /\ (r.status = "running" => HandsOut2(s, r))
<1> DEFINE r == ZeroedL2(q)
           t == L2LookupPhys(q.lev2, q.table)
<1>1. CASE q.status # "running"
  <2>1. r = q
    BY <1>1 DEF ZeroedL2
  <2>. QED
    BY <1>1, <2>1
<1>2. CASE q.status = "running"
  <2>1. r = [q EXCEPT !.ram2[t] = Unmapped2]
    BY <1>2 DEF ZeroedL2
  <2>2. /\ DOMAIN r = Fields /\ r.free = q.free /\ r.lev1 = q.lev1 /\ r.lev2 = q.lev2
        /\ r.avail1 = q.avail1 /\ r.avail2 = q.avail2 /\ r.ram1 = q.ram1 /\ r.status = q.status /\ r.table = q.table
        /\ r.ram2 = [q.ram2 EXCEPT ![t] = Unmapped2]
    BY <2>1 DEF Good, Fields
  <2> HIDE DEF r, t
  <2>3. r.ram2 \in [Numbered -> [0 .. Entries2 - 1 -> {0} \cup UserFrames]]
    <3>1. q.ram2 \in [Numbered -> [0 .. Entries2 - 1 -> {0} \cup UserFrames]]
      BY DEF Good
    <3>. QED
      BY <2>2, <3>1, NoTables
  <2>4. Good(r)
    BY <2>2, <2>3 DEF Good
  <2>5. HandsOut2(s, r)
    <3>1. Sound(r)
      BY <1>2, <2>2 DEF Sound
    <3>. QED
      BY <1>2, <2>2, <3>1 DEF HandsOut2, t
  <2>. QED
    BY <2>4, <2>5 DEF r
<1>. QED
  BY <1>1, <1>2

LEMMA AllocL2Does ==
  ASSUME NEW s, Good(s), Sound(s), s.status = "running", NEW r \in AllocL2(s)
  PROVE  Good(r) /\ (r.status = "running" => HandsOut2(s, r))
<1>1. PICK q \in IF s.avail2 # <<>> THEN {[s EXCEPT !.table = Head(s.avail2), !.avail2 = Tail(@)]} ELSE FreshL2(s) :
        r = ZeroedL2(q)
  BY DEF AllocL2
<1>2. CASE s.avail2 # <<>>
  <2>1. q = [s EXCEPT !.table = Head(s.avail2), !.avail2 = Tail(@)]
    BY <1>1, <1>2
  <2>2. /\ DOMAIN q = Fields /\ q.free = s.free /\ q.lev1 = s.lev1 /\ q.lev2 = s.lev2 /\ q.avail1 = s.avail1
        /\ q.ram1 = s.ram1 /\ q.ram2 = s.ram2 /\ q.status = s.status
        /\ q.table = Head(s.avail2) /\ q.avail2 = Tail(s.avail2)
    BY <2>1 DEF Good, Fields
  <2>3. /\ List2OK(q.avail2, s.lev2)
        /\ LET t == L2LookupPhys(s.lev2, q.table)
           IN /\ t \in Tables2(s.lev2) /\ t \notin Out2(s.lev2, s.avail2)
              /\ Out2(s.lev2, q.avail2) = Out2(s.lev2, s.avail2) \cup {t}
    BY <1>2, <2>2, TakenFromList2 DEF Sound
  <2>4. Good(q)
    <3>1. q.avail2 \in Seq(0 .. L2Pages * PerPage - 1)
      BY <2>3 DEF List2OK
    <3>. QED
      BY <2>2, <3>1 DEF Good
  <2>5. Sound(q)
    BY <2>2, <2>3 DEF Sound
  <2>. QED
    BY <1>1, <2>2, <2>3, <2>4, <2>5, ZeroedHandsOut2
<1>3. CASE s.avail2 = <<>> /\ {i \in DOMAIN s.lev2 : s.lev2[i] = None} = {}
  <2>1. q = [s EXCEPT !.status = "panic"]
    BY <1>1, <1>3 DEF FreshL2
  <2>2. Good(q) /\ q.ram2 = s.ram2 /\ q.status = "panic"
    BY <2>1 DEF Good, Fields, Statuses
  <2>. QED
    BY <1>1, <2>2, ZeroedHandsOut2
<1>4. CASE s.avail2 = <<>> /\ {i \in DOMAIN s.lev2 : s.lev2[i] = None} # {}
  <2> DEFINE i == Least({j \in DOMAIN s.lev2 : s.lev2[j] = None})
  <2>1. PICK f \in GetPages(s.free, 1, 1) : q = MapL2(s, i, f)
    BY <1>1, <1>4 DEF FreshL2
  <2>2. i \in DOMAIN s.lev2 /\ s.lev2[i] = None /\ i \in 0 .. L2Pages - 1
    <3>0. DOMAIN s.lev2 = 0 .. L2Pages - 1
      BY DEF Good
    <3>1. {j \in DOMAIN s.lev2 : s.lev2[j] = None} \in SUBSET Nat
      BY <3>0
    <3>2. i \in {j \in DOMAIN s.lev2 : s.lev2[j] = None}
      BY <1>4, <3>1, LeastIs, Zenon
    <3>. QED
      BY <3>2 DEF Good
  <2> HIDE DEF i
  <2> DEFINE list == [k \in 1 .. PerPage - 1 |-> i * PerPage + k]
  <2>3. /\ DOMAIN q = Fields /\ q.free = Taken(s.free, f, 1) /\ q.lev1 = s.lev1 /\ q.lev2 = [s.lev2 EXCEPT ![i] = f]
        /\ q.avail1 = s.avail1 /\ q.avail2 = list /\ q.ram1 = s.ram1 /\ q.ram2 = s.ram2
        /\ q.table = i * PerPage /\ q.status = IF f = Rom THEN "rom" ELSE s.status
    BY <2>1 DEF MapL2, Good, Fields
  <2> HIDE DEF list
  <2>4. f = Rom \/ f \in s.free
    BY GetPagesFree
  <2>5. list \in Seq(0 .. L2Pages * PerPage - 1)
    <3>1. PerPage - 1 \in Nat
      BY Sizes
    <3>2. \A k \in 1 .. PerPage - 1 : k \in 0 .. PerPage - 1
      OBVIOUS
    <3>3. \A k \in 1 .. PerPage - 1 : i * PerPage + k \in 0 .. L2Pages * PerPage - 1
      BY <2>2, <3>2, Sizes, NumberBound
    <3>4. list = [k \in 1 .. PerPage - 1 |-> i * PerPage + k]
      BY DEF list
    <3>5. list \in [1 .. PerPage - 1 -> 0 .. L2Pages * PerPage - 1]
      BY <3>3, <3>4
    <3>. QED
      BY <3>1, <3>5, ListOf, Zenon
  <2>6. Good(q)
    <3>1. q.lev2 \in [0 .. L2Pages - 1 -> Frames \cup {None, Rom}]
      BY <2>2, <2>3, <2>4 DEF Good
    <3>2. q.free \subseteq Frames /\ q.status \in Statuses
      BY <2>3 DEF Good, Taken, Statuses
    <3>. QED
      BY <2>3, <2>5, <3>1, <3>2 DEF Good
  <2>7. ASSUME q.status = "running"
        PROVE  /\ Sound(q)
               /\ LET t == L2LookupPhys(q.lev2, q.table)
                  IN /\ t \in Tables2(q.lev2) /\ t \notin Out2(s.lev2, s.avail2)
                     /\ Out2(q.lev2, q.avail2) = Out2(s.lev2, s.avail2) \cup {t}
    <3>1. f \in s.free
      BY <2>3, <2>4, <2>7
    <3>2. WindowsOK(s.free, s.lev1, s.lev2) /\ List1OK(s.avail1, s.lev1)
      BY DEF Sound
    <3>3. LET t == L2LookupPhys(q.lev2, i * PerPage)
          IN /\ WindowsOK(Taken(s.free, f, 1), s.lev1, q.lev2) /\ List2OK(list, q.lev2)
             /\ t \in Tables2(q.lev2) /\ t \notin Tables2(s.lev2)
             /\ Out2(q.lev2, list) = Tables2(s.lev2) \cup {t}
      <4>1. Changed(q.lev2, s.lev2, i, f) /\ OthersOf(list, i)
        BY <2>3 DEF list, Changed, OthersOf
      <4>. QED
        BY <2>2, <3>1, <3>2, <4>1, MappedWindow2
    <3>4. Out2(s.lev2, s.avail2) = Tables2(s.lev2)
      BY <1>4 DEF Out2, Listing2
    <3>5. Sound(q)
      BY <2>3, <3>2, <3>3 DEF Sound
    <3>. QED
      BY <2>3, <3>3, <3>4, <3>5
  <2>8. q.status = "running" => q.lev1 = s.lev1 /\ q.avail1 = s.avail1 /\ q.ram1 = s.ram1
    BY <2>3
  <2>. QED
    BY <1>1, <2>3, <2>6, <2>7, <2>8, ZeroedHandsOut2
<1>. QED
  BY <1>2, <1>3, <1>4
(* pt_l1_alloc hands out a table that nobody had, cleared. *)
HandsOut1(s, r) ==
  LET p == L1LookupPhys(r.lev1, r.table)
  IN /\ Sound(r)
     /\ r.lev2 = s.lev2 /\ r.avail2 = s.avail2 /\ r.ram2 = s.ram2
     /\ p \in Tables1(r.lev1) /\ p \notin Out1(s.lev1, s.avail1)
     /\ Out1(r.lev1, r.avail1) = Out1(s.lev1, s.avail1) \cup {p}
     /\ r.ram1 = [s.ram1 EXCEPT ![p] = Unmapped1]

LEMMA ZeroedHandsOut1 ==
  ASSUME NEW s, NEW q, Good(q), q.ram1 = s.ram1, q.status = "running" =>
           /\ Sound(q) /\ q.lev2 = s.lev2 /\ q.avail2 = s.avail2 /\ q.ram2 = s.ram2
           /\ LET p == L1LookupPhys(q.lev1, q.table)
              IN /\ p \in Tables1(q.lev1) /\ p \notin Out1(s.lev1, s.avail1)
                 /\ Out1(q.lev1, q.avail1) = Out1(s.lev1, s.avail1) \cup {p}
  PROVE  LET r == ZeroedL1(q) IN Good(r) /\ (r.status = "running" => HandsOut1(s, r))
<1> DEFINE r == ZeroedL1(q)
           p == L1LookupPhys(q.lev1, q.table)
<1>1. CASE q.status # "running"
  <2>1. r = q
    BY <1>1 DEF ZeroedL1
  <2>. QED
    BY <1>1, <2>1
<1>2. CASE q.status = "running"
  <2>1. r = [q EXCEPT !.ram1[p] = Unmapped1]
    BY <1>2 DEF ZeroedL1
  <2>2. /\ DOMAIN r = Fields /\ r.free = q.free /\ r.lev1 = q.lev1 /\ r.lev2 = q.lev2
        /\ r.avail1 = q.avail1 /\ r.avail2 = q.avail2 /\ r.ram2 = q.ram2 /\ r.status = q.status /\ r.table = q.table
        /\ r.ram1 = [q.ram1 EXCEPT ![p] = Unmapped1]
    BY <2>1 DEF Good, Fields
  <2> HIDE DEF r, p
  <2>3. r.ram1 \in [{Rom} \cup Frames -> [Top -> Entry1]]
    <3>1. q.ram1 \in [{Rom} \cup Frames -> [Top -> Entry1]]
      BY DEF Good
    <3>. QED
      BY <2>2, <3>1, NoTables
  <2>4. Good(r)
    BY <2>2, <2>3 DEF Good
  <2>5. HandsOut1(s, r)
    <3>1. Sound(r)
      BY <1>2, <2>2 DEF Sound
    <3>. QED
      BY <1>2, <2>2, <3>1 DEF HandsOut1, p
  <2>. QED
    BY <2>4, <2>5 DEF r
<1>. QED
  BY <1>1, <1>2

LEMMA AllocL1Does ==
  ASSUME NEW s, Good(s), Sound(s), s.status = "running", NEW r \in AllocL1(s)
  PROVE  Good(r) /\ (r.status = "running" => HandsOut1(s, r))
<1>1. PICK q \in IF s.avail1 # <<>> THEN {[s EXCEPT !.table = Head(s.avail1), !.avail1 = Tail(@)]} ELSE FreshL1(s) :
        r = ZeroedL1(q)
  BY DEF AllocL1
<1>2. CASE s.avail1 # <<>>
  <2>1. q = [s EXCEPT !.table = Head(s.avail1), !.avail1 = Tail(@)]
    BY <1>1, <1>2
  <2>2. /\ DOMAIN q = Fields /\ q.free = s.free /\ q.lev1 = s.lev1 /\ q.lev2 = s.lev2 /\ q.avail2 = s.avail2
        /\ q.ram1 = s.ram1 /\ q.ram2 = s.ram2 /\ q.status = s.status
        /\ q.table = Head(s.avail1) /\ q.avail1 = Tail(s.avail1)
    BY <2>1 DEF Good, Fields
  <2>3. /\ List1OK(q.avail1, s.lev1)
        /\ LET p == L1LookupPhys(s.lev1, q.table)
           IN /\ p \in Tables1(s.lev1) /\ p \notin Out1(s.lev1, s.avail1)
              /\ Out1(s.lev1, q.avail1) = Out1(s.lev1, s.avail1) \cup {p}
    BY <1>2, <2>2, TakenFromList1 DEF Sound
  <2>4. Good(q)
    <3>1. q.avail1 \in Seq(0 .. L1Tables - 1)
      BY <2>3 DEF List1OK
    <3>. QED
      BY <2>2, <3>1 DEF Good
  <2>5. Sound(q)
    BY <2>2, <2>3 DEF Sound
  <2>. QED
    BY <1>1, <2>2, <2>3, <2>4, <2>5, ZeroedHandsOut1
<1>3. CASE s.avail1 = <<>> /\ {i \in DOMAIN s.lev1 : s.lev1[i] = None} = {}
  <2>1. q = [s EXCEPT !.status = "panic"]
    BY <1>1, <1>3 DEF FreshL1
  <2>2. Good(q) /\ q.ram1 = s.ram1 /\ q.status = "panic"
    BY <2>1 DEF Good, Fields, Statuses
  <2>. QED
    BY <1>1, <2>2, ZeroedHandsOut1
<1>4. CASE s.avail1 = <<>> /\ {i \in DOMAIN s.lev1 : s.lev1[i] = None} # {}
  <2> DEFINE i == Least({j \in DOMAIN s.lev1 : s.lev1[j] = None})
  <2>1. PICK f \in GetPages(s.free, L1Frames, L1Align) : q = MapL1(s, i, f)
    BY <1>1, <1>4 DEF FreshL1
  <2>2. i \in DOMAIN s.lev1 /\ s.lev1[i] = None /\ i \in 0 .. L1Tables - 1
    <3>0. DOMAIN s.lev1 = 0 .. L1Tables - 1
      BY DEF Good
    <3>1. {j \in DOMAIN s.lev1 : s.lev1[j] = None} \in SUBSET Nat
      BY <3>0
    <3>2. i \in {j \in DOMAIN s.lev1 : s.lev1[j] = None}
      BY <1>4, <3>1, LeastIs, Zenon
    <3>. QED
      BY <3>2 DEF Good
  <2> HIDE DEF i
  <2>3. /\ DOMAIN q = Fields /\ q.free = Taken(s.free, f, L1Frames) /\ q.lev2 = s.lev2
        /\ q.lev1 = [s.lev1 EXCEPT ![i] = f]
        /\ q.avail1 = s.avail1 /\ q.avail2 = s.avail2 /\ q.ram1 = s.ram1 /\ q.ram2 = s.ram2
        /\ q.table = i /\ q.status = IF f = Rom THEN "rom" ELSE s.status
    BY <2>1 DEF MapL1, Good, Fields
  <2>4. f = Rom \/ (f \in s.free /\ Run(f) \subseteq s.free)
    BY GetPagesFree DEF Run
  <2>5. Good(q)
    <3>1. q.lev1 \in [0 .. L1Tables - 1 -> Frames \cup {None, Rom}]
      BY <2>2, <2>3, <2>4 DEF Good
    <3>2. q.free \subseteq Frames /\ q.status \in Statuses
      BY <2>3 DEF Good, Taken, Statuses
    <3>. QED
      BY <2>3, <3>1, <3>2 DEF Good
  <2>6. ASSUME q.status = "running"
        PROVE  /\ Sound(q)
               /\ LET p == L1LookupPhys(q.lev1, q.table)
                  IN /\ p \in Tables1(q.lev1) /\ p \notin Out1(s.lev1, s.avail1)
                     /\ Out1(q.lev1, q.avail1) = Out1(s.lev1, s.avail1) \cup {p}
    <3>1. f \in s.free /\ Run(f) \subseteq s.free
      BY <2>3, <2>4, <2>6
    <3>2. WindowsOK(s.free, s.lev1, s.lev2) /\ List2OK(s.avail2, s.lev2)
      BY DEF Sound
    <3>3. /\ WindowsOK(Taken(s.free, f, L1Frames), q.lev1, s.lev2)
          /\ q.lev1[i] = f /\ Tables1(q.lev1) = Tables1(s.lev1) \cup {f} /\ f \notin Tables1(s.lev1)
      <4>1. Changed(q.lev1, s.lev1, i, f)
        BY <2>3 DEF Changed
      <4>. QED
        BY <2>2, <3>1, <3>2, <4>1, MappedWindow1
    <3>4. /\ Out1(s.lev1, s.avail1) = Tables1(s.lev1) /\ Out1(q.lev1, q.avail1) = Tables1(q.lev1)
          /\ List1OK(q.avail1, q.lev1)
      BY <1>4, <2>3 DEF Out1, Listing1, List1OK
    <3>5. Sound(q)
      BY <2>3, <3>2, <3>3, <3>4 DEF Sound
    <3>. QED
      BY <2>3, <3>3, <3>4, <3>5 DEF L1LookupPhys
  <2>7. q.status = "running" => q.lev2 = s.lev2 /\ q.avail2 = s.avail2 /\ q.ram2 = s.ram2
    BY <2>3
  <2>. QED
    BY <1>1, <2>3, <2>5, <2>6, <2>7, ZeroedHandsOut1
<1>. QED
  BY <1>2, <1>3, <1>4
-----------------------------------------------------------------------------
(* The second level tables entered in the top level tables P, and what     *)
(* virt_to_phys reads in the tables, without its checks of the windows.    *)
EnteredIn(r1, P) == {t \in Nat : OfWindow(Coarse(t)) /\ \E p \in P, e \in Top : r1[p][e] = Coarse(t)}
AnswerIn(r1, r2, p, v) ==
  LET e == r1[p][v \div Entries2]
  IN IF OfWindow(e) THEN r2[e.base][v % Entries2]
     ELSE IF e.key = 0 THEN 0
     ELSE IF e.key = 1 THEN Panic ELSE (e.base * Entries2) + (v % Entries2)
Answers(r1, r2, p) == [v \in Pages |-> AnswerIn(r1, r2, p, v)]

(* While the kernel runs: the tables that are out of their windows' lists  *)
(* are those in use, those entered in them, each once, and those given to  *)
(* callers; and they say what was asked for.                               *)
Owned(s, m, given) ==
  /\ Sound(s)
  /\ DOMAIN m = Out1(s.lev1, s.avail1)
  /\ EnteredIn(s.ram1, DOMAIN m) \cup given = Out2(s.lev2, s.avail2)
  /\ EnteredIn(s.ram1, DOMAIN m) \cap given = {}
  /\ \A p, q \in DOMAIN m : \A d, e \in Top :
       OfWindow(s.ram1[p][d]) /\ s.ram1[p][d] = s.ram1[q][e] => p = q /\ d = e
  /\ \A p \in DOMAIN m : m[p] = Answers(s.ram1, s.ram2, p)

LEMMA EntryIs ==
  /\ \A x \in Entry1 : x.key \in 0 .. 2 /\ x.base \in Nat /\ (x.key = 1 => x = Coarse(x.base))
  /\ \A t \in Nat : Coarse(t) \in Entry1 /\ Coarse(t).key = 1 /\ Coarse(t).base = t
  /\ Fault \in Entry1 /\ Fault.key = 0
  /\ \A x : OfWindow(x) => x.key = 1
  BY DEF Entry1, Coarse, Fault, OfWindow

(* The tables of a window are not those in the kernel's image, which no    *)
(* page of the window is mapped to.                                        *)
LEMMA NumberedOfWindow == ASSUME NEW t \in Numbered PROVE t \in Nat /\ OfWindow(Coarse(t))
<1>1. PICK g \in Frames, q \in 0 .. PerPage - 1 : t = g * PerPage + q
  BY DEF Numbered
<1>2. g \in Nat /\ (g * PerPage + q) \div PerPage = g
  BY Sizes, Division
<1>3. g * PerPage \in Nat
  BY <1>2, Sizes
<1>4. t \in Nat /\ t \div PerPage \in Frames
  BY <1>1, <1>2, <1>3
<1>. QED
  BY <1>4, EntryIs DEF OfWindow

LEMMA StaticUnseen ==
  ASSUME NEW avail, NEW lev1, NEW lev2, WindowsOK(avail, lev1, lev2), NEW x, x.key = 1, ~OfWindow(x)
  PROVE  L2LookupVirt(lev2, x.base) = None
<1>1. PICK e \in DOMAIN Statics : x.base = Statics[e]
  BY DEF OfWindow
<1>2. Statics[e] \in Nat /\ Statics[e] \div PerPage \notin Frames
  OBVIOUS
<1>3. (Statics[e] \div PerPage) # None
  BY <1>2, Sizes, DivisionParts DEF None
<1>4. {i \in DOMAIN lev2 : lev2[i] = Statics[e] \div PerPage} = {}
  BY <1>2, <1>3 DEF WindowsOK, Held
<1>. QED
  BY <1>1, <1>4 DEF L2LookupVirt

LEMMA PageInTable ==
  ASSUME NEW v \in Pages
  PROVE  v \in Nat /\ v \div Entries2 \in Top /\ v % Entries2 \in 0 .. Entries2 - 1
<1>1. v \in 0 .. Entries1 * Entries2 - 1 /\ Entries1 \in Nat
  BY DEF Pages
<1>2. v \in Nat
  BY <1>1
<1>3. v \div Entries2 \in 0 .. Entries1 - 1
  BY <1>1, Sizes, DivisionBound
<1>. QED
  BY <1>2, <1>3, Sizes, DivisionParts DEF Top

LEMMA SamePage ==
  ASSUME NEW v \in Pages, NEW w \in Pages, v \div Entries2 = w \div Entries2, v % Entries2 = w % Entries2
  PROVE  v = w
<1>1. v = (v \div Entries2) * Entries2 + (v % Entries2) /\ w = (w \div Entries2) * Entries2 + (w % Entries2)
  BY PageInTable, Sizes, DivisionParts
<1>. QED
  BY <1>1, Zenon

(* Two memories that agree on a table and on what is entered in it give    *)
(* the same answers.                                                       *)
Agree(r1, r2, q1, q2, p) ==
  q1[p] = r1[p] /\ \A e \in Top : OfWindow(r1[p][e]) => q2[r1[p][e].base] = r2[r1[p][e].base]

LEMMA SameAnswers ==
  ASSUME NEW r1, NEW r2, NEW q1, NEW q2, NEW p, Agree(r1, r2, q1, q2, p)
  PROVE  Answers(q1, q2, p) = Answers(r1, r2, p)
<1>1. ASSUME NEW v \in Pages PROVE AnswerIn(q1, q2, p, v) = AnswerIn(r1, r2, p, v)
  <2>1. v \div Entries2 \in Top
    BY PageInTable
  <2>. QED
    BY <2>1, Zenon DEF AnswerIn, Agree
<1>. QED
  BY <1>1 DEF Answers

(* Types of what Owned speaks of *)
LEMMA OwnedTypes ==
  ASSUME NEW s, Good(s), NEW m, NEW given, Owned(s, m, given)
  PROVE  /\ DOMAIN m \subseteq Frames /\ given \subseteq Numbered
         /\ \A p \in DOMAIN m : s.ram1[p] \in [Top -> Entry1]
         /\ \A p \in DOMAIN m : \A e \in Top : OfWindow(s.ram1[p][e]) =>
              LET t == s.ram1[p][e].base
              IN /\ s.ram1[p][e] = Coarse(t) /\ t \in Nat
                 /\ t \in EnteredIn(s.ram1, DOMAIN m) /\ t \in Out2(s.lev2, s.avail2) /\ t \notin given
                 /\ t \in Tables2(s.lev2) /\ t \in Numbered
<1>1. WindowsOK(s.free, s.lev1, s.lev2)
  BY DEF Owned, Sound
<1>2. Tables2(s.lev2) \subseteq Numbered /\ Tables1(s.lev1) \subseteq Frames
  BY <1>1, TablesNumbered
<1>3. DOMAIN m \subseteq Frames /\ Out2(s.lev2, s.avail2) \subseteq Tables2(s.lev2)
  BY <1>2 DEF Owned, Out1, Out2
<1>4. given \subseteq Numbered
  BY <1>2, <1>3 DEF Owned
<1>5. \A p \in DOMAIN m : s.ram1[p] \in [Top -> Entry1]
  BY <1>3 DEF Good
<1>6. ASSUME NEW p \in DOMAIN m, NEW e \in Top, OfWindow(s.ram1[p][e])
      PROVE  LET t == s.ram1[p][e].base
             IN /\ s.ram1[p][e] = Coarse(t) /\ t \in Nat
                /\ t \in EnteredIn(s.ram1, DOMAIN m) /\ t \in Out2(s.lev2, s.avail2) /\ t \notin given
                /\ t \in Tables2(s.lev2) /\ t \in Numbered
  <2> DEFINE t == s.ram1[p][e].base
  <2>1. s.ram1[p][e] \in Entry1
    BY <1>5
  <2>2. s.ram1[p][e] = Coarse(t) /\ t \in Nat
    BY <1>6, <2>1, EntryIs
  <2> HIDE DEF t
  <2>3. t \in EnteredIn(s.ram1, DOMAIN m)
    BY <1>6, <2>2 DEF EnteredIn
  <2>4. t \in Out2(s.lev2, s.avail2) /\ t \notin given
    BY <2>3 DEF Owned
  <2>. QED
    BY <1>2, <1>3, <2>2, <2>3, <2>4 DEF t
<1>. QED
  BY <1>3, <1>4, <1>5, <1>6

(* pt_l2_alloc for a caller: the table is given to it. *)
LEMMA GivesTable ==
  ASSUME NEW s, Good(s), NEW m, NEW given, Owned(s, m, given), NEW r, HandsOut2(s, r),
         NEW t, t = L2LookupPhys(r.lev2, r.table)
  PROVE  Owned(r, m, given \cup {t}) /\ t \notin EnteredIn(s.ram1, DOMAIN m) \cup given
<1>1. /\ Sound(r) /\ r.lev1 = s.lev1 /\ r.avail1 = s.avail1 /\ r.ram1 = s.ram1
      /\ t \notin Out2(s.lev2, s.avail2)
      /\ Out2(r.lev2, r.avail2) = Out2(s.lev2, s.avail2) \cup {t}
      /\ r.ram2 = [s.ram2 EXCEPT ![t] = Unmapped2]
  BY DEF HandsOut2
<1>2. t \notin EnteredIn(s.ram1, DOMAIN m) /\ t \notin given
  BY <1>1 DEF Owned
<1>3. ASSUME NEW p \in DOMAIN m PROVE m[p] = Answers(r.ram1, r.ram2, p)
  <2>1. \A e \in Top : OfWindow(s.ram1[p][e]) => s.ram1[p][e].base # t
    BY <1>2, OwnedTypes
  <2>2. \A u : u # t => r.ram2[u] = s.ram2[u]
    BY <1>1
  <2>3. \A e \in Top : OfWindow(s.ram1[p][e]) => r.ram2[s.ram1[p][e].base] = s.ram2[s.ram1[p][e].base]
    BY <2>1, <2>2, Zenon
  <2>4. Answers(r.ram1, r.ram2, p) = Answers(s.ram1, s.ram2, p)
    <3>1. Agree(s.ram1, s.ram2, r.ram1, r.ram2, p)
      BY <1>1, <2>3, Zenon DEF Agree
    <3>. QED
      BY <3>1, SameAnswers
  <2>. QED
    BY <2>4 DEF Owned
<1>. QED
  BY <1>1, <1>2, <1>3 DEF Owned

(* pt_add_mapping enters a table that was given to it in a free entry. *)
LEMMA EntersTable ==
  ASSUME NEW s, Good(s), NEW m, NEW given, NEW t, t \notin given, Owned(s, m, given \cup {t}),
         NEW p \in DOMAIN m, NEW e \in Top, s.ram1[p][e].key = 0, s.ram2[t] = Unmapped2,
         NEW r, r.free = s.free, r.lev1 = s.lev1, r.lev2 = s.lev2, r.avail1 = s.avail1, r.avail2 = s.avail2,
         r.ram2 = s.ram2, r.ram1 = [s.ram1 EXCEPT ![p][e] = Coarse(t)]
  PROVE  Owned(r, m, given)
<1>1. /\ DOMAIN m \subseteq Frames /\ given \cup {t} \subseteq Numbered
      /\ \A q \in DOMAIN m : s.ram1[q] \in [Top -> Entry1]
  BY OwnedTypes
<1>2. t \in Nat /\ p \in DOMAIN s.ram1 /\ OfWindow(Coarse(t))
  <2>1. t \in Nat /\ OfWindow(Coarse(t))
    BY <1>1, NumberedOfWindow
  <2>2. DOMAIN s.ram1 = {Rom} \cup Frames
    BY DEF Good
  <2>. QED
    BY <1>1, <2>1, <2>2
<1>3. /\ r.ram1[p] = [s.ram1[p] EXCEPT ![e] = Coarse(t)]
      /\ \A q : q # p => r.ram1[q] = s.ram1[q]
  BY <1>2
<1>4. /\ r.ram1[p][e] = Coarse(t) /\ \A d \in Top : d # e => r.ram1[p][d] = s.ram1[p][d]
  BY <1>1, <1>3
<1>5. /\ t \notin EnteredIn(s.ram1, DOMAIN m)
      /\ EnteredIn(s.ram1, DOMAIN m) \cup {t} \cup given = Out2(s.lev2, s.avail2)
      /\ EnteredIn(s.ram1, DOMAIN m) \cap given = {}
  BY DEF Owned
<1>6. EnteredIn(r.ram1, DOMAIN m) = EnteredIn(s.ram1, DOMAIN m) \cup {t}
  <2>1. ASSUME NEW u \in EnteredIn(r.ram1, DOMAIN m), u # t PROVE u \in EnteredIn(s.ram1, DOMAIN m)
    <3>1. PICK q \in DOMAIN m, d \in Top : r.ram1[q][d] = Coarse(u)
      BY DEF EnteredIn
    <3>2. u \in Nat /\ Coarse(u) # Coarse(t) /\ OfWindow(Coarse(u))
      BY <1>2, <2>1, EntryIs DEF EnteredIn
    <3>3. s.ram1[q][d] = Coarse(u)
      BY <1>3, <1>4, <3>1, <3>2, Zenon
    <3>. QED
      BY <3>2, <3>3 DEF EnteredIn
  <2>2. ASSUME NEW u \in EnteredIn(s.ram1, DOMAIN m) PROVE u \in EnteredIn(r.ram1, DOMAIN m)
    <3>1. PICK q \in DOMAIN m, d \in Top : s.ram1[q][d] = Coarse(u)
      BY DEF EnteredIn
    <3>2. u \in Nat /\ Coarse(u).key = 1 /\ OfWindow(Coarse(u))
      BY EntryIs DEF EnteredIn
    <3>3. r.ram1[q][d] = Coarse(u)
      BY <1>3, <1>4, <3>1, <3>2
    <3>. QED
      BY <3>2, <3>3 DEF EnteredIn
  <2>3. t \in EnteredIn(r.ram1, DOMAIN m)
    BY <1>2, <1>4 DEF EnteredIn
  <2>. QED
    BY <2>1, <2>2, <2>3
<1>7. ASSUME NEW q \in DOMAIN m, NEW d \in Top, OfWindow(s.ram1[q][d])
      PROVE  s.ram1[q][d] # Coarse(t)
  BY <1>2, <1>5 DEF EnteredIn
<1>8. ASSUME NEW q \in DOMAIN m, NEW q2 \in DOMAIN m, NEW d \in Top, NEW d2 \in Top,
             OfWindow(r.ram1[q][d]), r.ram1[q][d] = r.ram1[q2][d2]
      PROVE  q = q2 /\ d = d2
  <2>1. \A x \in DOMAIN m, y \in Top : (x = p /\ y = e) \/ r.ram1[x][y] = s.ram1[x][y]
    BY <1>3, <1>4, Zenon
  <2>2. \A x, x2 \in DOMAIN m : \A y, y2 \in Top :
          OfWindow(s.ram1[x][y]) /\ s.ram1[x][y] = s.ram1[x2][y2] => x = x2 /\ y = y2
    BY DEF Owned
  <2>3. OfWindow(Coarse(t))
    BY <1>2
  <2>4. CASE q = p /\ d = e
    <3>1. r.ram1[q2][d2] = Coarse(t)
      BY <1>4, <1>8, <2>4, Zenon
    <3>2. r.ram1[q2][d2] = s.ram1[q2][d2] => FALSE
      BY <1>7, <2>3, <3>1
    <3>. QED
      BY <2>1, <2>4, <3>2, Zenon
  <2>5. CASE ~(q = p /\ d = e)
    <3>1. r.ram1[q][d] = s.ram1[q][d] /\ s.ram1[q][d] # Coarse(t)
      BY <1>7, <1>8, <2>1, <2>5
    <3>2. r.ram1[q2][d2] = s.ram1[q2][d2]
      BY <1>4, <1>8, <2>1, <3>1, Zenon
    <3>. QED
      BY <1>8, <2>2, <3>1, <3>2
  <2>. QED
    BY <2>4, <2>5
<1>9. ASSUME NEW q \in DOMAIN m PROVE m[q] = Answers(r.ram1, r.ram2, q)
  <2>1. m[q] = Answers(s.ram1, s.ram2, q)
    BY DEF Owned
  <2>2. CASE q # p
    <3>1. Answers(r.ram1, r.ram2, q) = Answers(s.ram1, s.ram2, q)
      <4>1. Agree(s.ram1, s.ram2, r.ram1, r.ram2, q)
        BY <1>3, <2>2, Zenon DEF Agree
      <4>. QED
        BY <4>1, SameAnswers
    <3>. QED
      BY <2>1, <3>1
  <2>3. CASE q = p
    <3>1. ASSUME NEW v \in Pages PROVE AnswerIn(r.ram1, r.ram2, p, v) = AnswerIn(s.ram1, s.ram2, p, v)
      <4>1. v \div Entries2 \in Top /\ v % Entries2 \in 0 .. Entries2 - 1
        BY PageInTable
      <4>2. CASE v \div Entries2 # e
        BY <1>4, <4>1, <4>2 DEF AnswerIn
      <4>3. CASE v \div Entries2 = e
        <5>1. AnswerIn(s.ram1, s.ram2, p, v) = 0
          BY <4>3, EntryIs DEF AnswerIn
        <5>2. OfWindow(Coarse(t)) /\ Coarse(t).key = 1 /\ Coarse(t).base = t
          BY <1>2, EntryIs
        <5>3. AnswerIn(r.ram1, r.ram2, p, v) = s.ram2[t][v % Entries2]
          BY <1>4, <4>3, <5>2 DEF AnswerIn
        <5>4. s.ram2[t][v % Entries2] = 0
          BY <4>1 DEF Unmapped2
        <5>. QED
          BY <5>1, <5>3, <5>4
      <4>. QED
        BY <4>2, <4>3
    <3>. QED
      BY <2>1, <2>3, <3>1 DEF Answers
  <2>. QED
    BY <2>2, <2>3
<1>10. Sound(r) /\ DOMAIN m = Out1(r.lev1, r.avail1) /\ Out2(r.lev2, r.avail2) = Out2(s.lev2, s.avail2)
  BY DEF Owned, Sound
<1>11. /\ EnteredIn(r.ram1, DOMAIN m) \cup given = Out2(r.lev2, r.avail2)
       /\ EnteredIn(r.ram1, DOMAIN m) \cap given = {}
  BY <1>5, <1>6, <1>10
<1>12. \A q, q2 \in DOMAIN m : \A d, d2 \in Top :
         OfWindow(r.ram1[q][d]) /\ r.ram1[q][d] = r.ram1[q2][d2] => q = q2 /\ d = d2
  BY <1>8
<1>. QED
  BY <1>9, <1>10, <1>11, <1>12, Zenon DEF Owned

(* pt_add_mapping writes a page's entry of a table that is entered. *)
LEMMA MapsPage ==
  ASSUME NEW s, Good(s), NEW m, NEW given, Owned(s, m, given), NEW p \in DOMAIN m, NEW v \in Pages,
         NEW t \in Numbered, t \in Nat, s.ram1[p][v \div Entries2] = Coarse(t), NEW f \in UserFrames,
         NEW r, r.free = s.free, r.lev1 = s.lev1, r.lev2 = s.lev2, r.avail1 = s.avail1, r.avail2 = s.avail2,
         r.ram1 = s.ram1, r.ram2 = [s.ram2 EXCEPT ![t][v % Entries2] = f]
  PROVE  Owned(r, [m EXCEPT ![p][v] = f], given)
<1> DEFINE m2 == [m EXCEPT ![p][v] = f]
           e == v \div Entries2
<1>1. e \in Top /\ v % Entries2 \in 0 .. Entries2 - 1 /\ OfWindow(Coarse(t)) /\ Coarse(t).key = 1 /\ Coarse(t).base = t
  BY PageInTable, EntryIs, NumberedOfWindow
<1>2. t \in DOMAIN s.ram2 /\ s.ram2[t] \in [0 .. Entries2 - 1 -> {0} \cup UserFrames]
  BY DEF Good
<1>3. /\ r.ram2[t] = [s.ram2[t] EXCEPT ![v % Entries2] = f]
      /\ \A u : u # t => r.ram2[u] = s.ram2[u]
  BY <1>2
<1>4. /\ r.ram2[t][v % Entries2] = f
      /\ \A k \in 0 .. Entries2 - 1 : k # v % Entries2 => r.ram2[t][k] = s.ram2[t][k]
  BY <1>1, <1>2, <1>3
<1>5. \A q \in DOMAIN m : m[q] = Answers(s.ram1, s.ram2, q)
  BY DEF Owned
<1>6. /\ DOMAIN m2 = DOMAIN m /\ m2[p] = [m[p] EXCEPT ![v] = f]
      /\ \A q \in DOMAIN m : q # p => m2[q] = m[q]
  OBVIOUS
<1> HIDE DEF m2, e
<1>7. ASSUME NEW q \in DOMAIN m, NEW d \in Top, OfWindow(s.ram1[q][d]), s.ram1[q][d].base = t
      PROVE  q = p /\ d = e
  <2>1. s.ram1[q][d] = Coarse(t)
    BY <1>7, OwnedTypes
  <2>2. s.ram1[q][d] = s.ram1[p][e]
    BY <2>1 DEF e
  <2>. QED
    BY <1>1, <1>7, <2>2 DEF Owned
<1>8. ASSUME NEW q \in DOMAIN m, q # p PROVE m2[q] = Answers(r.ram1, r.ram2, q)
  <2>1. \A d \in Top : OfWindow(s.ram1[q][d]) => s.ram1[q][d].base # t
    BY <1>7, <1>8
  <2>2. Agree(s.ram1, s.ram2, r.ram1, r.ram2, q)
    BY <1>3, <2>1, Zenon DEF Agree
  <2>3. Answers(r.ram1, r.ram2, q) = Answers(s.ram1, s.ram2, q)
    BY <2>2, SameAnswers
  <2>. QED
    BY <1>5, <1>6, <1>8, <2>3
<1>9. ASSUME NEW w \in Pages PROVE AnswerIn(r.ram1, r.ram2, p, w) = IF w = v THEN f ELSE AnswerIn(s.ram1, s.ram2, p, w)
  <2>1. w \div Entries2 \in Top /\ w % Entries2 \in 0 .. Entries2 - 1
    BY PageInTable
  <2>2. CASE w = v
    BY <1>1, <1>4, <2>2 DEF AnswerIn, e
  <2>3. CASE w # v /\ ~OfWindow(s.ram1[p][w \div Entries2])
    BY <2>3 DEF AnswerIn
  <2>4. CASE w # v /\ OfWindow(s.ram1[p][w \div Entries2])
    <3> DEFINE b == s.ram1[p][w \div Entries2].base
    <3>1. r.ram2[b][w % Entries2] = s.ram2[b][w % Entries2]
      <4>1. CASE b # t
        BY <1>3, <4>1
      <4>2. CASE b = t
        <5>1. w \div Entries2 = e
          BY <1>7, <2>1, <2>4, <4>2
        <5>2. w % Entries2 # v % Entries2
          BY <2>4, <5>1, SamePage DEF e
        <5>. QED
          BY <1>4, <2>1, <4>2, <5>2, Zenon
      <4>. QED
        BY <4>1, <4>2
    <3>2. s.ram1[p][w \div Entries2].key = 1
      BY <2>4, EntryIs
    <3>. QED
      BY <2>4, <3>1, <3>2 DEF AnswerIn
  <2>. QED
    BY <2>2, <2>3, <2>4
<1>10. m2[p] = Answers(r.ram1, r.ram2, p)
  <2>1. m[p] = [w \in Pages |-> AnswerIn(s.ram1, s.ram2, p, w)]
    BY <1>5 DEF Answers
  <2>2. m2[p] = [w \in Pages |-> IF w = v THEN f ELSE AnswerIn(s.ram1, s.ram2, p, w)]
    BY <1>6, <2>1
  <2>. QED
    BY <1>9, <2>2 DEF Answers
<1>11. Sound(r) /\ DOMAIN m = Out1(r.lev1, r.avail1) /\ Out2(r.lev2, r.avail2) = Out2(s.lev2, s.avail2)
  BY DEF Owned, Sound
<1>12. Owned(r, m2, given)
  BY <1>6, <1>8, <1>10, <1>11 DEF Owned
<1>. QED
  BY <1>12 DEF m2

Filled(r1, s1, p, tab) ==
  tab \in [Top -> Entry1] /\ (\A e \in Top : ~OfWindow(tab[e])) /\ r1 = [s1 EXCEPT ![p] = tab]
Entering(m2, m, p, to) ==
  DOMAIN m2 = DOMAIN m \cup {p} /\ (\A q \in DOMAIN m : m2[q] = m[q]) /\ m2[p] = to

(* A top level table p that nobody had is filled, with no second level     *)
(* table, and used.                                                        *)
LEMMA NewTop ==
  ASSUME NEW s, Good(s), NEW m, NEW given, Owned(s, m, given), NEW p \in Frames, p \notin DOMAIN m,
         NEW r, Sound(r), r.lev2 = s.lev2, r.avail2 = s.avail2, r.ram2 = s.ram2,
         Out1(r.lev1, r.avail1) = DOMAIN m \cup {p},
         NEW tab, Filled(r.ram1, s.ram1, p, tab),
         NEW m2, Entering(m2, m, p, Answers(r.ram1, r.ram2, p))
  PROVE  Owned(r, m2, given)
<1>0. /\ DOMAIN m2 = DOMAIN m \cup {p} /\ \A q \in DOMAIN m : m2[q] = m[q]
      /\ m2[p] = Answers(r.ram1, r.ram2, p)
      /\ tab \in [Top -> Entry1] /\ \A e \in Top : ~OfWindow(tab[e])
      /\ r.ram1 = [s.ram1 EXCEPT ![p] = tab]
  BY DEF Entering, Filled
<1>1. p \in DOMAIN s.ram1
  BY DEF Good
<1>2. r.ram1[p] = tab /\ \A q \in DOMAIN m : r.ram1[q] = s.ram1[q]
  BY <1>0, <1>1
<1>4. EnteredIn(r.ram1, DOMAIN m2) = EnteredIn(s.ram1, DOMAIN m)
  <2>1. ASSUME NEW t \in Nat, OfWindow(Coarse(t)), NEW q \in DOMAIN m2, NEW e \in Top, r.ram1[q][e] = Coarse(t)
        PROVE  q \in DOMAIN m /\ s.ram1[q][e] = Coarse(t)
    BY <1>0, <1>2, <2>1
  <2>2. \A t \in EnteredIn(r.ram1, DOMAIN m2) : t \in EnteredIn(s.ram1, DOMAIN m)
    BY <2>1 DEF EnteredIn
  <2>3. \A t \in EnteredIn(s.ram1, DOMAIN m) : t \in EnteredIn(r.ram1, DOMAIN m2)
    BY <1>0, <1>2 DEF EnteredIn
  <2>. QED
    BY <2>2, <2>3
<1>5. ASSUME NEW q \in DOMAIN m2, NEW q2 \in DOMAIN m2, NEW d \in Top, NEW d2 \in Top,
             OfWindow(r.ram1[q][d]), r.ram1[q][d] = r.ram1[q2][d2]
      PROVE  q = q2 /\ d = d2
  <2>1. q \in DOMAIN m /\ q2 \in DOMAIN m
    BY <1>0, <1>2, <1>5
  <2>2. OfWindow(s.ram1[q][d]) /\ s.ram1[q][d] = s.ram1[q2][d2]
    BY <1>2, <1>5, <2>1
  <2>. QED
    BY <2>1, <2>2 DEF Owned
<1>6. ASSUME NEW q \in DOMAIN m2 PROVE m2[q] = Answers(r.ram1, r.ram2, q)
  <2>1. CASE q \in DOMAIN m
    <3>1. Agree(s.ram1, s.ram2, r.ram1, r.ram2, q)
      BY <1>2, <2>1 DEF Agree
    <3>2. Answers(r.ram1, r.ram2, q) = Answers(s.ram1, s.ram2, q)
      BY <3>1, SameAnswers
    <3>. QED
      BY <1>0, <2>1, <3>2 DEF Owned
  <2>. QED
    BY <1>0, <2>1
<1>7. /\ Out2(r.lev2, r.avail2) = Out2(s.lev2, s.avail2)
      /\ EnteredIn(s.ram1, DOMAIN m) \cup given = Out2(s.lev2, s.avail2)
      /\ EnteredIn(s.ram1, DOMAIN m) \cap given = {}
  BY DEF Owned
<1>8. \A q, q2 \in DOMAIN m2 : \A d, d2 \in Top :
        OfWindow(r.ram1[q][d]) /\ r.ram1[q][d] = r.ram1[q2][d2] => q = q2 /\ d = d2
  BY <1>5
<1>. QED
  BY <1>0, <1>4, <1>6, <1>7, <1>8, Zenon DEF Owned

(* A top level table that has no second level table is given up. *)
LEMMA OldTop ==
  ASSUME NEW s, Good(s), NEW m, NEW given, Owned(s, m, given), NEW p \in DOMAIN m,
         \A e \in Top : ~OfWindow(s.ram1[p][e]),
         NEW r, Sound(r), r.lev2 = s.lev2, r.avail2 = s.avail2, r.ram1 = s.ram1, r.ram2 = s.ram2,
         Out1(r.lev1, r.avail1) = DOMAIN m \ {p},
         NEW m2, DOMAIN m2 = DOMAIN m \ {p}, \A q \in DOMAIN m \ {p} : m2[q] = m[q]
  PROVE  Owned(r, m2, given)
<1>2. EnteredIn(r.ram1, DOMAIN m2) = EnteredIn(s.ram1, DOMAIN m)
  <2>1. \A t \in EnteredIn(r.ram1, DOMAIN m2) : t \in EnteredIn(s.ram1, DOMAIN m)
    BY DEF EnteredIn
  <2>2. \A t \in EnteredIn(s.ram1, DOMAIN m) : t \in EnteredIn(r.ram1, DOMAIN m2)
    BY DEF EnteredIn
  <2>. QED
    BY <2>1, <2>2
<1>3. \A q \in DOMAIN m2 : m2[q] = Answers(r.ram1, r.ram2, q)
  BY DEF Owned
<1>4. \A q, q2 \in DOMAIN m2 : \A d, d2 \in Top :
        OfWindow(r.ram1[q][d]) /\ r.ram1[q][d] = r.ram1[q2][d2] => q = q2 /\ d = d2
  BY DEF Owned
<1>. QED
  BY <1>2, <1>3, <1>4 DEF Owned
-----------------------------------------------------------------------------
(* The lists: a is put at place k of list. *)
Put(new, list, k, a) ==
  /\ k \in 1 .. Len(list) + 1
  /\ Len(new) = Len(list) + 1 /\ DOMAIN new = 1 .. Len(list) + 1
  /\ \A j \in 1 .. Len(list) + 1 : new[j] = IF j < k THEN list[j] ELSE IF j = k THEN a ELSE list[j - 1]
Once(list) == \A k, l \in 1 .. Len(list) : list[k] = list[l] => k = l

Lacks(list, a) == \A l \in 1 .. Len(list) : list[l] # a
Adds(new, list, a) ==
  /\ \A j \in 1 .. Len(list) + 1 : new[j] = a \/ \E l \in 1 .. Len(list) : new[j] = list[l]
  /\ \A l \in 1 .. Len(list) : \E j \in 1 .. Len(list) + 1 : new[j] = list[l]
  /\ \E j \in 1 .. Len(list) + 1 : new[j] = a

LEMMA PutElements ==
  ASSUME NEW list, Len(list) \in Nat, NEW new, NEW k, NEW a, Put(new, list, k, a), Once(list), Lacks(list, a)
  PROVE  Adds(new, list, a) /\ Once(new)
<1>0. PICK n \in Nat : n = Len(list)
  OBVIOUS
<1>1. /\ k \in 1 .. n + 1 /\ Len(new) = n + 1
      /\ \A j \in 1 .. n + 1 : new[j] = IF j < k THEN list[j] ELSE IF j = k THEN a ELSE list[j - 1]
  BY <1>0 DEF Put
<1>7. \A l \in 1 .. n : list[l] # a
  BY <1>0 DEF Lacks
<1>2. /\ new[k] = a
      /\ \A j \in 1 .. n + 1 :
           j = k \/ \E l \in 1 .. n : new[j] = list[l] /\ ((j < k /\ l = j) \/ (j > k /\ l = j - 1))
  <2>1. ASSUME NEW j \in 1 .. n + 1, j < k
        PROVE  \E l \in 1 .. n : new[j] = list[l] /\ ((j < k /\ l = j) \/ (j > k /\ l = j - 1))
    <3>1. j \in 1 .. n /\ new[j] = list[j]
      BY <1>1, <2>1
    <3>2. new[j] = list[j] /\ ((j < k /\ j = j) \/ (j > k /\ j = j - 1))
      BY <2>1, <3>1
    <3>. QED
      BY <3>1, <3>2, Zenon
  <2>2. ASSUME NEW j \in 1 .. n + 1, j > k
        PROVE  \E l \in 1 .. n : new[j] = list[l] /\ ((j < k /\ l = j) \/ (j > k /\ l = j - 1))
    <3>1. j - 1 \in 1 .. n /\ new[j] = list[j - 1]
      BY <1>1, <2>2
    <3>2. new[j] = list[j - 1] /\ ((j < k /\ j - 1 = j) \/ (j > k /\ j - 1 = j - 1))
      BY <2>2, <3>1
    <3>. QED
      BY <3>1, <3>2, Zenon
  <2>3. \A j \in 1 .. n + 1 : j < k \/ j = k \/ j > k
    BY <1>1
  <2>4. new[k] = a
    BY <1>1
  <2>. QED
    BY <2>1, <2>2, <2>3, <2>4, Zenon
<1>3. ASSUME NEW l \in 1 .. n PROVE \E j \in 1 .. n + 1 : new[j] = list[l]
  <2>1. CASE l < k
    <3>1. l \in 1 .. n + 1 /\ new[l] = list[l]
      BY <1>1, <2>1
    <3>. QED
      BY <3>1
  <2>2. CASE l >= k
    <3>1. l + 1 \in 1 .. n + 1 /\ l + 1 > k /\ (l + 1) - 1 = l
      BY <1>1, <2>2
    <3>2. new[l + 1] = list[l]
      BY <1>1, <3>1
    <3>. QED
      BY <3>1, <3>2
  <2>. QED
    BY <1>1, <2>1, <2>2
<1>4. Once(new)
  <2>1. SUFFICES ASSUME NEW i \in 1 .. n + 1, NEW j \in 1 .. n + 1, new[i] = new[j] PROVE i = j
    BY <1>0, <1>1 DEF Once
  <2>2. \A x, y \in 1 .. n : list[x] = list[y] => x = y
    BY <1>0 DEF Once
  <2>3. \A j2 \in 1 .. n + 1 : j2 # k => new[j2] # a
    BY <1>2, <1>7
  <2>4. CASE i = k \/ j = k
    BY <1>2, <2>1, <2>3, <2>4
  <2>5. CASE i # k /\ j # k
    <3>1. PICK x \in 1 .. n : new[i] = list[x] /\ ((i < k /\ x = i) \/ (i > k /\ x = i - 1))
      BY <1>2, <2>5
    <3>2. PICK y \in 1 .. n : new[j] = list[y] /\ ((j < k /\ y = j) \/ (j > k /\ y = j - 1))
      BY <1>2, <2>5
    <3>3. x = y
      BY <2>1, <2>2, <3>1, <3>2
    <3>. QED
      BY <1>1, <3>1, <3>2, <3>3
  <2>. QED
    BY <2>4, <2>5
<1>5. \A j \in 1 .. n + 1 : new[j] = a \/ \E l \in 1 .. n : new[j] = list[l]
  BY <1>2
<1>6. \E j \in 1 .. n + 1 : new[j] = a
  BY <1>1
<1>8. Adds(new, list, a)
  BY <1>0, <1>3, <1>5, <1>6, Zenon DEF Adds
<1>. QED
  BY <1>4, <1>8

LEMMA PushIs ==
  ASSUME NEW S, NEW list \in Seq(S), NEW a \in S
  PROVE  <<a>> \o list \in Seq(S) /\ Put(<<a>> \o list, list, 1, a)
<1> DEFINE new == <<a>> \o list
<1>1. new \in Seq(S) /\ Len(new) = Len(list) + 1 /\ Len(list) \in Nat
  OBVIOUS
<1>2. \A j \in 1 .. Len(list) + 1 : new[j] = IF j = 1 THEN a ELSE list[j - 1]
  OBVIOUS
<1>3. DOMAIN new = 1 .. Len(list) + 1
  BY <1>1
<1> HIDE DEF new
<1>4. Put(new, list, 1, a)
  BY <1>1, <1>2, <1>3 DEF Put
<1>. QED
  BY <1>1, <1>4 DEF new

LEMMA JoinIs ==
  ASSUME NEW S, NEW A \in Seq(S), NEW B \in Seq(S), NEW C, C = A \o B
  PROVE  /\ C \in Seq(S) /\ Len(C) = Len(A) + Len(B)
         /\ \A j \in 1 .. Len(A) : C[j] = A[j]
         /\ \A j \in 1 .. Len(B) : C[Len(A) + j] = B[j]
  OBVIOUS

(* Where pt_l2_free puts a place. *)
LEMMA InsertedIs ==
  ASSUME NEW S \in SUBSET Nat, NEW list \in Seq(S), list # <<>>, NEW a \in S
  PROVE  Inserted(list, a) \in Seq(S) /\ \E k \in 1 .. Len(list) + 1 : Put(Inserted(list, a), list, k, a)
<1>0. Len(list) \in Nat \ {0}
  OBVIOUS
<1>1. CASE a < list[1]
  <2>1. Inserted(list, a) = <<a>> \o list
    BY <1>1 DEF Inserted
  <2>2. 1 \in 1 .. Len(list) + 1
    BY <1>0
  <2>. QED
    BY <2>1, <2>2, PushIs
<1>2. CASE ~(a < list[1])
  <2> DEFINE stays == {k \in 2 .. Len(list) : list[k] <= a}
             k == IF stays = {} THEN Len(list) + 1 ELSE Least(stays)
             new == InsertAt(list, k, a)
  <2>1. Inserted(list, a) = new
    BY <1>2 DEF Inserted
  <2>2. k \in 1 .. Len(list) + 1
    <3>1. CASE stays = {}
      BY <1>0, <3>1
    <3>2. CASE stays # {}
      <4>1. stays \in SUBSET Nat
        BY <1>0
      <4>2. Least(stays) \in stays
        BY <3>2, <4>1, LeastIs
      <4>3. stays \subseteq 1 .. Len(list) + 1
        BY <1>0
      <4> HIDE DEF stays
      <4>. QED
        BY <3>2, <4>2, <4>3
    <3>. QED
      BY <3>1, <3>2
  <2> HIDE DEF k
  <2> DEFINE A == SubSeq(list, 1, k - 1)
             B == SubSeq(list, k, Len(list))
  <2>3. A \in Seq(S) /\ Len(A) = k - 1 /\ \A j \in 1 .. k - 1 : A[j] = list[j]
    BY <1>0, <2>2
  <2>4. /\ B \in Seq(S) /\ Len(B) = Len(list) + 1 - k
        /\ \A j \in 1 .. Len(list) + 1 - k : B[j] = list[k + j - 1]
    BY <1>0, <2>2
  <2> DEFINE C == A \o <<a>>
  <2>5. new = C \o B /\ C = A \o <<a>>
    BY DEF InsertAt
  <2> HIDE DEF A, B, C, new
  <2>6. /\ new \in Seq(S) /\ Len(new) = Len(A) + 1 + Len(B)
        /\ \A j \in 1 .. Len(A) : new[j] = A[j]
        /\ new[Len(A) + 1] = a
        /\ \A j \in 1 .. Len(B) : new[Len(A) + 1 + j] = B[j]
    <3>1. /\ A \in Seq(S) /\ B \in Seq(S) /\ Len(A) \in Nat /\ Len(B) \in Nat
          /\ <<a>> \in Seq(S) /\ Len(<<a>>) = 1 /\ <<a>>[1] = a
      BY <2>3, <2>4
    <3>2. /\ C \in Seq(S) /\ Len(C) = Len(A) + Len(<<a>>)
          /\ \A j \in 1 .. Len(A) : C[j] = A[j]
          /\ \A j \in 1 .. Len(<<a>>) : C[Len(A) + j] = <<a>>[j]
      BY <2>5, <3>1, JoinIs
    <3>3. /\ new \in Seq(S) /\ Len(new) = Len(C) + Len(B)
          /\ \A j \in 1 .. Len(C) : new[j] = C[j]
          /\ \A j \in 1 .. Len(B) : new[Len(C) + j] = B[j]
      <4>1. C \in Seq(S) /\ B \in Seq(S) /\ new = C \o B
        BY <2>5, <3>1, <3>2
      <4>. QED
        BY <4>1, JoinIs
    <3>4. Len(C) = Len(A) + 1 /\ C[Len(A) + 1] = a
      BY <3>1, <3>2
    <3>5. Len(A) + 1 \in 1 .. Len(C) /\ \A j \in 1 .. Len(A) : j \in 1 .. Len(C)
      BY <3>1, <3>4
    <3>. QED
      BY <3>2, <3>3, <3>4, <3>5, Zenon
  <2>7. ASSUME NEW j \in 1 .. Len(list) + 1
        PROVE  new[j] = IF j < k THEN list[j] ELSE IF j = k THEN a ELSE list[j - 1]
    <3>1. CASE j < k
      <4>1. j \in 1 .. k - 1
        BY <2>2, <3>1
      <4>2. new[j] = list[j]
        BY <2>3, <2>6, <4>1, Zenon
      <4>. QED
        BY <3>1, <4>2
    <3>2. CASE j = k
      BY <2>2, <2>3, <2>6, <3>2
    <3>3. CASE j > k
      <4>1. j - k \in 1 .. Len(list) + 1 - k /\ (k - 1) + 1 + (j - k) = j /\ k + (j - k) - 1 = j - 1
        BY <1>0, <2>2, <3>3
      <4>2. new[(k - 1) + 1 + (j - k)] = B[j - k] /\ B[j - k] = list[k + (j - k) - 1]
        BY <2>3, <2>4, <2>6, <4>1
      <4>. QED
        BY <2>2, <3>3, <4>1, <4>2
    <3>. QED
      BY <2>2, <3>1, <3>2, <3>3
  <2>8. Len(new) = Len(list) + 1 /\ DOMAIN new = 1 .. Len(list) + 1
    BY <1>0, <2>2, <2>3, <2>4, <2>6
  <2>9. Put(new, list, k, a)
    BY <2>2, <2>7, <2>8 DEF Put
  <2>. QED
    BY <2>1, <2>2, <2>6, <2>9
<1>. QED
  BY <1>1, <1>2

(* pt_l1_free: pt_l1_lookup_virt undoes pt_l1_lookup_phys. *)
LEMMA PlaceOfTop ==
  ASSUME NEW avail, NEW lev1, NEW lev2, WindowsOK(avail, lev1, lev2), NEW p \in Tables1(lev1)
  PROVE  L1LookupVirt(lev1, p) \in Held(lev1) /\ lev1[L1LookupVirt(lev1, p)] = p /\ L1LookupVirt(lev1, p) # None
<1> DEFINE at == {i \in DOMAIN lev1 : lev1[i] = p}
<1>1. PICK i \in Held(lev1) : p = lev1[i]
  BY DEF Tables1
<1>2. i \in DOMAIN lev1 /\ DOMAIN lev1 = 0 .. L1Tables - 1 /\ p # None
  BY <1>1 DEF WindowsOK, Held
<1>3. at \in SUBSET Nat /\ at # {}
  BY <1>1, <1>2
<1>4. Least(at) \in at
  BY <1>3, LeastIs
<1>5. L1LookupVirt(lev1, p) = Least(at)
  BY <1>3 DEF L1LookupVirt
<1> DEFINE k == Least(at)
<1>6. k \in DOMAIN lev1 /\ lev1[k] = p
  BY <1>4
<1> HIDE DEF k, at
<1>7. k \in Held(lev1) /\ k # None
  BY <1>2, <1>6 DEF Held, None
<1>. QED
  BY <1>5, <1>6, <1>7 DEF k

LEMMA ToList1 ==
  ASSUME NEW avail, NEW lev1, NEW lev2, WindowsOK(avail, lev1, lev2), NEW list, List1OK(list, lev1),
         NEW p \in Out1(lev1, list), NEW i, i = L1LookupVirt(lev1, p)
  PROVE  List1OK(<<i>> \o list, lev1) /\ Out1(lev1, <<i>> \o list) = Out1(lev1, list) \ {p}
<1> DEFINE new == <<i>> \o list
<1>1. i \in Held(lev1) /\ lev1[i] = p
  BY PlaceOfTop DEF Out1
<1>2. list \in Seq(0 .. L1Tables - 1) /\ i \in 0 .. L1Tables - 1
  BY <1>1 DEF List1OK, Held, WindowsOK
<1>3. new \in Seq(0 .. L1Tables - 1) /\ Put(new, list, 1, i)
  BY <1>2, PushIs
<1>4. Len(list) \in Nat /\ DOMAIN list = 1 .. Len(list) /\ Len(new) = Len(list) + 1 /\ DOMAIN new = 1 .. Len(list) + 1
  BY <1>2, <1>3 DEF Put
<1> HIDE DEF new
<1>5. \A l \in 1 .. Len(list) : lev1[list[l]] # p
  BY <1>4 DEF Out1, Listing1, L1LookupPhys
<1>6. Once(list) /\ Lacks(list, i)
  BY <1>1, <1>5 DEF List1OK, Once, Lacks
<1>7. /\ \A j \in 1 .. Len(list) + 1 : new[j] = i \/ \E l \in 1 .. Len(list) : new[j] = list[l]
      /\ \A l \in 1 .. Len(list) : \E j \in 1 .. Len(list) + 1 : new[j] = list[l]
      /\ \E j \in 1 .. Len(list) + 1 : new[j] = i
      /\ Once(new)
  <2>1. Put(new, list, 1, i) /\ Len(list) \in Nat
    BY <1>3, <1>4
  <2>2. Adds(new, list, i) /\ Once(new)
    BY <1>6, <2>1, PutElements
  <2>. QED
    BY <2>2, Zenon DEF Adds
<1>8. List1OK(new, lev1)
  BY <1>1, <1>3, <1>4, <1>7 DEF List1OK, Once
<1>9. Listing1(new, lev1) = Listing1(list, lev1) \cup {p}
  <2>1. \A u \in Listing1(new, lev1) : u \in Listing1(list, lev1) \cup {p}
    <3>1. ASSUME NEW j \in 1 .. Len(list) + 1 PROVE lev1[new[j]] \in Listing1(list, lev1) \cup {p}
      BY <1>1, <1>4, <1>7 DEF Listing1, L1LookupPhys
    <3>. QED
      BY <1>4, <3>1 DEF Listing1, L1LookupPhys
  <2>2. \A u \in Listing1(list, lev1) : u \in Listing1(new, lev1)
    BY <1>4, <1>7 DEF Listing1, L1LookupPhys
  <2>3. p \in Listing1(new, lev1)
    BY <1>1, <1>4, <1>7 DEF Listing1, L1LookupPhys
  <2>. QED
    BY <2>1, <2>2, <2>3
<1>10. Out1(lev1, new) = Out1(lev1, list) \ {p}
  BY <1>9 DEF Out1
<1>. QED
  BY <1>8, <1>10 DEF new

(* pt_l2_free *)
LEMMA ToList2 ==
  ASSUME NEW avail, NEW lev1, NEW lev2, WindowsOK(avail, lev1, lev2), NEW list, List2OK(list, lev2), list # <<>>,
         NEW t \in Out2(lev2, list), NEW new, new = Inserted(list, L2LookupVirt(lev2, t))
  PROVE  List2OK(new, lev2) /\ Out2(lev2, new) = Out2(lev2, list) \ {t}
<1> DEFINE a == L2LookupVirt(lev2, t)
<1>1. a \in 0 .. L2Pages * PerPage - 1 /\ a \div PerPage \in Held(lev2) /\ L2LookupPhys(lev2, a) = t
  BY PlaceOfTable DEF Out2
<1>2. list \in Seq(0 .. L2Pages * PerPage - 1)
  BY DEF List2OK
<1> HIDE DEF a
<1>3. PICK k : new \in Seq(0 .. L2Pages * PerPage - 1) /\ Put(new, list, k, a)
  <2>1. 0 .. L2Pages * PerPage - 1 \in SUBSET Nat
    OBVIOUS
  <2>2. Inserted(list, a) \in Seq(0 .. L2Pages * PerPage - 1) /\ \E k \in 1 .. Len(list) + 1 : Put(Inserted(list, a), list, k, a)
    BY <1>1, <1>2, <2>1, InsertedIs
  <2>. QED
    BY <2>2 DEF a
<1>4. Len(list) \in Nat /\ DOMAIN list = 1 .. Len(list) /\ Len(new) = Len(list) + 1 /\ DOMAIN new = 1 .. Len(list) + 1
  BY <1>2, <1>3 DEF Put
<1>5. \A l \in 1 .. Len(list) : L2LookupPhys(lev2, list[l]) # t
  BY <1>4 DEF Out2, Listing2
<1>6. Once(list) /\ Lacks(list, a)
  BY <1>1, <1>5 DEF List2OK, Once, Lacks
<1>7. /\ \A j \in 1 .. Len(list) + 1 : new[j] = a \/ \E l \in 1 .. Len(list) : new[j] = list[l]
      /\ \A l \in 1 .. Len(list) : \E j \in 1 .. Len(list) + 1 : new[j] = list[l]
      /\ \E j \in 1 .. Len(list) + 1 : new[j] = a
      /\ Once(new)
  <2>1. Put(new, list, k, a) /\ Len(list) \in Nat
    BY <1>3, <1>4
  <2>2. Adds(new, list, a) /\ Once(new)
    BY <1>6, <2>1, PutElements
  <2>. QED
    BY <2>2, Zenon DEF Adds
<1>8. List2OK(new, lev2)
  <2>1. \A l \in 1 .. Len(list) : list[l] \div PerPage \in Held(lev2)
    BY DEF List2OK
  <2>2. \A j \in 1 .. Len(new) : new[j] \div PerPage \in Held(lev2)
    BY <1>1, <1>4, <1>7, <2>1, Zenon
  <2>. QED
    BY <1>3, <1>7, <2>2 DEF List2OK, Once
<1>9. Listing2(new, lev2) = Listing2(list, lev2) \cup {t}
  <2>1. \A u \in Listing2(new, lev2) : u \in Listing2(list, lev2) \cup {t}
    <3>1. ASSUME NEW j \in 1 .. Len(list) + 1 PROVE L2LookupPhys(lev2, new[j]) \in Listing2(list, lev2) \cup {t}
      BY <1>1, <1>4, <1>7 DEF Listing2
    <3>. QED
      BY <1>4, <3>1 DEF Listing2
  <2>2. \A u \in Listing2(list, lev2) : u \in Listing2(new, lev2)
    BY <1>4, <1>7 DEF Listing2
  <2>3. t \in Listing2(new, lev2)
    BY <1>1, <1>4, <1>7 DEF Listing2
  <2>. QED
    BY <2>1, <2>2, <2>3
<1>10. Out2(lev2, new) = Out2(lev2, list) \ {t}
  BY <1>9 DEF Out2
<1>. QED
  BY <1>8, <1>10
-----------------------------------------------------------------------------
(* pt_add_mapping finds the second level table, or makes it. *)
LEMMA SecondLevelDoes ==
  ASSUME NEW s, Good(s), s.status = "running", NEW m, NEW given, Owned(s, m, given),
         NEW p \in DOMAIN m, NEW e \in Top, NEW r \in SecondLevel(s, p, e)
  PROVE  /\ Good(r)
         /\ r.status = "running" =>
              /\ Owned(r, m, given)
              /\ \E t \in Numbered : t \in Nat /\ t = L2LookupPhys(r.lev2, r.table) /\ r.ram1[p][e] = Coarse(t)
<1>1. DOMAIN s = Fields /\ s.ram1[p] \in [Top -> Entry1] /\ s.ram1[p][e].key \in 0 .. 2 /\ p \in DOMAIN s.ram1
  <2>1. s.ram1[p] \in [Top -> Entry1] /\ p \in Frames
    BY OwnedTypes
  <2>2. DOMAIN s = Fields /\ DOMAIN s.ram1 = {Rom} \cup Frames
    BY DEF Good
  <2>3. s.ram1[p][e] \in Entry1
    BY <2>1
  <2>. QED
    BY <2>1, <2>2, <2>3, EntryIs
<1>2. CASE s.ram1[p][e].key = 2
  <2>1. r = [s EXCEPT !.status = "panic"]
    BY <1>2 DEF SecondLevel
  <2>2. r.status = "panic" /\ Good(r)
    BY <1>1, <2>1 DEF Good, Fields, Statuses
  <2>. QED
    BY <2>2
<1>5. CASE s.ram1[p][e].key = 1 /\ ~OfWindow(s.ram1[p][e])
  <2>1. WindowsOK(s.free, s.lev1, s.lev2)
    BY DEF Owned, Sound
  <2>2. L2LookupVirt(s.lev2, s.ram1[p][e].base) = None
    BY <1>5, <2>1, StaticUnseen
  <2>3. r = [s EXCEPT !.status = "panic"]
    BY <1>5, <2>2 DEF SecondLevel
  <2>4. r.status = "panic" /\ Good(r)
    BY <1>1, <2>3 DEF Good, Fields, Statuses
  <2>. QED
    BY <2>4
<1>3. CASE s.ram1[p][e].key = 1 /\ OfWindow(s.ram1[p][e])
  <2> DEFINE t == s.ram1[p][e].base
             a == L2LookupVirt(s.lev2, t)
  <2>1. t \in Nat /\ t \in Numbered /\ t \in Tables2(s.lev2) /\ s.ram1[p][e] = Coarse(t)
    BY <1>3, OwnedTypes
  <2>2. a # None /\ L2LookupPhys(s.lev2, a) = t
    <3>1. WindowsOK(s.free, s.lev1, s.lev2)
      BY DEF Owned, Sound
    <3>. QED
      BY <2>1, <3>1, PlaceOfTable
  <2>3. r = [s EXCEPT !.table = a]
    BY <1>3, <2>2 DEF SecondLevel
  <2> HIDE DEF a, t
  <2>4. /\ DOMAIN r = Fields /\ r.free = s.free /\ r.lev1 = s.lev1 /\ r.lev2 = s.lev2 /\ r.avail1 = s.avail1
        /\ r.avail2 = s.avail2 /\ r.ram1 = s.ram1 /\ r.ram2 = s.ram2 /\ r.status = s.status /\ r.table = a
    BY <1>1, <2>3 DEF Fields
  <2>5. Good(r)
    BY <2>4 DEF Good
  <2>6. Owned(r, m, given)
    BY <2>4 DEF Owned, Sound
  <2>. QED
    BY <2>1, <2>2, <2>4, <2>5, <2>6
<1>4. CASE s.ram1[p][e].key = 0
  <2>1. PICK q \in AllocL2(s) :
          r = IF q.status = "running" THEN [q EXCEPT !.ram1[p][e] = Coarse(L2LookupPhys(q.lev2, q.table))] ELSE q
    BY <1>4 DEF SecondLevel
  <2>2. Good(q) /\ (q.status = "running" => HandsOut2(s, q))
    BY AllocL2Does DEF Owned
  <2>3. CASE q.status # "running"
    BY <2>1, <2>2, <2>3
  <2>4. CASE q.status = "running"
    <3> DEFINE t == L2LookupPhys(q.lev2, q.table)
    <3>1. HandsOut2(s, q)
      BY <2>2, <2>4
    <3>2. Owned(q, m, given \cup {t}) /\ t \notin given
      BY <3>1, GivesTable
    <3>3. q.ram1 = s.ram1 /\ q.ram2 = [s.ram2 EXCEPT ![t] = Unmapped2] /\ t \in Tables2(q.lev2)
      BY <3>1 DEF HandsOut2
    <3>4. r = [q EXCEPT !.ram1[p][e] = Coarse(t)]
      BY <2>1, <2>4
    <3> HIDE DEF t
    <3>5. t \in Numbered /\ t \in Nat
      <4>1. WindowsOK(q.free, q.lev1, q.lev2)
        BY <3>1 DEF HandsOut2, Sound
      <4>. QED
        BY <3>3, <4>1, TablesNumbered DEF Tables2
    <3>6. q.ram2[t] = Unmapped2
      BY <3>3, <3>5 DEF Good
    <3>7. /\ DOMAIN r = Fields /\ r.free = q.free /\ r.lev1 = q.lev1 /\ r.lev2 = q.lev2 /\ r.avail1 = q.avail1
          /\ r.avail2 = q.avail2 /\ r.ram1 = [q.ram1 EXCEPT ![p][e] = Coarse(t)] /\ r.ram2 = q.ram2
          /\ r.status = q.status /\ r.table = q.table
      BY <2>2, <3>4 DEF Good, Fields
    <3>8. r.ram1 \in [{Rom} \cup Frames -> [Top -> Entry1]] /\ r.ram1[p][e] = Coarse(t)
      <4>1. q.ram1 \in [{Rom} \cup Frames -> [Top -> Entry1]] /\ Coarse(t) \in Entry1
        BY <2>2, <3>5, EntryIs DEF Good
      <4>2. p \in {Rom} \cup Frames
        BY OwnedTypes
      <4>. QED
        BY <3>7, <4>1, <4>2
    <3>9. Good(r)
      BY <2>2, <3>7, <3>8 DEF Good
    <3>10. Owned(r, m, given)
      <4>1. q.ram1[p][e].key = 0
        BY <1>4, <3>3
      <4>. QED
        BY <2>2, <3>2, <3>6, <3>7, <4>1, EntersTable
    <3>. QED
      BY <3>5, <3>7, <3>8, <3>9, <3>10 DEF t
  <2>. QED
    BY <2>3, <2>4
<1>. QED
  BY <1>1, <1>2, <1>3, <1>4, <1>5
-----------------------------------------------------------------------------
(* The inductive invariant.  The kernel's own table has no second level    *)
(* tables but those in the kernel's image, and nothing below its own half. *)
KernelInv ==
  /\ kernel_page_table \in [Top -> Entry1]
  /\ \A e \in Top : /\ kernel_page_table[e].key \in 0 .. 2 /\ ~OfWindow(kernel_page_table[e])
                    /\ kernel_page_table[e].key = 1 <=> e \in DOMAIN Statics
                    /\ e < Private => kernel_page_table[e] = Fault
IInv ==
  /\ Good(State) /\ status \in Statuses /\ KernelInv
  /\ DOMAIN mapped \subseteq Frames /\ spare \subseteq Numbered
  /\ status = "running" => Owned(State, mapped, spare)

LEMMA OwnedSame ==
  ASSUME NEW s, NEW r, NEW m, NEW given, Owned(s, m, given),
         r.free = s.free, r.lev1 = s.lev1, r.lev2 = s.lev2, r.avail1 = s.avail1, r.avail2 = s.avail2,
         r.ram1 = s.ram1, r.ram2 = s.ram2
  PROVE  Owned(r, m, given)
  BY DEF Owned, Sound

LEMMA StateIs ==
  /\ DOMAIN State = Fields /\ State.free = free /\ State.lev1 = lev_1_pts /\ State.lev2 = lev_2_pts
  /\ State.avail1 = avail_l1_pts /\ State.avail2 = avail_l2_pts
  /\ State.ram1 = ram1 /\ State.ram2 = ram2 /\ State.status = "running"
  BY DEF State, Fields
LEMMA NextStateIs ==
  /\ DOMAIN State' = Fields /\ State'.free = free' /\ State'.lev1 = lev_1_pts' /\ State'.lev2 = lev_2_pts'
  /\ State'.avail1 = avail_l1_pts' /\ State'.avail2 = avail_l2_pts'
  /\ State'.ram1 = ram1' /\ State'.ram2 = ram2' /\ State'.status = "running"
  BY DEF State, Fields

(* What the record of a call satisfies at its end, the state does. *)
LEMMA AfterCall ==
  ASSUME KernelInv, UNCHANGED kernel_page_table, NEW r, Good(r), Ends(r),
         DOMAIN mapped' \subseteq Frames, spare' \subseteq Numbered,
         r.status = "running" => Owned(r, mapped', spare')
  PROVE  IInv'
<1>1. KernelInv'
  BY DEF KernelInv
<1>2. /\ State'.free = r.free /\ State'.lev1 = r.lev1 /\ State'.lev2 = r.lev2
      /\ State'.avail1 = r.avail1 /\ State'.avail2 = r.avail2 /\ State'.ram1 = r.ram1 /\ State'.ram2 = r.ram2
      /\ status' = r.status
  BY NextStateIs DEF Ends
<1>3. Good(State')
  <2>1. State'.status \in Statuses /\ DOMAIN State' = Fields
    BY NextStateIs DEF Statuses
  <2>. QED
    BY <1>2, <2>1 DEF Good
<1>4. status' = "running" => Owned(State', mapped', spare')
  <2>1. ASSUME status' = "running" PROVE Owned(State', mapped', spare')
    <3>1. Owned(r, mapped', spare')
      BY <1>2, <2>1
    <3>. QED
      BY <1>2, <3>1, OwnedSame
  <2>. QED
    BY <2>1
<1>5. status' \in Statuses
  BY <1>2 DEF Good
<1>. QED
  BY <1>1, <1>3, <1>4, <1>5 DEF IInv
-----------------------------------------------------------------------------
LEMMA PtL2AllocInv == ASSUME IInv, PtL2Alloc PROVE IInv'
<1>1. status = "running" /\ UNCHANGED kernel_page_table /\ mapped' = mapped
  BY DEF PtL2Alloc
<1>2. Good(State) /\ KernelInv /\ Owned(State, mapped, spare) /\ DOMAIN mapped \subseteq Frames /\ spare \subseteq Numbered
  BY <1>1 DEF IInv
<1>3. PICK r \in AllocL2(State) :
        /\ Ends(r)
        /\ spare' = IF r.status = "running" THEN spare \cup {L2LookupPhys(r.lev2, r.table)} ELSE spare
  BY DEF PtL2Alloc
<1>4. Good(r) /\ (r.status = "running" => HandsOut2(State, r))
  BY <1>2, StateIs, AllocL2Does DEF Owned
<1>5. CASE r.status = "running"
  <2>1. spare' = spare \cup {L2LookupPhys(r.lev2, r.table)}
    BY <1>3, <1>5
  <2>2. Owned(r, mapped, spare')
    BY <1>2, <1>4, <1>5, <2>1, GivesTable
  <2>3. spare' \subseteq Numbered
    BY <1>4, <2>2, OwnedTypes
  <2>. QED
    BY <1>1, <1>2, <1>3, <1>4, <2>2, <2>3, AfterCall
<1>6. CASE r.status # "running"
  BY <1>1, <1>2, <1>3, <1>4, <1>6, AfterCall
<1>. QED
  BY <1>5, <1>6

LEMMA PtL1AllocInv == ASSUME IInv, PtL1Alloc PROVE IInv'
<1>1. status = "running" /\ UNCHANGED kernel_page_table /\ spare' = spare
  BY DEF PtL1Alloc
<1>2. Good(State) /\ KernelInv /\ Owned(State, mapped, spare) /\ DOMAIN mapped \subseteq Frames /\ spare \subseteq Numbered
  BY <1>1 DEF IInv
<1>3. PICK r \in AllocL1(State) : Ends(r) /\ Enter(r, L1LookupPhys(r.lev1, r.table), [v \in Pages |-> 0])
  BY DEF PtL1Alloc
<1>4. Good(r) /\ (r.status = "running" => HandsOut1(State, r))
  BY <1>2, StateIs, AllocL1Does DEF Owned
<1>5. CASE r.status = "running"
  <2> DEFINE p == L1LookupPhys(r.lev1, r.table)
  <2>1. mapped' = [q \in DOMAIN mapped \cup {p} |-> IF q = p THEN [v \in Pages |-> 0] ELSE mapped[q]]
    BY <1>3, <1>5 DEF Enter
  <2>2. /\ Sound(r) /\ r.lev2 = State.lev2 /\ r.avail2 = State.avail2 /\ r.ram2 = State.ram2
        /\ p \in Tables1(r.lev1) /\ p \notin Out1(State.lev1, State.avail1)
        /\ Out1(r.lev1, r.avail1) = Out1(State.lev1, State.avail1) \cup {p}
        /\ r.ram1 = [State.ram1 EXCEPT ![p] = Unmapped1]
    BY <1>4, <1>5 DEF HandsOut1
  <2> HIDE DEF p
  <2>3. p \in Frames
    BY <2>2, TablesNumbered DEF Sound
  <2>4. DOMAIN mapped = Out1(State.lev1, State.avail1)
    BY <1>2 DEF Owned
  <2>5. p \in DOMAIN State.ram1
    BY <1>2, <2>3 DEF Good
  <2>6. Unmapped1 \in [Top -> Entry1] /\ \A e \in Top : Unmapped1[e].key = 0 /\ ~OfWindow(Unmapped1[e])
    BY NoTables, EntryIs DEF Unmapped1
  <2>7. mapped'[p] = Answers(r.ram1, r.ram2, p)
    <3>1. r.ram1[p] = Unmapped1
      BY <2>2, <2>5
    <3>2. \A v \in Pages : AnswerIn(r.ram1, r.ram2, p, v) = 0
      BY <2>6, <3>1, PageInTable DEF AnswerIn
    <3>3. mapped'[p] = [v \in Pages |-> 0]
      BY <2>1
    <3>. QED
      BY <3>2, <3>3 DEF Answers
  <2>8. DOMAIN mapped' = DOMAIN mapped \cup {p} /\ \A q \in DOMAIN mapped : mapped'[q] = mapped[q]
    BY <2>1, <2>2, <2>4
  <2>9. Owned(r, mapped', spare)
    <3>1. Filled(r.ram1, State.ram1, p, Unmapped1) /\ Entering(mapped', mapped, p, Answers(r.ram1, r.ram2, p))
      BY <2>2, <2>6, <2>7, <2>8 DEF Filled, Entering
    <3>. QED
      BY <1>2, <2>2, <2>3, <2>4, <3>1, NewTop
  <2>. QED
    BY <1>1, <1>2, <1>3, <1>4, <2>3, <2>8, <2>9, AfterCall
<1>6. CASE r.status # "running"
  <2>1. mapped' = mapped
    BY <1>3, <1>6 DEF Enter
  <2>. QED
    BY <1>1, <1>2, <1>3, <1>4, <1>6, <2>1, AfterCall
<1>. QED
  BY <1>5, <1>6

LEMMA PtL1FreeInv == ASSUME IInv, NEW p \in DOMAIN mapped, PtL1Free(p) PROVE IInv'
<1> DEFINE r == [State EXCEPT !.avail1 = <<L1LookupVirt(lev_1_pts, p)>> \o @]
<1>1. status = "running" /\ UNCHANGED kernel_page_table /\ spare' = spare
  BY DEF PtL1Free
<1>2. Good(State) /\ KernelInv /\ Owned(State, mapped, spare) /\ DOMAIN mapped \subseteq Frames /\ spare \subseteq Numbered
  BY <1>1 DEF IInv
<1>3. /\ DOMAIN r = Fields /\ r.free = State.free /\ r.lev1 = State.lev1 /\ r.lev2 = State.lev2
      /\ r.avail1 = <<L1LookupVirt(lev_1_pts, p)>> \o State.avail1 /\ r.avail2 = State.avail2
      /\ r.ram1 = State.ram1 /\ r.ram2 = State.ram2 /\ r.status = "running"
  BY StateIs DEF Fields
<1> HIDE DEF r
<1>4. Ends(r)
  BY <1>1, <1>3, StateIs DEF Ends, PtL1Free
<1>5. List1OK(r.avail1, r.lev1) /\ Out1(r.lev1, r.avail1) = DOMAIN mapped \ {p}
  <2>1. WindowsOK(State.free, State.lev1, State.lev2) /\ List1OK(State.avail1, State.lev1)
    BY <1>2 DEF Owned, Sound
  <2>2. p \in Out1(State.lev1, State.avail1) /\ DOMAIN mapped = Out1(State.lev1, State.avail1)
    BY <1>2 DEF Owned
  <2>3. L1LookupVirt(lev_1_pts, p) = L1LookupVirt(State.lev1, p)
    BY StateIs
  <2>. QED
    BY <1>3, <2>1, <2>2, <2>3, ToList1
<1>6. Sound(r)
  BY <1>2, <1>3, <1>5 DEF Owned, Sound
<1>7. Good(r)
  BY <1>2, <1>3, <1>5, StateIs DEF Good, List1OK
<1>8. \A e \in Top : ~OfWindow(State.ram1[p][e])
  BY StateIs DEF PtL1Free, Uses
<1>9. DOMAIN mapped' = DOMAIN mapped \ {p} /\ \A q \in DOMAIN mapped \ {p} : mapped'[q] = mapped[q]
  BY DEF PtL1Free
<1>10. Owned(r, mapped', spare)
  <2>1. Good(State) /\ Owned(State, mapped, spare) /\ Out1(r.lev1, r.avail1) = DOMAIN mapped \ {p}
    BY <1>2, <1>5
  <2>2. r.lev2 = State.lev2 /\ r.avail2 = State.avail2 /\ r.ram1 = State.ram1 /\ r.ram2 = State.ram2
    BY <1>3
  <2>3. DOMAIN mapped' = DOMAIN mapped \ {p}
    BY <1>9
  <2>4. \A q \in DOMAIN mapped \ {p} : mapped'[q] = mapped[q]
    BY <1>9
  <2>. QED
    BY <1>6, <1>8, <2>1, <2>2, <2>3, <2>4, OldTop, Zenon
<1>. QED
  BY <1>1, <1>2, <1>4, <1>7, <1>9, <1>10, AfterCall

LEMMA PtL2FreeInv == ASSUME IInv, NEW t \in spare, PtL2Free(t) PROVE IInv'
<1>1. status = "running" /\ UNCHANGED <<kernel_page_table, mapped>>
  BY DEF PtL2Free
<1>2. Good(State) /\ KernelInv /\ Owned(State, mapped, spare) /\ DOMAIN mapped \subseteq Frames /\ spare \subseteq Numbered
  BY <1>1 DEF IInv
<1>3. UNCHANGED <<free, lev_1_pts, lev_2_pts, avail_l1_pts, ram1, ram2>>
  BY DEF PtL2Free
<1>4. CASE avail_l2_pts = <<>>
  <2> DEFINE r == [State EXCEPT !.status = "abort"]
  <2>1. status' = "abort" /\ UNCHANGED <<avail_l2_pts, spare>>
    BY <1>4 DEF PtL2Free
  <2>2. /\ DOMAIN r = Fields /\ r.free = State.free /\ r.lev1 = State.lev1 /\ r.lev2 = State.lev2
        /\ r.avail1 = State.avail1 /\ r.avail2 = State.avail2
        /\ r.ram1 = State.ram1 /\ r.ram2 = State.ram2 /\ r.status = "abort"
    BY StateIs DEF Fields
  <2> HIDE DEF r
  <2>3. Ends(r)
    BY <1>3, <2>1, <2>2, StateIs DEF Ends
  <2>4. Good(r)
    BY <1>2, <2>2 DEF Good, Statuses
  <2>. QED
    BY <1>1, <1>2, <2>1, <2>2, <2>3, <2>4, AfterCall
<1>5. CASE avail_l2_pts # <<>>
  <2> DEFINE new == Inserted(avail_l2_pts, L2LookupVirt(lev_2_pts, t))
             r == [State EXCEPT !.avail2 = new]
  <2>1. avail_l2_pts' = new /\ spare' = spare \ {t} /\ status' = status
    BY <1>5 DEF PtL2Free
  <2> HIDE DEF new
  <2>2. /\ DOMAIN r = Fields /\ r.free = State.free /\ r.lev1 = State.lev1 /\ r.lev2 = State.lev2
        /\ r.avail1 = State.avail1 /\ r.avail2 = new
        /\ r.ram1 = State.ram1 /\ r.ram2 = State.ram2 /\ r.status = "running"
    BY StateIs DEF Fields
  <2> HIDE DEF r
  <2>3. Ends(r)
    BY <1>1, <1>3, <2>1, <2>2, StateIs DEF Ends
  <2>4. List2OK(new, State.lev2) /\ Out2(State.lev2, new) = Out2(State.lev2, State.avail2) \ {t}
    <3>1. WindowsOK(State.free, State.lev1, State.lev2) /\ List2OK(State.avail2, State.lev2) /\ State.avail2 # <<>>
      BY <1>2, <1>5, StateIs DEF Owned, Sound
    <3>2. t \in Out2(State.lev2, State.avail2)
      BY <1>2 DEF Owned
    <3>3. new = Inserted(State.avail2, L2LookupVirt(State.lev2, t))
      BY StateIs DEF new
    <3>. QED
      BY <3>1, <3>2, <3>3, ToList2
  <2>5. Sound(r)
    BY <1>2, <2>2, <2>4 DEF Owned, Sound
  <2>6. Good(r)
    BY <1>2, <2>2, <2>4 DEF Good, List2OK, Statuses
  <2>7. Owned(r, mapped, spare \ {t})
    BY <1>2, <2>2, <2>4, <2>5 DEF Owned
  <2>. QED
    BY <1>1, <1>2, <2>1, <2>3, <2>6, <2>7, AfterCall
<1>. QED
  BY <1>4, <1>5

LEMMA PtAddMappingInv ==
  ASSUME IInv, NEW p \in DOMAIN mapped, NEW v \in MapPages, NEW f \in UserFrames, PtAddMapping(p, v, f)
  PROVE  IInv'
<1>1. status = "running" /\ UNCHANGED <<kernel_page_table, spare>>
  BY DEF PtAddMapping
<1>2. Good(State) /\ KernelInv /\ Owned(State, mapped, spare) /\ DOMAIN mapped \subseteq Frames /\ spare \subseteq Numbered
  BY <1>1 DEF IInv
<1>3. v \in Pages /\ v \div Entries2 \in Top /\ v % Entries2 \in 0 .. Entries2 - 1
  <2>1. v \in Pages
    BY DEF Pages
  <2>. QED
    BY <2>1, PageInTable
<1>4. PICK s \in SecondLevel(State, p, v \div Entries2) :
        /\ Ends(Mapped(s, v, f))
        /\ mapped' = IF s.status = "running" THEN [mapped EXCEPT ![p][v] = f] ELSE mapped
  BY DEF PtAddMapping
<1>5. /\ Good(s)
      /\ s.status = "running" =>
           /\ Owned(s, mapped, spare)
           /\ \E t \in Numbered : t \in Nat /\ t = L2LookupPhys(s.lev2, s.table) /\ s.ram1[p][v \div Entries2] = Coarse(t)
  BY <1>2, <1>3, StateIs, SecondLevelDoes
<1>6. CASE s.status # "running"
  <2>1. Mapped(s, v, f) = s
    BY <1>6 DEF Mapped
  <2>. QED
    BY <1>1, <1>2, <1>4, <1>5, <1>6, <2>1, AfterCall
<1>7. CASE s.status = "running"
  <2>1. PICK t \in Numbered : t \in Nat /\ t = L2LookupPhys(s.lev2, s.table) /\ s.ram1[p][v \div Entries2] = Coarse(t)
    BY <1>5, <1>7
  <2> DEFINE r == Mapped(s, v, f)
  <2>2. r = [s EXCEPT !.ram2[t][v % Entries2] = f]
    BY <1>7, <2>1 DEF Mapped
  <2> HIDE DEF r
  <2>3. /\ DOMAIN r = Fields /\ r.free = s.free /\ r.lev1 = s.lev1 /\ r.lev2 = s.lev2
        /\ r.avail1 = s.avail1 /\ r.avail2 = s.avail2 /\ r.ram1 = s.ram1 /\ r.status = s.status
        /\ r.ram2 = [s.ram2 EXCEPT ![t][v % Entries2] = f]
    BY <1>5, <2>2 DEF Good, Fields
  <2>4. r.ram2 \in [Numbered -> [0 .. Entries2 - 1 -> {0} \cup UserFrames]]
    <3>1. s.ram2 \in [Numbered -> [0 .. Entries2 - 1 -> {0} \cup UserFrames]]
      BY <1>5 DEF Good
    <3>. QED
      BY <1>3, <2>3, <3>1
  <2>5. Good(r)
    BY <1>5, <2>3, <2>4 DEF Good
  <2>6. mapped' = [mapped EXCEPT ![p][v] = f]
    BY <1>4, <1>7
  <2>7. Owned(s, mapped, spare)
    BY <1>5, <1>7
  <2>8. Owned(r, [mapped EXCEPT ![p][v] = f], spare)
    BY <1>3, <1>5, <2>1, <2>3, <2>7, MapsPage
  <2>9. DOMAIN mapped' = DOMAIN mapped
    BY <2>6
  <2>. QED
    BY <1>1, <1>2, <1>4, <2>5, <2>6, <2>8, <2>9, AfterCall DEF r
<1>. QED
  BY <1>6, <1>7

(* The larger of 0 and a number *)
LEMMA MaxIs == ASSUME NEW x \in Int PROVE Max({0, x}) = IF x > 0 THEN x ELSE 0
<1> DEFINE y == IF x > 0 THEN x ELSE 0
<1>1. y \in {0, x} /\ \A z \in {0, x} : y >= z
  OBVIOUS
<1>2. \A w \in {0, x} : (\A z \in {0, x} : w >= z) => w = y
  OBVIOUS
<1>. QED
  BY <1>1, <1>2 DEF Max

(* A table of pt_new says what the kernel's table says of its half. *)
LEMMA KernelTable ==
  ASSUME KernelInv, NEW tab, tab = [e \in Top |-> IF e < Private THEN Fault ELSE kernel_page_table[e]]
  PROVE  /\ tab \in [Top -> Entry1] /\ \A e \in Top : ~OfWindow(tab[e])
         /\ \A r1, r2, p : r1[p] = tab => Answers(r1, r2, p) = [v \in Pages |-> KernelAnswer(v)]
<1>1. /\ kernel_page_table \in [Top -> Entry1]
      /\ \A e \in Top : /\ kernel_page_table[e].key \in 0 .. 2 /\ ~OfWindow(kernel_page_table[e])
                        /\ kernel_page_table[e].key = 1 <=> e \in DOMAIN Statics
                        /\ e < Private => kernel_page_table[e] = Fault
  BY DEF KernelInv
<1>2. tab = kernel_page_table
  <2>1. \A e \in Top : (IF e < Private THEN Fault ELSE kernel_page_table[e]) = kernel_page_table[e]
    BY <1>1
  <2>2. kernel_page_table = [e \in Top |-> kernel_page_table[e]]
    BY <1>1
  <2>. QED
    BY <2>1, <2>2
<1>3. ASSUME NEW r1, NEW r2, NEW p, r1[p] = tab, NEW v \in Pages
      PROVE  AnswerIn(r1, r2, p, v) = KernelAnswer(v)
  <2> DEFINE e == kernel_page_table[v \div Entries2]
  <2>1. /\ e.key \in 0 .. 2 /\ e.base \in Nat /\ v % Entries2 \in Nat
        /\ ~OfWindow(e) /\ (e.key = 1 <=> v \div Entries2 \in DOMAIN Statics)
    <3>1. v \div Entries2 \in Top /\ v % Entries2 \in Nat
      BY PageInTable
    <3>2. e \in Entry1 /\ e.key \in 0 .. 2 /\ ~OfWindow(e) /\ (e.key = 1 <=> v \div Entries2 \in DOMAIN Statics)
      BY <1>1, <3>1
    <3>. QED
      BY <3>1, <3>2, EntryIs
  <2>4. CASE e.key = 1
    BY <1>2, <1>3, <2>1, <2>4 DEF AnswerIn, KernelAnswer
  <2>2. CASE e.key = 0
    <3>1. AnswerIn(r1, r2, p, v) = 0 /\ FastVirtToPhys(v) = None
      BY <1>2, <1>3, <2>1, <2>2 DEF AnswerIn, FastVirtToPhys
    <3>2. KernelAnswer(v) = Max({0, None})
      BY <2>1, <2>2, <3>1 DEF KernelAnswer
    <3>3. Max({0, None}) = 0
      BY MaxIs DEF None
    <3>. QED
      BY <3>1, <3>2, <3>3
  <2>3. CASE e.key = 2
    <3> DEFINE x == (e.base * Entries2) + (v % Entries2)
    <3>1. AnswerIn(r1, r2, p, v) = x /\ FastVirtToPhys(v) = x
      BY <1>2, <1>3, <2>1, <2>3 DEF AnswerIn, FastVirtToPhys
    <3>2. x \in Nat
      <4>1. e.base * Entries2 \in Nat
        BY <2>1, Sizes
      <4>. QED
        BY <2>1, <4>1
    <3> HIDE DEF x
    <3>3. Max({0, x}) = x
      BY <3>2, MaxIs
    <3>4. KernelAnswer(v) = Max({0, x})
      BY <2>1, <2>3, <3>1 DEF KernelAnswer
    <3>. QED
      BY <3>1, <3>3, <3>4
  <2>. QED
    BY <2>1, <2>2, <2>3, <2>4
<1>4. ASSUME NEW r1, NEW r2, NEW p, r1[p] = tab
      PROVE  Answers(r1, r2, p) = [v \in Pages |-> KernelAnswer(v)]
  BY <1>3, <1>4 DEF Answers
<1>5. \A e \in Top : ~OfWindow(tab[e])
  BY <1>1, <1>2
<1>. QED
  BY <1>1, <1>2, <1>4, <1>5

LEMMA PtNewInv == ASSUME IInv, PtNew PROVE IInv'
<1> DEFINE w == Wiped(State)
<1>1. status = "running" /\ UNCHANGED kernel_page_table /\ spare' = spare
  BY DEF PtNew
<1>2. Good(State) /\ KernelInv /\ Owned(State, mapped, spare) /\ DOMAIN mapped \subseteq Frames /\ spare \subseteq Numbered
  BY <1>1 DEF IInv
<1>3. /\ DOMAIN w = Fields /\ w.free = State.free
      /\ w.lev1 = [i \in DOMAIN lev_1_pts |-> None] /\ w.lev2 = [i \in DOMAIN lev_2_pts |-> None]
      /\ w.avail1 = State.avail1 /\ w.avail2 = State.avail2
      /\ w.ram1 = State.ram1 /\ w.ram2 = State.ram2 /\ w.status = "running"
  BY StateIs DEF Wiped, Fields
<1>4. lev_1_pts \in [0 .. L1Tables - 1 -> Frames \cup {None, Rom}] /\ lev_2_pts \in [0 .. L2Pages - 1 -> Frames \cup {None, Rom}]
  BY <1>2, StateIs DEF Good
<1>5. Good(w)
  <2>1. w.lev1 \in [0 .. L1Tables - 1 -> Frames \cup {None, Rom}] /\ w.lev2 \in [0 .. L2Pages - 1 -> Frames \cup {None, Rom}]
    BY <1>3, <1>4
  <2>. QED
    BY <1>2, <1>3, <2>1 DEF Good, Statuses
<1>6. CASE InUse \/ \E i \in DOMAIN lev_2_pts : lev_2_pts[i] # None
  <2> DEFINE r == [w EXCEPT !.status = "wiped"]
  <2>1. Ends(r) /\ mapped' = mapped
    BY <1>6 DEF PtNew
  <2> HIDE DEF w
  <2>2. /\ DOMAIN r = Fields /\ r.free = w.free /\ r.lev1 = w.lev1 /\ r.lev2 = w.lev2
        /\ r.avail1 = w.avail1 /\ r.avail2 = w.avail2
        /\ r.ram1 = w.ram1 /\ r.ram2 = w.ram2 /\ r.status = "wiped"
    BY <1>3 DEF Fields
  <2> HIDE DEF r
  <2>3. Good(r)
    BY <1>5, <2>2 DEF Good, Statuses
  <2>. QED
    BY <1>1, <1>2, <2>1, <2>2, <2>3, AfterCall
<1>7. CASE ~(InUse \/ \E i \in DOMAIN lev_2_pts : lev_2_pts[i] # None)
  <2>1. PICK r \in AllocL1(w) :
          /\ Ends(NewTable(r))
          /\ Enter(r, L1LookupPhys(r.lev1, r.table), [v \in Pages |-> KernelAnswer(v)])
    BY <1>7 DEF PtNew
  <2> HIDE DEF w
  <2>2. w.lev1 = State.lev1 /\ w.lev2 = State.lev2
    <3>1. \A i \in DOMAIN lev_1_pts : lev_1_pts[i] = None
      BY <1>7 DEF InUse
    <3>2. \A i \in DOMAIN lev_2_pts : lev_2_pts[i] = None
      BY <1>7
    <3>. QED
      BY <1>3, <1>4, <3>1, <3>2, StateIs
  <2>3. Owned(w, mapped, spare)
    BY <1>2, <1>3, <2>2, OwnedSame
  <2>4. Good(r) /\ (r.status = "running" => HandsOut1(w, r))
    BY <1>3, <1>5, <2>3, AllocL1Does DEF Owned
  <2>5. CASE r.status # "running"
    <3>1. NewTable(r) = r /\ mapped' = mapped
      BY <2>1, <2>5 DEF NewTable, Enter
    <3>. QED
      BY <1>1, <1>2, <2>1, <2>4, <2>5, <3>1, AfterCall
  <2>6. CASE r.status = "running"
    <3> DEFINE p == L1LookupPhys(r.lev1, r.table)
               n == NewTable(r)
               tab == [e \in Top |-> IF e < Private THEN Fault ELSE kernel_page_table[e]]
               to == [v \in Pages |-> KernelAnswer(v)]
    <3>1. mapped' = [q \in DOMAIN mapped \cup {p} |-> IF q = p THEN to ELSE mapped[q]]
      BY <2>1, <2>6 DEF Enter
    <3>2. /\ Sound(r) /\ r.lev2 = w.lev2 /\ r.avail2 = w.avail2 /\ r.ram2 = w.ram2
          /\ p \in Tables1(r.lev1) /\ p \notin Out1(w.lev1, w.avail1)
          /\ Out1(r.lev1, r.avail1) = Out1(w.lev1, w.avail1) \cup {p}
          /\ r.ram1 = [w.ram1 EXCEPT ![p] = Unmapped1]
      BY <2>4, <2>6 DEF HandsOut1
    <3>3. n = [r EXCEPT !.ram1[p] = tab]
      BY <2>6 DEF NewTable
    <3>4. /\ tab \in [Top -> Entry1] /\ \A e \in Top : ~OfWindow(tab[e])
          /\ \A r1, r2, q : r1[q] = tab => Answers(r1, r2, q) = to
      BY <1>2, KernelTable
    <3>5. Ends(n)
      BY <2>1
    <3> HIDE DEF p, n, tab, to
    <3>6. /\ DOMAIN n = Fields /\ n.free = r.free /\ n.lev1 = r.lev1 /\ n.lev2 = r.lev2
          /\ n.avail1 = r.avail1 /\ n.avail2 = r.avail2
          /\ n.ram1 = [r.ram1 EXCEPT ![p] = tab] /\ n.ram2 = r.ram2 /\ n.status = r.status
      BY <2>4, <3>3 DEF Good, Fields
    <3>7. p \in Frames
      BY <3>2, TablesNumbered DEF Sound
    <3>8. n.ram1 = [w.ram1 EXCEPT ![p] = tab] /\ n.ram1[p] = tab
      <4>1. w.ram1 \in [{Rom} \cup Frames -> [Top -> Entry1]]
        BY <1>5 DEF Good
      <4>. QED
        BY <3>2, <3>6, <3>7, <4>1
    <3>9. Good(n)
      <4>1. n.ram1 \in [{Rom} \cup Frames -> [Top -> Entry1]]
        <5>1. w.ram1 \in [{Rom} \cup Frames -> [Top -> Entry1]]
          BY <1>5 DEF Good
        <5>. QED
          BY <3>4, <3>8, <5>1
      <4>. QED
        BY <2>4, <3>6, <4>1 DEF Good
    <3>10. Sound(n)
      BY <3>2, <3>6 DEF Sound
    <3>11. DOMAIN mapped = Out1(w.lev1, w.avail1)
      BY <2>3 DEF Owned
    <3>12. /\ DOMAIN mapped' = DOMAIN mapped \cup {p} /\ p \notin DOMAIN mapped
           /\ \A q \in DOMAIN mapped : mapped'[q] = mapped[q]
      BY <3>1, <3>2, <3>11
    <3>13. mapped'[p] = Answers(n.ram1, n.ram2, p)
      <4>1. mapped'[p] = to
        BY <3>1
      <4>. QED
        BY <3>4, <3>8, <4>1
    <3>14. Owned(n, mapped', spare)
      <4>1. Out1(n.lev1, n.avail1) = DOMAIN mapped \cup {p} /\ n.lev2 = w.lev2 /\ n.avail2 = w.avail2 /\ n.ram2 = w.ram2
        BY <3>2, <3>6, <3>11
      <4>2. Filled(n.ram1, w.ram1, p, tab) /\ Entering(mapped', mapped, p, Answers(n.ram1, n.ram2, p))
        BY <3>4, <3>8, <3>12, <3>13 DEF Filled, Entering
      <4>. QED
        BY <1>5, <2>3, <3>7, <3>10, <3>12, <4>1, <4>2, NewTop
    <3>. QED
      BY <1>1, <1>2, <3>5, <3>7, <3>9, <3>12, <3>14, AfterCall
  <2>. QED
    BY <2>5, <2>6
<1>. QED
  BY <1>6, <1>7

LEMMA InitInv == Init => IInv
<1> SUFFICES ASSUME Init PROVE IInv
  OBVIOUS
<1>1. PICK f \in GetPages(Frames, Entries2, Entries2) :
        /\ free = Taken(Frames, f, Entries2)
        /\ kernel_page_table = SetupKernel(f)
        /\ status = IF f = Rom THEN "rom" ELSE "running"
  BY DEF Init
<1>2. /\ lev_1_pts = [i \in 0 .. L1Tables - 1 |-> None] /\ lev_2_pts = [i \in 0 .. L2Pages - 1 |-> None]
      /\ avail_l1_pts = <<>> /\ avail_l2_pts = <<>> /\ mapped = <<>> /\ spare = {}
      /\ ram1 = [g \in {Rom} \cup Frames |-> Junk1] /\ ram2 = [t \in Numbered |-> Junk2]
  BY DEF Init, Numbered
<1>3. KernelInv
  <2>1. f \in Nat
    BY GetPagesFree DEF Rom
  <2>2. f \div Entries2 \in Nat
    BY <2>1, Sizes, DivisionParts
  <2>3. \A b \in Nat : Section(b) \in Entry1 /\ Section(b).key = 2
    BY DEF Section, Entry1
  <2>4. ASSUME NEW e \in Top
        PROVE  /\ kernel_page_table[e] \in Entry1 /\ kernel_page_table[e].key \in 0 .. 2
               /\ ~OfWindow(kernel_page_table[e])
               /\ kernel_page_table[e].key = 1 <=> e \in DOMAIN Statics
               /\ e < Private => kernel_page_table[e] = Fault
    <3> DEFINE x == kernel_page_table[e]
    <3>0. x = CASE e = StackEntry -> Section(f \div Entries2)
                [] e \in DOMAIN Sections -> Section(Sections[e])
                [] e \in DOMAIN Statics -> Coarse(Statics[e])
                [] OTHER -> Fault
      BY <1>1 DEF SetupKernel
    <3>1. /\ e \in DOMAIN Statics => e \notin DOMAIN Sections /\ e # StackEntry /\ Statics[e] \in Nat
          /\ e \in DOMAIN Sections => e # StackEntry /\ Sections[e] \in Nat
          /\ e < Private => e # StackEntry /\ e \notin DOMAIN Sections /\ e \notin DOMAIN Statics
      OBVIOUS
    <3> HIDE DEF x
    <3>2. CASE e = StackEntry
      <4>1. x = Section(f \div Entries2) /\ e \notin DOMAIN Statics /\ ~(e < Private)
        BY <3>0, <3>1, <3>2
      <4>. QED
        BY <2>2, <2>3, <4>1, EntryIs DEF x
    <3>3. CASE e \in DOMAIN Sections
      <4>1. x = Section(Sections[e]) /\ e \notin DOMAIN Statics /\ ~(e < Private)
        BY <3>0, <3>1, <3>3
      <4>. QED
        BY <2>3, <3>1, <3>3, <4>1, EntryIs DEF x
    <3>4. CASE e \in DOMAIN Statics
      <4>1. x = Coarse(Statics[e]) /\ Statics[e] \in Nat /\ ~(e < Private)
        BY <3>0, <3>1, <3>4
      <4>2. x \in Entry1 /\ x.key = 1 /\ x.base = Statics[e]
        BY <4>1, EntryIs
      <4>3. ~OfWindow(x)
        BY <3>4, <4>2 DEF OfWindow
      <4>. QED
        BY <3>4, <4>1, <4>2, <4>3 DEF x
    <3>5. CASE e # StackEntry /\ e \notin DOMAIN Sections /\ e \notin DOMAIN Statics
      <4>1. x = Fault
        BY <3>0, <3>5
      <4>. QED
        BY <3>5, <4>1, EntryIs DEF x
    <3>. QED
      BY <3>2, <3>3, <3>4, <3>5
  <2>5. kernel_page_table = [e \in Top |-> kernel_page_table[e]]
    BY <1>1 DEF SetupKernel
  <2>. QED
    BY <2>4, <2>5 DEF KernelInv
<1>4. Good(State)
  <2>1. PICK u \in UserFrames : u = CHOOSE g \in UserFrames : TRUE
    OBVIOUS
  <2>2. Junk1 \in [Top -> Entry1]
    <3>1. Section(u) \in Entry1
      BY DEF Section, Entry1
    <3>. QED
      BY <2>1, <3>1 DEF Junk1
  <2>3. Junk2 \in [0 .. Entries2 - 1 -> {0} \cup UserFrames]
    BY <2>1 DEF Junk2
  <2>4. State.free \subseteq Frames
    BY <1>1, StateIs DEF Taken
  <2>5. State.ram1 \in [{Rom} \cup Frames -> [Top -> Entry1]]
    BY <1>2, <2>2, StateIs
  <2>6. State.ram2 \in [Numbered -> [0 .. Entries2 - 1 -> {0} \cup UserFrames]]
    BY <1>2, <2>3, StateIs
  <2>7. State.lev1 \in [0 .. L1Tables - 1 -> Frames \cup {None, Rom}] /\ State.lev2 \in [0 .. L2Pages - 1 -> Frames \cup {None, Rom}]
    BY <1>2, StateIs
  <2>8. State.avail1 \in Seq(0 .. L1Tables - 1) /\ State.avail2 \in Seq(0 .. L2Pages * PerPage - 1)
    BY <1>2, StateIs
  <2>. QED
    BY <2>4, <2>5, <2>6, <2>7, <2>8, StateIs DEF Good, Statuses
<1>5. Held(State.lev1) = {} /\ Held(State.lev2) = {}
  BY <1>2, StateIs DEF Held
<1>6. Sound(State)
  <2>1. WindowsOK(State.free, State.lev1, State.lev2)
    <3>1. State.free \subseteq Frames
      BY <1>4 DEF Good
    <3>2. State.lev1 \in [0 .. L1Tables - 1 -> Int] /\ State.lev2 \in [0 .. L2Pages - 1 -> Int]
      BY <1>2, StateIs DEF None
    <3>. QED
      BY <1>5, <3>1, <3>2 DEF WindowsOK
  <2>2. List1OK(State.avail1, State.lev1) /\ List2OK(State.avail2, State.lev2)
    BY <1>2, StateIs DEF List1OK, List2OK
  <2>. QED
    BY <2>1, <2>2 DEF Sound
<1>7. DOMAIN mapped = {}
  BY <1>2
<1>8. Out1(State.lev1, State.avail1) = {} /\ Out2(State.lev2, State.avail2) = {}
  BY <1>5 DEF Out1, Out2, Tables1, Tables2
<1>9. EnteredIn(State.ram1, DOMAIN mapped) = {}
  BY <1>7 DEF EnteredIn
<1>10. Owned(State, mapped, spare)
  BY <1>2, <1>6, <1>7, <1>8, <1>9 DEF Owned
<1>. QED
  BY <1>1, <1>2, <1>3, <1>4, <1>7, <1>10 DEF IInv, Statuses

LEMMA NextInv == IInv /\ [Next]_vars => IInv'
<1> SUFFICES ASSUME IInv, [Next]_vars PROVE IInv'
  OBVIOUS
<1>1. CASE UNCHANGED vars
  <2>1. UNCHANGED <<free, kernel_page_table, lev_1_pts, lev_2_pts, avail_l1_pts, avail_l2_pts, ram1, ram2, status, mapped, spare>>
    BY <1>1 DEF vars
  <2>2. State' = State
    BY <2>1 DEF State
  <2>. QED
    BY <2>1, <2>2 DEF IInv, KernelInv
<1>. QED
  BY <1>1, PtNewInv, PtL1AllocInv, PtL2AllocInv, PtL1FreeInv, PtL2FreeInv, PtAddMappingInv DEF Next

LEMMA Invariance == Spec => []IInv
  BY InitInv, NextInv, PTL DEF Spec
-----------------------------------------------------------------------------
(* What the properties say, in the terms of the invariant *)
LEMMA Windows ==
  ASSUME IInv, status = "running"
  PROVE  /\ Window1 = Tables1(lev_1_pts) /\ Window2 = Tables2(lev_2_pts)
         /\ Listed1 = Listing1(avail_l1_pts, lev_1_pts) /\ Listed2 = Listing2(avail_l2_pts, lev_2_pts)
         /\ Entered = EnteredIn(ram1, DOMAIN mapped)
<1>1. Good(State) /\ Owned(State, mapped, spare) /\ WindowsOK(State.free, State.lev1, State.lev2)
  BY DEF IInv, Owned, Sound
<1>2. WindowsOK(free, lev_1_pts, lev_2_pts)
  BY <1>1, StateIs
<1>3. Window1 = Tables1(lev_1_pts)
  BY DEF Window1, Tables1, Held
<1>4. Window2 = Tables2(lev_2_pts)
  <2>1. \A i \in Held(lev_2_pts) : i \in DOMAIN lev_2_pts /\ lev_2_pts[i] # None /\ lev_2_pts[i] \in Nat
    BY <1>2 DEF WindowsOK, Held
  <2>2. ASSUME NEW t, NEW f \in Nat
        PROVE  t \in f * PerPage .. f * PerPage + PerPage - 1 <=> t \in Nat /\ t \div PerPage = f
    <3>1. PICK n \in Nat : n = f * PerPage
      BY Sizes
    <3>2. ASSUME t \in n .. n + PerPage - 1 PROVE t \in Nat /\ t \div PerPage = f
      <4>1. t \in Nat /\ t - n \in 0 .. PerPage - 1 /\ n + (t - n) = t
        BY <3>1, <3>2, Sizes
      <4>2. (f * PerPage + (t - n)) \div PerPage = f
        BY <4>1, Sizes, Division, Zenon
      <4>. QED
        BY <3>1, <4>1, <4>2, Zenon
    <3>3. ASSUME t \in Nat, t \div PerPage = f PROVE t \in n .. n + PerPage - 1
      <4>1. t = f * PerPage + (t % PerPage) /\ t % PerPage \in 0 .. PerPage - 1
        BY <3>3, Sizes, DivisionParts
      <4>. QED
        BY <3>1, <3>3, <4>1, Sizes
    <3>. QED
      BY <3>1, <3>2, <3>3, Zenon
  <2>3. \A f \in {lev_2_pts[i] : i \in DOMAIN lev_2_pts} \ {None} : \E i \in Held(lev_2_pts) : f = lev_2_pts[i]
    BY DEF Held
  <2>4. \A i \in Held(lev_2_pts) : lev_2_pts[i] \in {lev_2_pts[j] : j \in DOMAIN lev_2_pts} \ {None}
    BY DEF Held
  <2>5. ASSUME NEW t \in Window2 PROVE t \in Tables2(lev_2_pts)
    <3>1. PICK i \in Held(lev_2_pts) : t \in lev_2_pts[i] * PerPage .. lev_2_pts[i] * PerPage + PerPage - 1
      BY <2>3 DEF Window2
    <3>. QED
      BY <2>1, <2>2, <3>1, Zenon DEF Tables2
  <2>6. ASSUME NEW t \in Tables2(lev_2_pts) PROVE t \in Window2
    <3>1. PICK i \in Held(lev_2_pts) : t \in Nat /\ t \div PerPage = lev_2_pts[i]
      BY DEF Tables2
    <3>2. t \in lev_2_pts[i] * PerPage .. lev_2_pts[i] * PerPage + PerPage - 1
      BY <2>1, <2>2, <3>1, Zenon
    <3>. QED
      BY <2>4, <3>2, Zenon DEF Window2
  <2>. QED
    BY <2>5, <2>6
<1>5. Entered = EnteredIn(ram1, DOMAIN mapped)
  <2>1. ASSUME NEW p \in DOMAIN mapped, NEW e \in Top, OfWindow(ram1[p][e])
        PROVE  ram1[p][e].base \in EnteredIn(ram1, DOMAIN mapped)
    BY <1>1, <2>1, StateIs, OwnedTypes
  <2>2. ASSUME NEW t \in EnteredIn(ram1, DOMAIN mapped)
        PROVE  \E p \in DOMAIN mapped : \E e \in Uses(p) : t = ram1[p][e].base
    <3>1. PICK p \in DOMAIN mapped, e \in Top : ram1[p][e] = Coarse(t)
      BY DEF EnteredIn
    <3>2. t \in Nat /\ OfWindow(Coarse(t))
      BY DEF EnteredIn
    <3>3. e \in Uses(p) /\ ram1[p][e].base = t
      BY <3>1, <3>2, EntryIs DEF Uses
    <3>. QED
      BY <3>3
  <2>3. \A t \in Entered : t \in EnteredIn(ram1, DOMAIN mapped)
    BY <2>1 DEF Entered, Uses
  <2>4. \A t \in EnteredIn(ram1, DOMAIN mapped) : t \in Entered
    BY <2>2 DEF Entered
  <2>. QED
    BY <2>3, <2>4
<1>. QED
  BY <1>3, <1>4, <1>5 DEF Listed1, Listed2, Listing1, Listing2

LEMMA InvTypes == IInv => TypeOK
<1> SUFFICES ASSUME IInv PROVE TypeOK
  OBVIOUS
<1>1. Good(State) /\ status \in Statuses /\ DOMAIN mapped \subseteq Frames /\ spare \subseteq Numbered
  BY DEF IInv
<1>2. kernel_page_table \in [Top -> Entry1]
  BY DEF IInv, KernelInv
<1>3. ram1 \in [{Rom} \cup Frames -> [Top -> Entry1]] /\ ram2 \in [Numbered -> [0 .. Entries2 - 1 -> {0} \cup UserFrames]]
  BY <1>1, StateIs DEF Good
<1>4. \A f \in DOMAIN ram1 : ram1[f] \in [Top -> Entry1]
  BY <1>3
<1>5. \A t \in DOMAIN ram2 : ram2[t] \in [0 .. Entries2 - 1 -> {0} \cup UserFrames]
  BY <1>3
<1>6. spare \subseteq DOMAIN ram2
  BY <1>1, <1>3
<1>. QED
  BY <1>1, <1>2, <1>4, <1>5, <1>6, StateIs DEF TypeOK, Good, Statuses

LEMMA InvOneOwner == IInv => OneOwner
<1> SUFFICES ASSUME IInv, status = "running"
             PROVE  /\ IsInjective(avail_l1_pts) /\ IsInjective(avail_l2_pts)
                    /\ Listed2 \cup Entered \cup spare = Window2
                    /\ Listed2 \cap Entered = {} /\ Listed2 \cap spare = {} /\ Entered \cap spare = {}
                    /\ \A p, q \in DOMAIN mapped : \A d \in Uses(p), e \in Uses(q) :
                         ram1[p][d].base = ram1[q][e].base => p = q /\ d = e
                    /\ Listed1 \cup DOMAIN mapped = Window1 /\ Listed1 \cap DOMAIN mapped = {}
                    /\ LET runs == {lev_1_pts[i] .. lev_1_pts[i] + L1Frames - 1 : i \in {j \in DOMAIN lev_1_pts : lev_1_pts[j] # None}}
                                     \cup {{lev_2_pts[i]} : i \in {j \in DOMAIN lev_2_pts : lev_2_pts[j] # None}}
                       IN /\ \A r \in runs : r \cap free = {}
                          /\ \A r, s \in runs : r # s => r \cap s = {}
  BY InvTypes DEF OneOwner
<1>1. Good(State) /\ Owned(State, mapped, spare)
  BY DEF IInv
<1>2. /\ WindowsOK(free, lev_1_pts, lev_2_pts) /\ List1OK(avail_l1_pts, lev_1_pts) /\ List2OK(avail_l2_pts, lev_2_pts)
      /\ DOMAIN mapped = Out1(lev_1_pts, avail_l1_pts)
      /\ EnteredIn(ram1, DOMAIN mapped) \cup spare = Out2(lev_2_pts, avail_l2_pts)
      /\ EnteredIn(ram1, DOMAIN mapped) \cap spare = {}
  BY <1>1, StateIs DEF Owned, Sound
<1>3. DOMAIN avail_l1_pts = 1 .. Len(avail_l1_pts) /\ DOMAIN avail_l2_pts = 1 .. Len(avail_l2_pts)
  BY <1>2 DEF List1OK, List2OK
<1>4. IsInjective(avail_l1_pts) /\ IsInjective(avail_l2_pts)
  BY <1>2, <1>3 DEF List1OK, List2OK, IsInjective
<1>5. Listing1(avail_l1_pts, lev_1_pts) \subseteq Tables1(lev_1_pts)
  BY <1>2, <1>3 DEF List1OK, Listing1, Tables1, L1LookupPhys
<1>6. Listing2(avail_l2_pts, lev_2_pts) \subseteq Tables2(lev_2_pts)
  <2>1. ASSUME NEW k \in 1 .. Len(avail_l2_pts) PROVE L2LookupPhys(lev_2_pts, avail_l2_pts[k]) \in Tables2(lev_2_pts)
    <3>1. avail_l2_pts[k] \in 0 .. L2Pages * PerPage - 1 /\ avail_l2_pts[k] \div PerPage \in Held(lev_2_pts)
      BY <1>2, <1>3 DEF List2OK
    <3>. QED
      BY <1>2, <3>1, TableAtPlace
  <2>. QED
    BY <1>3, <2>1 DEF Listing2
<1>7. /\ Listed2 \cup Entered \cup spare = Window2
      /\ Listed2 \cap Entered = {} /\ Listed2 \cap spare = {} /\ Entered \cap spare = {}
      /\ Listed1 \cup DOMAIN mapped = Window1 /\ Listed1 \cap DOMAIN mapped = {}
  BY <1>2, <1>5, <1>6, Windows DEF Out1, Out2
<1>8. ASSUME NEW p \in DOMAIN mapped, NEW q \in DOMAIN mapped, NEW d \in Uses(p), NEW e \in Uses(q),
             ram1[p][d].base = ram1[q][e].base
      PROVE  p = q /\ d = e
  <2>1. d \in Top /\ e \in Top /\ OfWindow(ram1[p][d]) /\ OfWindow(ram1[q][e])
    BY DEF Uses
  <2>2. ram1[p][d] = Coarse(ram1[p][d].base) /\ ram1[q][e] = Coarse(ram1[q][e].base)
    BY <1>1, <2>1, StateIs, OwnedTypes
  <2>3. ram1[p][d] = ram1[q][e]
    BY <1>8, <2>2
  <2>. QED
    BY <1>1, <2>1, <2>3, StateIs DEF Owned
<1> DEFINE runs1 == {lev_1_pts[i] .. lev_1_pts[i] + L1Frames - 1 : i \in {j \in DOMAIN lev_1_pts : lev_1_pts[j] # None}}
           runs2 == {{lev_2_pts[i]} : i \in {j \in DOMAIN lev_2_pts : lev_2_pts[j] # None}}
<1>9. /\ \A r \in runs1 : \E i \in Held(lev_1_pts) : r = Run(lev_1_pts[i])
      /\ \A r \in runs2 : \E i \in Held(lev_2_pts) : r = {lev_2_pts[i]}
  BY DEF Held, Run
<1> HIDE DEF runs1, runs2
<1>10. \A r \in runs1 \cup runs2 : r \cap free = {}
  BY <1>2, <1>9 DEF WindowsOK
<1>11. ASSUME NEW r \in runs1 \cup runs2, NEW s \in runs1 \cup runs2, r # s PROVE r \cap s = {}
  <2>1. ASSUME NEW i \in Held(lev_1_pts), NEW j \in Held(lev_1_pts), Run(lev_1_pts[i]) # Run(lev_1_pts[j])
        PROVE  Run(lev_1_pts[i]) \cap Run(lev_1_pts[j]) = {}
    BY <1>2, <2>1 DEF WindowsOK
  <2>2. \A i \in Held(lev_1_pts), j \in Held(lev_2_pts) : lev_2_pts[j] \notin Run(lev_1_pts[i])
    BY <1>2 DEF WindowsOK
  <2>3. CASE r \in runs1 /\ s \in runs1
    BY <1>9, <1>11, <2>1, <2>3
  <2>4. CASE r \in runs1 /\ s \in runs2
    BY <1>9, <2>2, <2>4
  <2>5. CASE r \in runs2 /\ s \in runs1
    BY <1>9, <2>2, <2>5
  <2>6. CASE r \in runs2 /\ s \in runs2
    <3>1. PICK i \in Held(lev_2_pts) : r = {lev_2_pts[i]}
      BY <1>9, <2>6, Zenon
    <3>2. PICK j \in Held(lev_2_pts) : s = {lev_2_pts[j]}
      BY <1>9, <2>6, Zenon
    <3>. QED
      BY <1>11, <3>1, <3>2
  <2>. QED
    BY <2>3, <2>4, <2>5, <2>6
<1>. QED
  BY <1>4, <1>7, <1>8, <1>10, <1>11 DEF runs1, runs2

(* Tables in use and entered are found in their windows, so virt_to_phys   *)
(* panics only where the kernel's own tables are named.                    *)
LEMMA VirtToPhysIs ==
  ASSUME IInv, status = "running", NEW p \in DOMAIN mapped, NEW v \in Pages
  PROVE  VirtToPhys(p, v) = AnswerIn(ram1, ram2, p, v) /\ VirtToPhys(p, v) = mapped[p][v]
<1>1. Good(State) /\ Owned(State, mapped, spare)
  BY DEF IInv
<1>2. WindowsOK(free, lev_1_pts, lev_2_pts) /\ DOMAIN mapped = Out1(lev_1_pts, avail_l1_pts)
  BY <1>1, StateIs DEF Owned, Sound
<1>3. L1LookupVirt(lev_1_pts, p) # None
  BY <1>2, PlaceOfTop DEF Out1
<1>4. v \div Entries2 \in Top
  BY PageInTable
<1> DEFINE e == ram1[p][v \div Entries2]
<1>5. e.key \in 0 .. 2
  <2>1. ram1[p] \in [Top -> Entry1]
    BY <1>1, StateIs, OwnedTypes
  <2>2. e \in Entry1
    BY <1>4, <2>1
  <2>. QED
    BY <2>2, EntryIs
<1>6. /\ OfWindow(e) => e.key = 1 /\ L2LookupVirt(lev_2_pts, e.base) # None
      /\ e.key = 1 /\ ~OfWindow(e) => L2LookupVirt(lev_2_pts, e.base) = None
  <2>1. OfWindow(e) => e.base \in Tables2(lev_2_pts)
    BY <1>1, <1>4, StateIs, OwnedTypes
  <2>. QED
    BY <1>2, <2>1, PlaceOfTable, StaticUnseen, EntryIs
<1>7. VirtToPhys(p, v) = AnswerIn(ram1, ram2, p, v)
  <2> HIDE DEF e
  <2>1. CASE e.key = 0
    BY <1>3, <1>6, <2>1 DEF VirtToPhys, AnswerIn, e
  <2>2. CASE e.key = 1
    BY <1>3, <1>6, <2>2 DEF VirtToPhys, AnswerIn, e
  <2>3. CASE e.key = 2
    BY <1>3, <1>6, <2>3 DEF VirtToPhys, AnswerIn, e
  <2>. QED
    BY <1>5, <2>1, <2>2, <2>3
<1>8. mapped[p][v] = AnswerIn(ram1, ram2, p, v)
  <2>1. mapped[p] = Answers(ram1, ram2, p)
    BY <1>1, StateIs DEF Owned
  <2>. QED
    BY <2>1 DEF Answers
<1>. QED
  BY <1>7, <1>8

LEMMA InvTranslates == IInv => Translates
  BY VirtToPhysIs DEF Translates

(* The entries of a process that name tables: those in the kernel's image  *)
(* are not in the window, the others are.                                  *)
LEMMA UnseenIs ==
  ASSUME IInv, status = "running", NEW p \in DOMAIN mapped, NEW e \in Top, ram1[p][e].key = 1
  PROVE  /\ Unseen(ram1[p][e]) <=> ~OfWindow(ram1[p][e])
         /\ OfWindow(ram1[p][e]) => ram2[ram1[p][e].base] \in [0 .. Entries2 - 1 -> {0} \cup UserFrames]
<1>1. Good(State) /\ Owned(State, mapped, spare)
  BY DEF IInv
<1>2. WindowsOK(free, lev_1_pts, lev_2_pts)
  BY <1>1, StateIs DEF Owned, Sound
<1>3. OfWindow(ram1[p][e]) => ram1[p][e].base \in Tables2(lev_2_pts) /\ ram1[p][e].base \in Numbered
  BY <1>1, StateIs, OwnedTypes
<1>4. OfWindow(ram1[p][e]) => L2LookupVirt(lev_2_pts, ram1[p][e].base) # None
  BY <1>2, <1>3, PlaceOfTable
<1>5. ~OfWindow(ram1[p][e]) => L2LookupVirt(lev_2_pts, ram1[p][e].base) = None
  BY <1>2, StaticUnseen
<1>6. ram2 \in [Numbered -> [0 .. Entries2 - 1 -> {0} \cup UserFrames]]
  BY <1>1, StateIs DEF Good
<1>. QED
  BY <1>3, <1>4, <1>5, <1>6 DEF Unseen

LEMMA InvFindsBack == IInv => FindsBack
<1> SUFFICES ASSUME IInv, status = "running", NEW p \in DOMAIN mapped, NEW f \in UserFrames
             PROVE  LET v == PhysToVirt(p, f)
                    IN CASE v = None -> \A w \in Pages : mapped[p][w] \notin {f, Panic}
                         [] v = Panic -> \E u \in Pages : /\ mapped[p][u] = Panic
                                                          /\ \A w \in 0 .. u - 1 : mapped[p][w] \notin {f, Panic}
                         [] OTHER -> VirtToPhys(p, v) = f
  BY DEF FindsBack
<1> DEFINE sections == {e \in Top : ram1[p][e] = Section(f \div Entries2)}
           ends == {e \in Top : ram1[p][e].key = 1 /\ (Unseen(ram1[p][e]) \/ PhysToVirt2(ram1[p][e].base, f) # None)}
           v == PhysToVirt(p, f)
<1>1. Good(State) /\ Owned(State, mapped, spare)
  BY DEF IInv
<1>2. f \in Nat \ {0} /\ Top \subseteq Nat /\ sections \in SUBSET Nat /\ ends \in SUBSET Nat
  BY DEF Top
<1>3. /\ f \div Entries2 \in Nat /\ f % Entries2 \in 0 .. Entries2 - 1
      /\ f = (f \div Entries2) * Entries2 + (f % Entries2)
  BY <1>2, Sizes, DivisionParts
<1>4. \A e \in Top, k \in 0 .. Entries2 - 1 :
        /\ e * Entries2 + k \in Pages /\ e * Entries2 + k \notin {None, Panic}
        /\ (e * Entries2 + k) \div Entries2 = e /\ (e * Entries2 + k) % Entries2 = k
  <2>1. ASSUME NEW e \in Top, NEW k \in 0 .. Entries2 - 1
        PROVE  /\ e * Entries2 + k \in Pages /\ e * Entries2 + k \notin {None, Panic}
               /\ (e * Entries2 + k) \div Entries2 = e /\ (e * Entries2 + k) % Entries2 = k
    <3>1. e \in 0 .. Entries1 - 1 /\ Entries1 \in Nat /\ e \in Nat
      BY DEF Top
    <3>2. e * Entries2 + k \in 0 .. Entries1 * Entries2 - 1
      BY <3>1, Sizes, NumberBound
    <3>3. (e * Entries2 + k) \div Entries2 = e /\ (e * Entries2 + k) % Entries2 = k
      BY <3>1, Sizes, Division
    <3>. QED
      BY <3>2, <3>3 DEF Pages, None, Panic
  <2>. QED
    BY <2>1
<1>5. \A w \in Pages : VirtToPhys(p, w) = AnswerIn(ram1, ram2, p, w) /\ mapped[p][w] = AnswerIn(ram1, ram2, p, w)
  BY VirtToPhysIs
<1>6. v = CASE sections # {} -> (Least(sections) * Entries2) + (f % Entries2)
            [] sections = {} /\ ends = {} -> None
            [] OTHER -> IF Unseen(ram1[p][Least(ends)]) THEN Panic
                        ELSE (Least(ends) * Entries2) + PhysToVirt2(ram1[p][Least(ends)].base, f)
  <2>1. L1LookupVirt(lev_1_pts, p) # None
    BY <1>1, StateIs, PlaceOfTop DEF Owned, Sound, Out1
  <2>. QED
    BY <2>1 DEF PhysToVirt
<1> HIDE DEF v
<1>7. ASSUME sections = {}, NEW w \in Pages, w \div Entries2 \notin ends PROVE mapped[p][w] \notin {f, Panic}
  <2> DEFINE e == w \div Entries2
             k == w % Entries2
             x == ram1[p][e]
  <2>1. e \in Top /\ k \in 0 .. Entries2 - 1
    BY PageInTable
  <2>2. x \in Entry1 /\ x.key \in 0 .. 2 /\ x.base \in Nat
    <3>1. ram1[p] \in [Top -> Entry1]
      BY <1>1, StateIs, OwnedTypes
    <3>. QED
      BY <2>1, <3>1, EntryIs
  <2>3. CASE x.key = 0
    BY <1>2, <1>5, <2>3, EntryIs DEF AnswerIn, Panic
  <2>4. CASE x.key = 1
    <3>1. OfWindow(x) /\ PhysToVirt2(x.base, f) = None
      BY <1>7, <2>1, <2>4, UnseenIs
    <3>2. ram2[x.base][k] # f
      <4> DEFINE at == {l \in 0 .. Entries2 - 1 : ram2[x.base][l] = f}
      <4>1. at = {} \/ Least(at) = None
        BY <3>1 DEF PhysToVirt2
      <4>2. at \in SUBSET Nat
        BY Sizes
      <4>3. at # {} => Least(at) \in at
        BY <4>2, LeastIs, Zenon
      <4>4. None \notin at
        BY DEF None
      <4>5. at = {}
        BY <4>1, <4>3, <4>4
      <4>. QED
        BY <2>1, <4>5
    <3>3. ram2[x.base][k] \in {0} \cup UserFrames
      BY <2>1, <2>4, <3>1, UnseenIs
    <3>4. AnswerIn(ram1, ram2, p, w) = ram2[x.base][k]
      BY <2>4, <3>1 DEF AnswerIn
    <3>. QED
      BY <1>5, <3>2, <3>3, <3>4 DEF Panic
  <2>5. CASE x.key = 2
    <3>1. AnswerIn(ram1, ram2, p, w) = x.base * Entries2 + k
      BY <2>5, EntryIs DEF AnswerIn
    <3>2. ASSUME x.base * Entries2 + k = f PROVE FALSE
      <4>1. f \div Entries2 = x.base
        BY <2>1, <2>2, <3>2, Sizes, Division
      <4>2. x = Section(f \div Entries2)
        BY <2>2, <2>5, <4>1 DEF Entry1, Section
      <4>. QED
        BY <1>7, <2>1, <4>2
    <3>3. x.base * Entries2 \in Nat /\ k \in Nat
      BY <2>1, <2>2, Sizes
    <3>4. x.base * Entries2 + k # Panic
      BY <3>3 DEF Panic
    <3>. QED
      BY <1>5, <3>1, <3>2, <3>4
  <2>. QED
    BY <2>2, <2>3, <2>4, <2>5
<1>8. CASE sections # {}
  <2> DEFINE e == Least(sections)
             k == f % Entries2
  <2>1. e \in sections
    BY <1>2, <1>8, LeastIs, Zenon
  <2>2. e \in Top /\ ram1[p][e] = Section(f \div Entries2)
    BY <2>1
  <2>3. v = e * Entries2 + k
    BY <1>6, <1>8
  <2> HIDE DEF e
  <2>4. v \in Pages /\ v \notin {None, Panic} /\ v \div Entries2 = e /\ v % Entries2 = k
    BY <1>3, <1>4, <2>2, <2>3
  <2>5. AnswerIn(ram1, ram2, p, v) = (f \div Entries2) * Entries2 + k
    BY <2>2, <2>4, EntryIs DEF AnswerIn, Section
  <2>6. VirtToPhys(p, v) = f
    BY <1>3, <1>5, <2>4, <2>5
  <2>. QED
    BY <2>4, <2>6 DEF v
<1>9. CASE sections = {} /\ ends = {}
  <2>1. v = None
    BY <1>6, <1>9
  <2>2. \A w \in Pages : mapped[p][w] \notin {f, Panic}
    BY <1>7, <1>9
  <2>. QED
    BY <2>1, <2>2 DEF v, None, Panic
<1>10. CASE sections = {} /\ ends # {}
  <2> DEFINE e == Least(ends)
             t == ram1[p][e].base
  <2>1. e \in ends /\ \A d \in ends : e <= d
    BY <1>2, <1>10, LeastIs, Zenon
  <2>2. e \in Top /\ e \in Nat /\ ram1[p][e].key = 1 /\ (Unseen(ram1[p][e]) \/ PhysToVirt2(t, f) # None)
    BY <1>2, <2>1
  <2>3. v = IF Unseen(ram1[p][e]) THEN Panic ELSE e * Entries2 + PhysToVirt2(t, f)
    BY <1>6, <1>10
  <2> HIDE DEF e
  <2>4. CASE Unseen(ram1[p][e])
    <3> DEFINE u == e * Entries2 + 0
    <3>1. 0 \in 0 .. Entries2 - 1
      BY Sizes
    <3>2. u \in Pages /\ u \div Entries2 = e
      BY <1>4, <2>2, <3>1
    <3>3. ~OfWindow(ram1[p][e])
      BY <2>2, <2>4, UnseenIs
    <3> HIDE DEF u
    <3>4. mapped[p][u] = Panic
      BY <1>5, <2>2, <3>2, <3>3 DEF AnswerIn
    <3>5. ASSUME NEW w \in 0 .. u - 1 PROVE mapped[p][w] \notin {f, Panic}
      <4>1. u \in Nat /\ u \in 0 .. Entries1 * Entries2 - 1
        BY <3>2 DEF Pages
      <4>2. w \in Pages /\ w \in 0 .. e * Entries2 - 1
        <5>1. e * Entries2 \in Int
          BY <2>2, Sizes
        <5>2. u = e * Entries2
          BY <5>1 DEF u
        <5>3. w \in 0 .. u - 1 /\ w \in 0 .. Entries1 * Entries2 - 1
          BY <4>1
        <5>. QED
          BY <5>2, <5>3 DEF Pages
      <4>3. w \div Entries2 \in 0 .. e - 1
        BY <2>2, <4>2, Sizes, DivisionBound
      <4>4. w \div Entries2 \notin ends
        <5> HIDE DEF ends
        <5>. QED
          BY <2>1, <2>2, <4>3
      <4>. QED
        BY <1>7, <1>10, <4>2, <4>4
    <3>6. v = Panic /\ Panic # None
      BY <2>3, <2>4 DEF Panic, None
    <3>. QED
      BY <3>2, <3>4, <3>5, <3>6 DEF v
  <2>5. CASE ~Unseen(ram1[p][e])
    <3> DEFINE at == {k \in 0 .. Entries2 - 1 : ram2[t][k] = f}
               k == Least(at)
    <3>1. v = e * Entries2 + PhysToVirt2(t, f) /\ PhysToVirt2(t, f) # None
      BY <2>2, <2>3, <2>5
    <3>2. OfWindow(ram1[p][e])
      BY <2>2, <2>5, UnseenIs
    <3> HIDE DEF t
    <3>3. at # {} /\ PhysToVirt2(t, f) = k
      BY <3>1 DEF PhysToVirt2
    <3>4. at \in SUBSET Nat
      BY Sizes
    <3>5. k \in at
      BY <3>3, <3>4, LeastIs, Zenon
    <3>6. k \in 0 .. Entries2 - 1 /\ ram2[t][k] = f
      BY <3>5
    <3> HIDE DEF k, at
    <3>7. v \in Pages /\ v \notin {None, Panic} /\ v \div Entries2 = e /\ v % Entries2 = k
      BY <1>4, <2>2, <3>1, <3>3, <3>6
    <3>8. AnswerIn(ram1, ram2, p, v) = f
      BY <2>2, <3>2, <3>6, <3>7 DEF AnswerIn, t
    <3>9. VirtToPhys(p, v) = f
      BY <1>5, <3>7, <3>8
    <3>. QED
      BY <3>7, <3>9 DEF v
  <2>. QED
    BY <2>4, <2>5
<1>. QED
  BY <1>8, <1>9, <1>10
-----------------------------------------------------------------------------
(* Every table that pt_alloc.c hands out has one owner: the list it waits  *)
(* on, the process whose table it is entered in, or the caller it was      *)
(* given to; and no frame holds two things.                                *)
THEOREM TablesHaveOneOwner == Spec => []OneOwner
  BY Invariance, InvOneOwner, PTL

(* virt_to_phys gives a process, for every page, the frame that            *)
(* pt_add_mapping last gave it there, whatever the frames of its tables    *)
(* held before and whatever is mapped for others.                          *)
THEOREM MappingsTranslate == Spec => []Translates
  BY Invariance, InvTranslates, PTL

(* phys_to_virt undoes pt_add_mapping, in sections as in pages.            *)
THEOREM MappingsFindBack == Spec => []FindsBack
  BY Invariance, InvFindsBack, PTL
=============================================================================
