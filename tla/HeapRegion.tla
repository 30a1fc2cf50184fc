------------------------------ MODULE HeapRegion ------------------------------
(***************************************************************************)
(* What slab_create and slab_destroy promise kmalloc: runs of pages of the *)
(* kernel heap that overlap no run in use, or a panic.                     *)
(***************************************************************************)
EXTENDS Integers

CONSTANTS NumPages,   \* pages of the heap
          Requests    \* the numbers of pages asked for

VARIABLES slabs,      \* the runs in use: [at, pages]
          asked       \* {} or {the number of pages being looked for}

regionVars == <<slabs, asked>>

RunOf(s) == s.at .. s.at + s.pages - 1

Init == slabs = {} /\ asked = {}

Ask(n) == asked = {} /\ asked' = {n} /\ UNCHANGED slabs

Grant(n, at) ==
  /\ asked = {n}
  /\ at + n <= NumPages
  /\ \A s \in slabs : RunOf(s) \cap (at .. at + n - 1) = {}
  /\ slabs' = slabs \cup {[at |-> at, pages |-> n]}
  /\ asked' = {}

Release(s) == asked = {} /\ slabs' = slabs \ {s} /\ UNCHANGED asked

Next == \/ \E n \in Requests : Ask(n) \/ \E at \in 0 .. NumPages - 1 : Grant(n, at)
        \/ \E s \in slabs : Release(s)

Spec == Init /\ [][Next]_regionVars
=============================================================================
