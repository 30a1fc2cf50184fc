---------------------------- MODULE PageAllocator ----------------------------
(***************************************************************************)
(* What a page-frame allocator promises its callers, with no word on how   *)
(* the frames are searched: phys_mem.c is shown to implement it.           *)
(*                                                                         *)
(* A caller asks for a number of contiguous frames on an alignment.  The   *)
(* answer is a run that was free, aligned, and is the caller's until it is *)
(* released; the allocator may refuse only when no such run is free.       *)
(***************************************************************************)
EXTENDS Integers

CONSTANTS Frames,    \* the frames that are RAM and not the kernel's
          Requests   \* the [pages, align] pairs that callers ask for

VARIABLES free,      \* the frames nobody holds
          held,      \* the granted runs: [start, pages, align]
          pending    \* {} or {the request being answered}

absVars == <<free, held, pending>>

(* The frames of the run of n that starts at s. *)
Run(s, n) == s .. s + n - 1

(* align = 1, 2, 3, ... asks for a multiple of 1, 2, 4, ... frames. *)
Stride(align) == 2 ^ (align - 1)

Fits(s, r) == s % Stride(r.align) = 0 /\ Run(s, r.pages) \subseteq free

Init == free = Frames /\ held = {} /\ pending = {}

Ask(r) == /\ pending = {}
          /\ pending' = {r}
          /\ UNCHANGED <<free, held>>

Grant(r, s) == /\ pending = {r}
               /\ Fits(s, r)
               /\ free' = free \ Run(s, r.pages)
               /\ held' = held \cup {[start |-> s, pages |-> r.pages, align |-> r.align]}
               /\ pending' = {}

Refuse(r) == /\ pending = {r}
             /\ \A s \in Frames : ~Fits(s, r)
             /\ pending' = {}
             /\ UNCHANGED <<free, held>>

Release(h) == /\ pending = {}
              /\ free' = free \cup Run(h.start, h.pages)
              /\ held' = held \ {h}
              /\ UNCHANGED pending

Next == \/ \E r \in Requests : Ask(r) \/ Refuse(r) \/ \E s \in Frames : Grant(r, s)
        \/ \E h \in held : Release(h)

Spec == Init /\ [][Next]_absVars
=============================================================================
