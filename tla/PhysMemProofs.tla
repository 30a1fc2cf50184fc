---------------------------- MODULE PhysMemProofs ----------------------------
(***************************************************************************)
(* Proofs about PhysMem, for every memory map and every set of requests    *)
(* that PhysMemAssumption allows.  IInv is inductive; its SearchInv says   *)
(* which frames a search in progress has already ruled out.                *)
(***************************************************************************)
EXTENDS PhysMem, FiniteSetTheorems, TLAPS

USE DEF Pages, Run, FramesOf
-----------------------------------------------------------------------------
(* Arithmetic of alignments. *)

(* Rounding down gives an aligned frame that is no larger. *)
LEMMA AlignDownOK ==
  ASSUME NEW x \in Nat, NEW s \in Nat \ {0}
  PROVE  /\ AlignDown(x, s) \in Nat
         /\ AlignDown(x, s) <= x
         /\ AlignDown(x, s) % s = 0
<1> DEFINE q == x \div s
<1>1. q \in Nat /\ x = s * q + (x % s) /\ x % s \in 0 .. s - 1
  OBVIOUS
<1>2. s * q \in Nat /\ (s * q) % s = 0
  BY <1>1
<1>3. AlignDown(x, s) = s * q
  BY <1>1, <1>2 DEF AlignDown
<1>. QED
  BY <1>1, <1>2, <1>3

(* One stride past an aligned frame is aligned. *)
LEMMA NextIsAligned ==
  ASSUME NEW x \in Nat, NEW s \in Nat \ {0}, x % s = 0
  PROVE  (x + s) % s = 0
<1> DEFINE q == x \div s
<1>1. q \in Nat /\ x = s * q
  OBVIOUS
<1>2. q + 1 \in Nat /\ x + s = s * (q + 1)
  BY <1>1
<1>3. (s * (q + 1)) % s = 0
  BY <1>2
<1>. QED
  BY <1>2, <1>3

(* No aligned frame lies strictly between an aligned frame and the next. *)
LEMMA NoneBetween ==
  ASSUME NEW a \in Nat, NEW b \in Nat, NEW s \in Nat \ {0},
         a % s = 0, b % s = 0, a < b
  PROVE  a + s <= b
<1> DEFINE qa == a \div s
           qb == b \div s
<1>1. qa \in Nat /\ qb \in Nat /\ a = s * qa /\ b = s * qb
  OBVIOUS
<1>2. qa < qb
  <2>1. SUFFICES ASSUME qb <= qa PROVE FALSE
    BY <1>1
  <2>2. s * qb <= s * qa
    BY <1>1, <2>1
  <2>. QED
    BY <1>1, <2>2
<1>3. s * qa + s <= s * qb
  BY <1>1, <1>2
<1>. QED
  BY <1>1, <1>3

(* Zero is on every boundary. *)
LEMMA ZeroAligned == ASSUME NEW s \in Nat \ {0} PROVE 0 % s = 0
  OBVIOUS

(* A run of n frames has n members. *)
LEMMA RunSize ==
  ASSUME NEW s \in Nat, NEW n \in Nat \ {0}
  PROVE  Cardinality(Run(s, n)) = n
<1> DEFINE e == s + n - 1
<1>1. e \in Int /\ ~(s > e) /\ e - s + 1 = n
  OBVIOUS
<1> HIDE DEF e
<1>2. Cardinality(s .. e) = e - s + 1
  BY <1>1, FS_Interval
<1>. QED
  BY <1>1, <1>2 DEF e

(* What the assumption says of the request in progress. *)
LEMMA RequestOK ==
  ASSUME TypeOK
  PROVE  /\ req.pages \in Nat \ {0}
         /\ Stride(req.align) \in Nat \ {0}
         /\ NumPages \in Nat
         /\ \A p \in Probed : p + req.pages <= NumPages
  BY PhysMemAssumption DEF TypeOK

LEMMA ProbedFinite == Probed \subseteq Pages /\ IsFiniteSet(Probed)
<1>1. IsFiniteSet(0 .. NumPages - 1)
  BY FS_Interval, PhysMemAssumption
<1>2. Probed \subseteq Pages
  BY DEF Probed
<1>. QED
  BY <1>1, <1>2, FS_Subset
-----------------------------------------------------------------------------
(* The invariant holds initially. *)
LEMMA InitIInv == Init => IInv
<1> SUFFICES ASSUME Init PROVE IInv
  OBVIOUS
<1>1. TypeOK
  <2>1. Cardinality(Probed) \in Nat
    BY ProbedFinite, FS_CardinalityType
  <2>. QED
    BY <2>1, ProbedFinite DEF Init, TypeOK
<1>2. FramesConserved /\ CountExact /\ GrantsAligned
  BY DEF Init, FramesConserved, CountExact, GrantsAligned
<1>3. \A r \in Requests : current + r.pages <= NumPages
  BY PhysMemAssumption DEF Init
<1>. QED
  BY <1>1, <1>2, <1>3 DEF IInv, Init

(* A call leaves the frames alone and starts a search that has passed none. *)
LEMMA GetPagesIInv ==
  ASSUME IInv, NEW r \in Requests, GetPages(r)
  PROVE  IInv'
<1> DEFINE c == AlignDown(current, Stride(r.align))
<1>1. /\ r.pages \in Nat \ {0} /\ Stride(r.align) \in Nat \ {0}
      /\ current \in Nat /\ NumPages \in Nat
  BY PhysMemAssumption DEF IInv, TypeOK
<1>2. c \in Nat /\ c <= current /\ c % Stride(r.align) = 0
  BY <1>1, AlignDownOK
<1>3. TypeOK'
  BY <1>2 DEF IInv, TypeOK, GetPages
<1>4. (FramesConserved /\ CountExact /\ GrantsAligned)'
  BY DEF IInv, FramesConserved, CountExact, GrantsAligned, GetPages
<1>5. current' = c /\ first' = c /\ req' = r /\ pc' = "outer" /\ ~wrapped' /\ bitmap' = bitmap
  BY DEF GetPages
<1>6. \A q \in Requests : c + q.pages <= NumPages
  BY <1>1, <1>2, PhysMemAssumption DEF IInv, GetPages
<1>7. \A s \in bitmap : ~Passed(s)'
  BY <1>2, <1>5 DEF Passed, IInv, TypeOK
<1>8. SearchInv'
  BY <1>2, <1>5, <1>6, <1>7 DEF SearchInv, Aligned, HasRoom
<1>. QED
  BY <1>3, <1>4, <1>5, <1>8 DEF IInv

(* The test at the top of the outer loop. *)
LEMMA FindAlignedIInv == ASSUME IInv, FindAligned PROVE IInv'
<1>1. TypeOK'
  BY DEF IInv, TypeOK, FindAligned
<1>2. (FramesConserved /\ CountExact /\ GrantsAligned)'
  BY DEF IInv, FramesConserved, CountExact, GrantsAligned, FindAligned
<1>3. SearchInv /\ ~wrapped /\ pc' = "inner"
  BY DEF IInv, SearchInv, FindAligned
<1>4. SearchInv'
  BY <1>3 DEF SearchInv, Aligned, HasRoom, Passed, FindAligned, TypeOK, IInv
<1>. QED
  BY <1>1, <1>2, <1>3, <1>4 DEF IInv

(***************************************************************************)
(* Advancing keeps the search position aligned and in bounds, and every    *)
(* free aligned frame with room that it now has passed it had passed       *)
(* before, or is the frame it leaves, whose bit is clear.                  *)
(***************************************************************************)
LEMMA NextAlignedIInv == ASSUME IInv, NextAligned PROVE IInv'
<1> DEFINE st == Stride(req.align)
           c == current + st
           d == Advanced
<1>1. /\ req \in Requests /\ req.pages \in Nat \ {0} /\ st \in Nat \ {0} /\ NumPages \in Nat
      /\ current \in Nat /\ first \in Nat /\ bitmap \subseteq Pages
  BY RequestOK DEF IInv, TypeOK
<1>2. /\ SearchInv /\ pc = "inner" /\ pc' = "inner" /\ ~wrapped /\ ~found
      /\ current \notin bitmap /\ req.pages <= NumPages /\ first + req.pages <= NumPages
  BY <1>1, PhysMemAssumption DEF IInv, SearchInv, NextAligned
<1>3. /\ current' = d /\ first' = first /\ req' = req /\ bitmap' = bitmap
      /\ wrapped' = (d = first) /\ found' = (d # first /\ d \in bitmap)
  BY DEF NextAligned
<1>4. d = IF c + req.pages > NumPages THEN 0 ELSE c
  BY DEF Advanced
<1>5. d \in Nat /\ d % st = 0 /\ d + req.pages <= NumPages
  <2>1. c % st = 0
    BY <1>1, <1>2, NextIsAligned DEF SearchInv, Aligned
  <2>2. 0 % st = 0
    BY <1>1, ZeroAligned
  <2>. QED
    BY <1>1, <1>2, <1>4, <2>1, <2>2
<1>6. \A s \in Nat : s % st = 0 /\ current < s => c <= s
  BY <1>1, <1>2, NoneBetween DEF SearchInv, Aligned
<1>7. first % st = 0 /\ (current < first => c <= first)
  BY <1>1, <1>2, <1>6 DEF SearchInv, Aligned
<1>8. ASSUME NEW s \in bitmap, Aligned(s), HasRoom(s)
      PROVE  /\ d # first => ~Passed(s)'
             /\ d = first => FALSE
  <2>1. s \in Nat /\ s % st = 0 /\ s + req.pages <= NumPages /\ s # current
    BY <1>1, <1>2, <1>8 DEF Aligned, HasRoom
  <2>2. ~Passed(s)
    BY <1>2, <1>8 DEF SearchInv
  <2>3. current < s => c <= s
    BY <1>6, <2>1
  <2>4. CASE current < first
    <3>1. current < s /\ s < first
      BY <1>1, <2>1, <2>2, <2>4 DEF Passed
    <3>2. c <= s /\ d = c
      BY <1>1, <1>2, <1>4, <1>7, <2>3, <2>4, <3>1
    <3>. QED
      BY <1>1, <1>3, <2>1, <3>1, <3>2 DEF Passed
  <2>5. CASE ~(current < first)
    <3>1. s < first \/ current < s
      BY <1>1, <2>1, <2>2, <2>5 DEF Passed
    <3>2. CASE c + req.pages > NumPages
      <4>1. d = 0 /\ s < first
        BY <1>1, <1>4, <2>1, <2>3, <3>1, <3>2
      <4>. QED
        BY <1>1, <1>3, <2>1, <4>1 DEF Passed
    <3>3. CASE ~(c + req.pages > NumPages)
      <4>1. d = c /\ first < d
        BY <1>1, <1>4, <2>5, <3>3
      <4>. QED
        BY <1>1, <1>3, <2>1, <2>3, <3>1, <4>1 DEF Passed
    <3>. QED
      BY <3>2, <3>3
  <2>. QED
    BY <2>4, <2>5
<1>9. TypeOK'
  BY <1>3, <1>5 DEF IInv, TypeOK, NextAligned
<1>10. (FramesConserved /\ CountExact /\ GrantsAligned)'
  BY DEF IInv, FramesConserved, CountExact, GrantsAligned, NextAligned
<1>11. SearchInv'
  <2>1. (Aligned(current) /\ Aligned(first) /\ HasRoom(current))'
    BY <1>3, <1>5, <1>7 DEF Aligned, HasRoom
  <2>2. (\A r \in Requests : first + r.pages <= NumPages)'
    BY <1>2, <1>3 DEF SearchInv
  <2>3. (~wrapped => \A s \in bitmap : Aligned(s) /\ HasRoom(s) => ~Passed(s))'
    BY <1>3, <1>8 DEF Aligned, HasRoom
  <2>4. (wrapped => current = first /\ ~found /\ \A s \in bitmap : Aligned(s) => ~HasRoom(s))'
    BY <1>3, <1>8 DEF Aligned, HasRoom
  <2>. QED
    BY <1>2, <1>3, <2>1, <2>2, <2>3, <2>4 DEF SearchInv
<1>. QED
  BY <1>2, <1>9, <1>10, <1>11 DEF IInv

(* The loop over the rest of the run changes found and nothing else. *)
LEMMA CheckRunIInv == ASSUME IInv, CheckRun PROVE IInv'
<1>1. TypeOK' /\ req.pages \in Nat \ {0} /\ current \in Nat
  BY RequestOK DEF IInv, TypeOK, CheckRun
<1>2. (FramesConserved /\ CountExact /\ GrantsAligned)'
  BY DEF IInv, FramesConserved, CountExact, GrantsAligned, CheckRun
<1>3. SearchInv /\ pc = "inner"
  BY DEF IInv, CheckRun
<1>4. ASSUME ~wrapped, found' PROVE Run(current, req.pages) \subseteq bitmap
  <2>1. current \in bitmap /\ Run(current + 1, req.pages - 1) \subseteq bitmap
    BY <1>3, <1>4 DEF SearchInv, CheckRun
  <2>. QED
    BY <1>1, <2>1
<1>5. SearchInv'
  BY <1>3, <1>4 DEF SearchInv, Aligned, HasRoom, Passed, CheckRun
<1>6. pc' # "idle"
  BY DEF CheckRun
<1>. QED
  BY <1>1, <1>2, <1>5, <1>6 DEF IInv

(* A refusal leaves current where the search began, with room for anyone. *)
LEMMA RefuseIInv == ASSUME IInv, Refuse PROVE IInv'
<1>1. TypeOK'
  BY DEF IInv, TypeOK, Refuse
<1>2. (FramesConserved /\ CountExact /\ GrantsAligned)'
  BY DEF IInv, FramesConserved, CountExact, GrantsAligned, Refuse
<1>3. SearchInv /\ current = first
  BY DEF IInv, SearchInv, Refuse
<1>4. (\A r \in Requests : current + r.pages <= NumPages)'
  BY <1>3 DEF SearchInv, Refuse
<1>. QED
  BY <1>1, <1>2, <1>4 DEF IInv, Refuse

(* The run that Grant takes: free, inside the RAM, as long as asked for. *)
LEMMA GrantRun ==
  ASSUME IInv, Grant
  PROVE  /\ Run(current, req.pages) \subseteq bitmap
         /\ bitmap \subseteq Probed
         /\ current \in Run(current, req.pages)
         /\ IsFiniteSet(bitmap)
         /\ Cardinality(bitmap \ Run(current, req.pages)) = Cardinality(bitmap) - req.pages
         /\ Cardinality(bitmap \ Run(current, req.pages)) \in Nat
<1> DEFINE R == Run(current, req.pages)
<1>1. req.pages \in Nat \ {0} /\ current \in Nat
  BY RequestOK DEF IInv, TypeOK
<1>2. R \subseteq bitmap /\ bitmap \subseteq Probed
  BY DEF IInv, SearchInv, FramesConserved, Grant
<1>3. IsFiniteSet(bitmap)
  BY <1>2, ProbedFinite, FS_Subset
<1>4. Cardinality(R) = req.pages
  BY <1>1, RunSize
<1>5. bitmap \cap R = R
  BY <1>2
<1>6. Cardinality(bitmap \ R) = Cardinality(bitmap) - req.pages /\ IsFiniteSet(bitmap \ R)
  <2> HIDE DEF R
  <2>. QED
    BY <1>3, <1>4, <1>5, FS_Difference
<1>7. Cardinality(bitmap \ R) \in Nat
  BY <1>6, FS_CardinalityType
<1>. QED
  BY <1>1, <1>2, <1>3, <1>6, <1>7

(* The grant moves the run from the bitmap to its new holder. *)
LEMMA GrantIInv == ASSUME IInv, Grant PROVE IInv'
<1> DEFINE R == Run(current, req.pages)
           n == [start |-> current, pages |-> req.pages, align |-> req.align]
<1>1. /\ req \in Requests /\ req.pages \in Nat \ {0} /\ current \in Nat
      /\ \A h \in held : h \in Grants
  BY RequestOK DEF IInv, TypeOK
<1>2. /\ bitmap' = bitmap \ R /\ held' = held \cup {n} /\ num_free' = num_free - req.pages
      /\ current' = current /\ req' = req /\ pc' = "idle"
  BY DEF Grant
<1>3. R \subseteq bitmap /\ bitmap \subseteq Probed /\ current \in R
  BY GrantRun
<1>4. FramesOf(n) = R
  OBVIOUS
<1>5. TypeOK'
  <2>1. n \in Grants
    BY <1>1, <1>3, ProbedFinite DEF Grants
  <2>2. num_free' \in Nat
    BY <1>2, GrantRun DEF IInv, CountExact
  <2>3. bitmap' \subseteq Pages /\ held' \subseteq Grants
    BY <1>1, <1>2, <2>1 DEF IInv, TypeOK
  <2>. QED
    BY <2>2, <2>3 DEF IInv, TypeOK, Grant
<1>6. FramesConserved'
  <2> HIDE DEF n, R
  <2>1. \A h \in held : FramesOf(h) \cap bitmap = {} /\ FramesOf(h) \cap R = {}
    BY <1>3 DEF IInv, FramesConserved
  <2>2. \A h \in held' : FramesOf(h) \cap bitmap' = {}
    BY <1>2, <1>4, <2>1
  <2>3. \A g, h \in held' : g # h => FramesOf(g) \cap FramesOf(h) = {}
    BY <1>2, <1>4, <2>1 DEF IInv, FramesConserved
  <2>4. UNION {FramesOf(h) : h \in held'} = (UNION {FramesOf(h) : h \in held}) \cup R
    BY <1>2, <1>4
  <2>5. bitmap' \cup (UNION {FramesOf(h) : h \in held'}) = Probed
    BY <1>2, <1>3, <2>4 DEF IInv, FramesConserved
  <2>. QED
    BY <2>2, <2>3, <2>5 DEF FramesConserved
<1>7. CountExact'
  BY <1>2, GrantRun DEF IInv, CountExact
<1>8. GrantsAligned'
  BY <1>2 DEF IInv, GrantsAligned, SearchInv, Aligned, Grant
<1>9. (\A r \in Requests : current + r.pages <= NumPages)'
  BY <1>2, <1>3, PhysMemAssumption
<1>. QED
  BY <1>2, <1>5, <1>6, <1>7, <1>8, <1>9 DEF IInv

(* Freeing gives back exactly the holder's frames. *)
LEMMA FreePageIInv ==
  ASSUME IInv, NEW h \in held, FreePage(h)
  PROVE  IInv'
<1> DEFINE R == FramesOf(h)
<1>1. /\ bitmap' = bitmap \cup R /\ held' = held \ {h} /\ num_free' = num_free + h.pages
      /\ current' = current /\ req' = req /\ pc = "idle" /\ pc' = "idle"
  BY DEF FreePage, locals
<1>2. PICK s \in Pages, r \in Requests : h = [start |-> s, pages |-> r.pages, align |-> r.align]
  BY DEF IInv, TypeOK, Grants
<1>3. h.start \in Nat /\ h.pages \in Nat \ {0}
  BY <1>2, PhysMemAssumption
<1>4. R \subseteq Probed /\ R \cap bitmap = {} /\ bitmap \subseteq Probed
  BY DEF IInv, FramesConserved
<1>5. IsFiniteSet(R) /\ IsFiniteSet(bitmap)
  BY <1>4, ProbedFinite, FS_Subset
<1>6. Cardinality(R) = h.pages
  BY <1>3, RunSize
<1>7. CountExact' /\ num_free' \in Nat
  <2>1. Cardinality(bitmap \cup R) = Cardinality(bitmap) + Cardinality(R) - Cardinality(bitmap \cap R)
    BY <1>5, FS_Union
  <2>2. Cardinality(bitmap \cap R) = 0
    BY <1>4, FS_EmptySet
  <2>3. Cardinality(bitmap) \in Nat
    BY <1>5, FS_CardinalityType
  <2>. QED
    BY <1>1, <1>3, <1>6, <2>1, <2>2, <2>3 DEF IInv, CountExact
<1>8. TypeOK'
  <2>1. bitmap' \subseteq Pages
    BY <1>1, <1>4, ProbedFinite
  <2>. QED
    BY <1>1, <1>7, <2>1 DEF IInv, TypeOK, FreePage, locals
<1>9. FramesConserved'
  <2> HIDE DEF R
  <2>1. \A g \in held' : FramesOf(g) \cap bitmap = {} /\ FramesOf(g) \cap R = {}
    BY <1>1 DEF IInv, FramesConserved, R
  <2>2. UNION {FramesOf(g) : g \in held} = (UNION {FramesOf(g) : g \in held'}) \cup R
    BY <1>1 DEF R
  <2>3. bitmap' \cup (UNION {FramesOf(g) : g \in held'}) = Probed
    BY <1>1, <2>2 DEF IInv, FramesConserved
  <2>4. \A g, k \in held' : g # k => FramesOf(g) \cap FramesOf(k) = {}
    BY <1>1 DEF IInv, FramesConserved
  <2>. QED
    BY <1>1, <2>1, <2>3, <2>4 DEF FramesConserved
<1>10. GrantsAligned'
  BY <1>1 DEF IInv, GrantsAligned
<1>. QED
  BY <1>1, <1>7, <1>8, <1>9, <1>10 DEF IInv

(* Every step keeps the invariant. *)
LEMMA NextIInv == IInv /\ [Next]_vars => IInv'
<1> SUFFICES ASSUME IInv, [Next]_vars PROVE IInv'
  OBVIOUS
<1>1. CASE \E r \in Requests : GetPages(r)
  BY <1>1, GetPagesIInv
<1>2. CASE Search
  BY <1>2, FindAlignedIInv, NextAlignedIInv, CheckRunIInv, RefuseIInv, GrantIInv DEF Search
<1>3. CASE \E h \in held : FreePage(h)
  BY <1>3, FreePageIInv
<1>4. CASE UNCHANGED vars
  <2>1. TypeOK'
    BY <1>4 DEF IInv, TypeOK, vars
  <2>2. (FramesConserved /\ CountExact /\ GrantsAligned)'
    BY <1>4 DEF IInv, FramesConserved, CountExact, GrantsAligned, vars
  <2>3. SearchInv => SearchInv'
    BY <1>4 DEF SearchInv, Aligned, HasRoom, Passed, vars
  <2>. QED
    BY <1>4, <2>1, <2>2, <2>3 DEF IInv, vars
<1>. QED
  BY <1>1, <1>2, <1>3, <1>4 DEF Next

(* IInv holds in every state of every behaviour. *)
THEOREM Invariance == Spec => []IInv
  BY InitIInv, NextIInv, PTL DEF Spec
-----------------------------------------------------------------------------
(* Every variable keeps its type: num_free never goes below zero, the      *)
(* search never leaves the naturals.                                       *)
THEOREM TypeCorrect == Spec => []TypeOK
<1>1. IInv => TypeOK
  BY DEF IInv
<1>. QED
  BY <1>1, Invariance, PTL

(* No frame is lost, invented or owned twice, and the count is exact. *)
THEOREM FramesAccounted == Spec => [](FramesConserved /\ CountExact)
<1>1. IInv => FramesConserved /\ CountExact
  BY DEF IInv
<1>. QED
  BY <1>1, Invariance, PTL

(* Every run granted starts on the boundary asked for. *)
THEOREM GrantsAreAligned == Spec => []GrantsAligned
<1>1. IInv => GrantsAligned
  BY DEF IInv
<1>. QED
  BY <1>1, Invariance, PTL

(* The search reads no bit past the end of the bitmap. *)
THEOREM SearchStaysInBounds == Spec => []SearchInBounds
<1>1. IInv => SearchInBounds
  BY DEF IInv, SearchInv, HasRoom, SearchInBounds
<1>. QED
  BY <1>1, Invariance, PTL

(* When the search gives up, no aligned run of that length is free. *)
LEMMA RefusalJustifiedByIInv == IInv => RefusalJustified
<1> SUFFICES ASSUME IInv, pc = "decide", wrapped,
                    NEW s \in Pages, s % Stride(req.align) = 0,
                    Run(s, req.pages) \subseteq bitmap
             PROVE  FALSE
  BY DEF RefusalJustified
<1>1. req.pages \in Nat \ {0} /\ s \in Nat /\ NumPages \in Nat
  BY RequestOK, PhysMemAssumption DEF IInv
<1>2. s \in bitmap /\ s + req.pages - 1 \in bitmap
  BY <1>1
<1>3. ~HasRoom(s)
  BY <1>2 DEF IInv, SearchInv, Aligned
<1>4. s + req.pages - 1 \in Pages
  BY <1>2 DEF IInv, TypeOK
<1>. QED
  BY <1>1, <1>3, <1>4 DEF HasRoom

(* PHYS_MEM_NONE is returned only when no run would do. *)
THEOREM RefusalsAreJustified == Spec => []RefusalJustified
  BY RefusalJustifiedByIInv, Invariance, PTL
-----------------------------------------------------------------------------
(* Each step of phys_mem.c is a step of the promise, or invisible to it. *)
LEMMA StepKeepsPromise ==
  ASSUME IInv, [Next]_vars
  PROVE  [Promise!Next]_(Promise!absVars)
<1> USE DEF Promise!absVars
<1>1. ASSUME NEW r \in Requests, GetPages(r) PROVE Promise!Ask(r)
  BY <1>1 DEF GetPages, Promise!Ask
<1>2. CASE FindAligned \/ NextAligned \/ CheckRun
  BY <1>2 DEF FindAligned, NextAligned, CheckRun
<1>3. CASE Refuse
  <2>1. \A s \in Probed : ~Promise!Fits(s, req)
    <3>1. \A s \in Pages : s % Stride(req.align) = 0 => ~(Run(s, req.pages) \subseteq bitmap)
      BY <1>3, RefusalJustifiedByIInv DEF RefusalJustified, Refuse
    <3>. QED
      BY <3>1, ProbedFinite DEF Promise!Fits, Promise!Stride, Promise!Run, Stride
  <2>2. Promise!Refuse(req)
    BY <1>3, <2>1 DEF Refuse, Promise!Refuse
  <2>. QED
    BY <2>2 DEF Promise!Next, IInv, TypeOK
<1>4. CASE Grant
  <2>1. Run(current, req.pages) \subseteq bitmap /\ current \in Probed
    BY <1>4, GrantRun
  <2>2. current % Stride(req.align) = 0
    BY <1>4 DEF IInv, SearchInv, Aligned, Grant
  <2>3. Promise!Fits(current, req)
    BY <2>1, <2>2 DEF Promise!Fits, Promise!Stride, Promise!Run, Stride
  <2>4. Promise!Grant(req, current)
    BY <1>4, <2>3 DEF Grant, Promise!Grant, Promise!Run
  <2>. QED
    BY <2>1, <2>4 DEF Promise!Next, IInv, TypeOK
<1>5. ASSUME NEW h \in held, FreePage(h) PROVE Promise!Release(h)
  BY <1>5 DEF FreePage, locals, Promise!Release, Promise!Run
<1>6. CASE UNCHANGED vars
  BY <1>6 DEF vars
<1>. QED
  BY <1>1, <1>2, <1>3, <1>4, <1>5, <1>6 DEF Next, Search, Promise!Next

(* phys_mem.c implements the page allocator it promises to be. *)
THEOREM ImplementsPromise == Spec => KeepsPromise
<1>1. Init => Promise!Init
  BY DEF Init, Promise!Init
<1>2. IInv /\ [Next]_vars => [Promise!Next]_(Promise!absVars)
  BY StepKeepsPromise
<1>. QED
  BY <1>1, <1>2, Invariance, PTL DEF Spec, KeepsPromise, Promise!Spec
=============================================================================
